----------------------------- MODULE RelayProofs -----------------------------
(***************************************************************************)
(* What the relay does to the messages between a datapath and a            *)
(* controller, for ports, rates, buckets and queues of any size: how much  *)
(* the limiter may let through, in which order packet-ins arrive, and what *)
(* the datapath is told of the emergency protection.                       *)
(***************************************************************************)
EXTENDS Relay, FiniteSetTheorems, TLAPS

-----------------------------------------------------------------------------
(* RateBounded is not inductive: the invariant ties the history of an ideal *)
(* bucket to the tokens the limiter has and to those it will add when it is *)
(* filled the next time.                                                    *)

LimiterTypeOK ==
  /\ tokens \in Nat /\ tokens <= Max({Full, InitTokens})
  /\ unfilled \in 0 .. Full /\ allowance \in Int

(* The limiter is never further ahead of the ideal bucket than what it may  *)
(* hold at one time.                                                        *)
BucketInv == LimiterTypeOK /\ tokens + unfilled <= allowance + Max({Full, InitTokens})

(* The size of the bucket in tokens, and the most it holds.                 *)
LEMMA FullIsNat == Full \in Nat
BY LimiterAssumption DEF Full

LEMMA MostTokens ==
  /\ Max({Full, InitTokens}) \in Nat
  /\ Full <= Max({Full, InitTokens}) /\ InitTokens <= Max({Full, InitTokens})
<1>1. Full \in Nat /\ InitTokens \in Nat
  BY FullIsNat, LimiterAssumption
<1> QED BY <1>1 DEF Max

(* Min of a pair.                                                           *)
LEMMA MinOfTwo ==
  ASSUME NEW a \in Int, NEW b \in Int
  PROVE  Min({a, b}) = IF a <= b THEN a ELSE b
BY DEF Min

(* What a step of the relay may do to the bucket and its history: nothing,  *)
(* take one packet's tokens that are there, be filled, or wait.             *)
BucketStep ==
  \/ UNCHANGED <<tokens, unfilled, allowance>>
  \/ tokens >= Cost /\ get_token /\ UNCHANGED unfilled
  \/ refill_bucket /\ UNCHANGED allowance
  \/ BucketTick

(* All callers of the limiter's operations are of these four kinds.         *)
LEMMA StepIsBucketStep ==
  ASSUME [Next]_vars
  PROVE  BucketStep
<1> USE DEF BucketStep
<1>1. CASE UNCHANGED vars
  BY <1>1 DEF vars, limiter
<1>2. CASE WakesUp
  BY <1>2 DEF WakesUp, limiter
<1>3. CASE RelayHeld
  BY <1>3 DEF RelayHeld, limiter
<1>4. CASE RelayPasses
  BY <1>4 DEF RelayPasses, limiter, PassesLimiter, TakesToken, Limited
<1>5. CASE HookTakesLocal
  BY <1>5 DEF HookTakesLocal, limiter, QueuedByLimiter
<1>6. CASE HookTakesRemote
  BY <1>6 DEF HookTakesRemote, limiter
<1>7. CASE Hooks
  BY <1>7 DEF Hooks
<1>8. CASE Drain
  BY <1>8 DEF Drain, Draining
<1>9. CASE DrainEnds
  BY <1>9 DEF DrainEnds, Draining
<1>10. CASE relay_accept
  BY <1>10 DEF relay_accept, limiter
<1>11. CASE \E h \in Half : Transmit(h) \/ Lose(h) \/ Reconnect(h)
  BY <1>11 DEF Transmit, Lose, Reconnect, limiter
<1>12. CASE Tick
  BY <1>12 DEF Tick
<1> QED
  BY <1>1, <1>2, <1>3, <1>4, <1>5, <1>6, <1>7, <1>8, <1>9, <1>10, <1>11, <1>12
     DEF Next, Relaying

(* Each of them keeps the invariant.                                        *)
LEMMA BucketStepKeeps ==
  ASSUME BucketInv, BucketStep
  PROVE  BucketInv'
<1> DEFINE most == Max({Full, InitTokens})
<1>1. /\ tokens \in Int /\ unfilled \in Int /\ allowance \in Int
      /\ Full \in Nat /\ Cost \in Nat /\ Rate \in Nat /\ most \in Nat /\ Full <= most
      /\ 0 <= tokens /\ tokens <= most /\ 0 <= unfilled /\ unfilled <= Full
      /\ tokens + unfilled <= allowance + most
  BY FullIsNat, MostTokens, LimiterAssumption DEF BucketInv, LimiterTypeOK
<1>a. BucketInv' <=> /\ tokens' \in Nat /\ tokens' <= most
                     /\ unfilled' \in 0 .. Full /\ allowance' \in Int
                     /\ tokens' + unfilled' <= allowance' + most
  BY DEF BucketInv, LimiterTypeOK, Full
<1> HIDE DEF most
<1>2. CASE UNCHANGED <<tokens, unfilled, allowance>>
  BY <1>1, <1>2, <1>a
<1>3. CASE tokens >= Cost /\ get_token /\ UNCHANGED unfilled
  <2>1. /\ tokens' = tokens - Cost /\ allowance' = allowance - Cost
        /\ unfilled' = unfilled
    BY <1>3 DEF get_token
  <2> QED
    BY <1>1, <1>3, <1>a, <2>1
<1>4. CASE refill_bucket /\ UNCHANGED allowance
  <2>1. Min({unfilled + tokens, Full}) =
          IF unfilled + tokens <= Full THEN unfilled + tokens ELSE Full
    BY <1>1, MinOfTwo
  <2>2. CASE unfilled + tokens >= Cost
    <3>1. /\ tokens' = Min({unfilled + tokens, Full}) /\ unfilled' = 0
          /\ allowance' = allowance
      BY <1>4, <2>2 DEF refill_bucket
    <3> QED
      BY <1>1, <1>a, <2>1, <3>1
  <2>3. CASE ~(unfilled + tokens >= Cost)
    BY <1>1, <1>4, <1>a, <2>3 DEF refill_bucket
  <2> QED
    BY <2>2, <2>3
<1>5. CASE BucketTick
  <2>1. /\ Min({unfilled + Rate, Full}) =
             IF unfilled + Rate <= Full THEN unfilled + Rate ELSE Full
        /\ Min({allowance + Rate, Full}) =
             IF allowance + Rate <= Full THEN allowance + Rate ELSE Full
    BY <1>1, MinOfTwo
  <2>2. /\ unfilled' = Min({unfilled + Rate, Full})
        /\ allowance' = Min({allowance + Rate, Full})
        /\ tokens' = tokens
    BY <1>5 DEF BucketTick
  <2> QED
    BY <1>1, <1>a, <2>1, <2>2
<1> QED
  BY <1>2, <1>3, <1>4, <1>5 DEF BucketStep

(* refill_bucket and get_token let through at most one bucket more than the *)
(* configured rate and burst, or the tokens rate_limit_start gives if they  *)
(* are more, in any interval, however the main loop orders receiving,       *)
(* filling and draining, for any rate, burst limit and initial tokens.      *)
THEOREM RateIsBounded == Spec => []RateBounded
<1>1. Init => BucketInv
  BY FullIsNat, MostTokens, LimiterAssumption
     DEF Init, rate_limit_start, BucketInv, LimiterTypeOK
<1>2. BucketInv /\ [Next]_vars => BucketInv'
  BY StepIsBucketStep, BucketStepKeeps
<1>3. BucketInv => RateBounded
  BY FullIsNat, MostTokens DEF BucketInv, LimiterTypeOK, RateBounded
<1> QED
  BY <1>1, <1>2, <1>3, PTL DEF Spec

-----------------------------------------------------------------------------
(* What the two halves, their queues and the queues of the limiter hold.    *)
Held   == [kind : {"other"}, port : {0}, tag : Tag]
Msg    == [kind : {"other"} \cup Emergency, port : {0}, tag : Tag]
Entry  == [msg : Msg, by : Half \cup {"none", "limiter"}]
Packet == [kind : {"packet_in"}, port : Ports, tag : Tag]

RelayTypeOK ==
  /\ use \in RelayUses /\ half \in Half /\ link \in [Half -> BOOLEAN]
  /\ rxbuf \in [Half -> Seq(Held)] /\ txq \in [Half -> Seq(Entry)]
  /\ \A h \in Half : Len(rxbuf[h]) <= 1
  /\ queues \in [Ports -> Seq(Packet)] /\ next_tx_port \in Ports
  /\ emerg \in Emergency /\ told \in Emergency
  /\ got \in Seq(Tag \ {"none"}) /\ tagged \in Seq(Reasons) /\ Len(tagged) <= 2
  /\ intact \in BOOLEAN

(* The other half.                                                          *)
LEMMA Peers == Peer("local") = "remote" /\ Peer("remote") = "local"
BY DEF Peer, Half

(* What a half sends, and that it is a message.                             *)
LEMMA SendTyped ==
  ASSUME RelayTypeOK, NEW h \in Half, NEW m \in Msg, NEW by \in Half \cup {"none", "limiter"},
         Send(h, m, by)
  PROVE  txq' \in [Half -> Seq(Entry)] /\ told' \in Emergency /\ got' \in Seq(Tag \ {"none"})
<1> DEFINE e == [msg |-> m, by |-> by]
<1>1. e \in Entry
  BY DEF Entry
<1>2. CASE txq[h] = <<>> /\ Deliver(h, m) /\ UNCHANGED txq
  BY <1>2 DEF Deliver, RelayTypeOK, Msg
<1>3. CASE txq' = [txq EXCEPT ![h] = Append(@, e)] /\ UNCHANGED <<got, told>>
  BY <1>1, <1>3 DEF RelayTypeOK
<1> QED BY <1>2, <1>3 DEF Send

(* relay_run goes to the other half, or leaves its loop.                    *)
LEMMA GoesTyped ==
  ASSUME NEW p, NEW broke, Goes(p, broke)
  PROVE  half' \in Half /\ (pc' = "gone" => pc = "gone" \/ mgmt)
BY DEF Goes, Half

(* Of a packet the other half gets the tag.                                 *)
LEMMA RelayedPacket ==
  ASSUME NEW m \in Packet
  PROVE  Relayed(m) = [kind |-> "other", port |-> 0, tag |-> m.tag] /\ m.tag \in Tag
<1>1. PICK p \in Ports, t \in Tag : m = [kind |-> "packet_in", port |-> p, tag |-> t]
  BY DEF Packet
<1> QED BY <1>1 DEF Relayed, Reasons

(* Lengths of what was sent.                                                *)
LEMMA SmallNumbers ==
  ASSUME NEW n \in Nat
  PROVE  /\ n <= 2 /\ n # 2 => n <= 1
         /\ n <= 1 /\ n # 0 => n = 1
         /\ n <= 1 => n # 2
OBVIOUS

(* What a half receives is a message for the limiter or for the other half. *)
LEMMA ReceivedTyped ==
  ASSUME RelayTypeOK, NEW m, Received(m)
  PROVE  /\ tagged' \in Seq(Reasons) /\ Len(tagged') <= 2
         /\ m.kind # "status" => Relayed(m) \in Held /\ Relayed(m).tag = m.tag
         /\ m.kind = "packet_in" => m \in Packet
         /\ half = "local" /\ use = "rate_limit" => m.kind \in Reasons
<1>1. m \in Messages(half) /\ tagged' = IF m.tag = "none" THEN tagged ELSE Append(tagged, m.kind)
  BY DEF Received
<1>2. /\ NumPorts - 1 \in Ports /\ 0 \in Ports
      /\ tagged \in Seq(Reasons) /\ Len(tagged) <= 2 /\ Len(tagged) \in Nat
  BY LimiterAssumption DEF Ports, RelayTypeOK
<1>a. half = "local" /\ use = "rate_limit" => m.kind \in Reasons
  BY <1>1 DEF Messages, PacketIn, Reasons
<1>3. CASE m = Plain("other") \/ m = Plain("status")
  BY <1>1, <1>2, <1>3, <1>a DEF Plain, Relayed, Reasons, Held, Tag
<1>4. ASSUME NEW k \in Reasons, NEW p \in Ports, NEW t \in Tag, m = PacketIn(k, p, t),
             t # "none" => Len(tagged) # 2
      PROVE  /\ tagged' \in Seq(Reasons) /\ Len(tagged') <= 2
             /\ Relayed(m) \in Held /\ Relayed(m).tag = m.tag
             /\ m.kind = "packet_in" => m \in Packet
  <2>1. m = [kind |-> k, port |-> p, tag |-> t]
    BY <1>4 DEF PacketIn
  <2>2. Relayed(m) = [kind |-> "other", port |-> 0, tag |-> t]
    <3>1. m.kind \in Reasons
      BY <2>1
    <3>2. Relayed(m) = [m EXCEPT !.kind = "other", !.port = 0]
      BY <3>1 DEF Relayed
    <3> QED BY <2>1, <3>2
  <2>3. tagged' \in Seq(Reasons) /\ Len(tagged') <= 2
    <3>1. CASE t = "none"
      BY <1>1, <1>2, <2>1, <3>1
    <3>2. CASE t # "none"
      <4>1. tagged' = Append(tagged, k) /\ Len(tagged) <= 1
        <5>1. m.tag # "none" /\ m.kind = k
          BY <2>1, <3>2
        <5>2. tagged' = Append(tagged, k)
          BY <1>1, <5>1
        <5>3. Len(tagged) # 2
          BY <1>4, <3>2
        <5> QED BY <1>2, <5>2, <5>3, SmallNumbers
      <4> QED BY <1>2, <1>4, <4>1
    <3> QED BY <3>1, <3>2
  <2> QED BY <2>1, <2>2, <2>3 DEF Held, Packet
<1>5. CASE \E p \in Ports : m = PacketIn("packet_in", p, "none")
  BY <1>4, <1>5, <1>a DEF Reasons, Tag
<1>6. CASE m = PacketIn("action_in", 0, "none")
  BY <1>2, <1>4, <1>6, <1>a DEF Reasons, Tag
<1>7. CASE /\ Len(tagged) # 2
           /\ \E k \in Reasons :
                m = PacketIn(k, NumPorts - 1, IF tagged = <<>> THEN "first" ELSE "second")
  BY <1>2, <1>4, <1>7, <1>a DEF Tag
<1> QED BY <1>1, <1>3, <1>5, <1>6, <1>7 DEF Messages

(* The second part of relay_run for a half.                                 *)
LEMMA ForwardTyped ==
  ASSUME RelayTypeOK, NEW buf \in Seq(Held), Len(buf) <= 1, Forward(buf)
  PROVE  /\ rxbuf' \in [Half -> Seq(Held)] /\ \A h \in Half : Len(rxbuf'[h]) <= 1
         /\ txq' \in [Half -> Seq(Entry)] /\ half' \in Half
         /\ told' \in Emergency /\ got' \in Seq(Tag \ {"none"})
         /\ pc' = "gone" => pc = "gone" \/ mgmt
<1>1. half' \in Half /\ (pc' = "gone" => pc = "gone" \/ mgmt)
  BY GoesTyped DEF Forward
<1>2. rxbuf' \in [Half -> Seq(Held)] /\ \A h \in Half : Len(rxbuf'[h]) <= 1
  <2>1. PICK b \in {buf, <<>>} : rxbuf' = [rxbuf EXCEPT ![half] = b]
    BY DEF Forward
  <2>a. <<>> \in Seq(Held) /\ Len(<<>>) <= 1
    OBVIOUS
  <2>2. b \in Seq(Held) /\ Len(b) <= 1
    BY <2>a
  <2> QED BY <2>1, <2>2 DEF RelayTypeOK
<1>3. CASE UNCHANGED <<txq, got, told>>
  BY <1>1, <1>2, <1>3 DEF RelayTypeOK
<1>4. CASE buf # <<>> /\ Send(Peer(half), Head(buf), half)
  <2>1. Head(buf) \in Msg /\ Peer(half) \in Half /\ half \in Half
    <3>1. Head(buf) \in Held
      BY <1>4
    <3> QED BY <3>1, Peers DEF Held, Msg, RelayTypeOK, Half
  <2> QED BY <1>1, <1>2, <1>4, <2>1, SendTyped
<1> QED BY <1>3, <1>4 DEF Forward

(* A set of naturals has a least member, and a greatest one when bounded.   *)
LEMMA LeastNatural ==
  ASSUME NEW S \in SUBSET Nat, S # {}
  PROVE  \E m \in S : \A n \in S : m <= n
<1>1. IsWellFoundedOn(OpToRel(<, Nat), Nat)
  BY NatLessThanWellFounded
<1>2. PICK m \in S : \A n \in S : ~(<<n, m>> \in OpToRel(<, Nat))
  BY <1>1, WFMin
<1>3. \A x, y \in Nat : <<y, x>> \in OpToRel(<, Nat) <=> y < x
  BY DEF OpToRel
<1>4. \A n \in S : ~(n < m)
  BY <1>2, <1>3
<1> QED BY <1>4

LEMMA GreatestNatural ==
  ASSUME NEW S \in SUBSET Nat, S # {}, NEW b \in Nat, \A n \in S : n <= b
  PROVE  Max(S) \in S /\ \A n \in S : n <= Max(S)
<1> DEFINE D == {d \in Nat : b - d \in S}
<1>1. \A n \in S : b - n \in D
  <2> TAKE n \in S
  <2>1. b - n \in Nat /\ b - (b - n) = n
    OBVIOUS
  <2> QED BY <2>1
<1>2. PICK d \in D : \A e \in D : d <= e
  BY <1>1, LeastNatural
<1>3. b - d \in S /\ d \in Nat
  OBVIOUS
<1> HIDE DEF D
<1>4. \A n \in S : b - d >= n
  <2> TAKE n \in S
  <2>1. d <= b - n
    BY <1>1, <1>2
  <2> QED BY <2>1, <1>3
<1> QED BY <1>3, <1>4 DEF Max

-----------------------------------------------------------------------------
(* The places of the limiter's queues that are taken: n_queued counts them. *)
Places(qs) == {c \in Ports \X Nat : 1 <= c[2] /\ c[2] <= Len(qs[c[1]])}
QueuesCounted == IsFiniteSet(Places(queues)) /\ n_queued = Cardinality(Places(queues))

LEMMA PlacesAppend ==
  ASSUME NEW qs \in [Ports -> Seq(Packet)], IsFiniteSet(Places(qs)),
         NEW p \in Ports, NEW m \in Packet
  PROVE  LET new == [qs EXCEPT ![p] = Append(@, m)]
         IN  /\ new \in [Ports -> Seq(Packet)] /\ IsFiniteSet(Places(new))
             /\ Cardinality(Places(new)) = Cardinality(Places(qs)) + 1
<1> DEFINE new == [qs EXCEPT ![p] = Append(@, m)]
           at  == <<p, Len(qs[p]) + 1>>
<1>1. /\ new \in [Ports -> Seq(Packet)] /\ Len(new[p]) = Len(qs[p]) + 1
      /\ \A o \in Ports : o # p => new[o] = qs[o]
  OBVIOUS
<1>2. at \in Ports \X Nat /\ at \notin Places(qs)
  BY DEF Places
<1>3. Places(new) = Places(qs) \cup {at}
  <2>1. \A c \in Ports \X Nat : c \in Places(new) <=> c \in Places(qs) \/ c = at
    <3> TAKE c \in Ports \X Nat
    <3>1. c = <<c[1], c[2]>> /\ c[1] \in Ports /\ c[2] \in Nat /\ Len(qs[p]) \in Nat
      OBVIOUS
    <3> HIDE DEF new
    <3> QED BY <1>1, <3>1 DEF Places
  <2> QED BY <1>2, <2>1 DEF Places
<1>4. IsFiniteSet(Places(new)) /\ Cardinality(Places(new)) = Cardinality(Places(qs)) + 1
  <2> HIDE DEF new, at
  <2> QED BY <1>2, <1>3, FS_AddElement
<1> QED BY <1>1, <1>4

LEMMA PlacesTail ==
  ASSUME NEW qs \in [Ports -> Seq(Packet)], IsFiniteSet(Places(qs)),
         NEW p \in Ports, qs[p] # <<>>
  PROVE  LET new == [qs EXCEPT ![p] = Tail(@)]
         IN  /\ new \in [Ports -> Seq(Packet)] /\ IsFiniteSet(Places(new))
             /\ Cardinality(Places(new)) = Cardinality(Places(qs)) - 1
<1> DEFINE new == [qs EXCEPT ![p] = Tail(@)]
           at  == <<p, Len(qs[p])>>
<1>1. /\ new \in [Ports -> Seq(Packet)] /\ Len(new[p]) = Len(qs[p]) - 1
      /\ \A o \in Ports : o # p => new[o] = qs[o]
  OBVIOUS
<1>2. at \in Places(qs)
  BY DEF Places
<1>3. Places(new) = Places(qs) \ {at}
  <2>1. \A c \in Ports \X Nat : c \in Places(new) <=> c \in Places(qs) /\ c # at
    <3> TAKE c \in Ports \X Nat
    <3>1. c = <<c[1], c[2]>> /\ c[1] \in Ports /\ c[2] \in Nat /\ Len(qs[p]) \in Nat
      OBVIOUS
    <3> HIDE DEF new
    <3> QED BY <1>1, <3>1 DEF Places
  <2> QED BY <1>2, <2>1 DEF Places
<1>4. IsFiniteSet(Places(new)) /\ Cardinality(Places(new)) = Cardinality(Places(qs)) - 1
  <2> HIDE DEF new, at
  <2> QED BY <1>2, <1>3, FS_RemoveElement
<1> QED BY <1>1, <1>4

(* n_queued is zero when the queues are empty, and only then.               *)
LEMMA NoneQueued ==
  ASSUME RelayTypeOK, QueuesCounted
  PROVE  n_queued \in Nat /\ (n_queued = 0 <=> \A p \in Ports : queues[p] = <<>>)
<1>1. n_queued \in Nat /\ (n_queued = 0 <=> Places(queues) = {})
  BY FS_CardinalityType, FS_EmptySet DEF QueuesCounted
<1>2. Places(queues) = {} => \A p \in Ports : queues[p] = <<>>
  <2> SUFFICES ASSUME NEW p \in Ports, queues[p] # <<>> PROVE Places(queues) # {}
    OBVIOUS
  <2>1. queues[p] \in Seq(Packet)
    BY DEF RelayTypeOK
  <2>2. <<p, 1>> \in Places(queues)
    BY <2>1 DEF Places
  <2> QED BY <2>2
<1>3. (\A p \in Ports : queues[p] = <<>>) => Places(queues) = {}
  BY DEF Places
<1> QED BY <1>1, <1>2, <1>3

(* dequeue_packet finds a queue that is not empty.                          *)
LEMMA NextPortQueued ==
  ASSUME RelayTypeOK, QueuesCounted, n_queued > 0
  PROVE  NextPort \in Ports /\ queues[NextPort] # <<>>
<1> DEFINE distance(p) == (p - next_tx_port + NumPorts) % NumPorts
           D == {n \in Nat : \E p \in Ports : queues[p] # <<>> /\ n = distance(p)}
<1>1. \A p \in Ports : distance(p) \in Nat
  <2> TAKE p \in Ports
  <2>1. p - next_tx_port + NumPorts \in Int /\ NumPorts \in Nat /\ NumPorts > 0
    BY LimiterAssumption DEF RelayTypeOK, Ports
  <2> QED BY <2>1
<1>2. PICK p \in Ports : queues[p] # <<>>
  BY NoneQueued
<1>3. distance(p) \in D
  BY <1>1, <1>2
<1>4. PICK n \in D : \A k \in D : n <= k
  BY <1>3, LeastNatural
<1>5. PICK o \in Ports : queues[o] # <<>> /\ n = distance(o)
  OBVIOUS
<1>6. \A q \in Ports : queues[q] # <<>> => distance(o) <= distance(q)
  BY <1>1, <1>4, <1>5
<1>7. \E q \in Ports :
        /\ queues[q] # <<>>
        /\ \A r \in Ports : queues[r] # <<>> => distance(q) <= distance(r)
  BY <1>5, <1>6
<1> QED BY <1>7 DEF NextPort

(* What a packet that is queued may push out: the head of a queue.          *)
LEMMA QueuedTyped ==
  ASSUME RelayTypeOK, QueuesCounted, NEW m \in Packet, QueuedByLimiter(m)
  PROVE  /\ queues' \in [Ports -> Seq(Packet)] /\ QueuesCounted'
         /\ \E q : /\ queues' = [q EXCEPT ![m.port] = Append(@, m)]
                   /\ q \in [Ports -> Seq(Packet)]
                   /\ \/ q = queues
                      \/ \E p \in Ports : queues[p] # <<>> /\ q = [queues EXCEPT ![p] = Tail(@)]
<1>1. PICK q \in IF n_queued >= Burst THEN AfterDrop ELSE {queues} :
        queues' = [q EXCEPT ![m.port] = Append(@, m)]
  BY DEF QueuedByLimiter
<1>2. /\ queues \in [Ports -> Seq(Packet)] /\ IsFiniteSet(Places(queues))
      /\ n_queued = Cardinality(Places(queues)) /\ n_queued \in Nat
  BY NoneQueued DEF RelayTypeOK, QueuesCounted
<1>a. m.port \in Ports /\ Burst \in Nat /\ Burst > 0
  BY LimiterAssumption DEF Packet
<1>3. CASE n_queued < Burst
  <2>1. q = queues /\ n_queued' = n_queued + 1
    BY <1>2, <1>3, <1>a DEF QueuedByLimiter
  <2>2. /\ queues' \in [Ports -> Seq(Packet)] /\ IsFiniteSet(Places(queues'))
        /\ Cardinality(Places(queues')) = Cardinality(Places(queues)) + 1
    BY <1>1, <1>2, <1>a, <2>1, PlacesAppend
  <2>3. QueuesCounted'
    BY <1>2, <2>1, <2>2 DEF QueuesCounted
  <2> QED BY <1>1, <1>2, <2>1, <2>2, <2>3
<1>4. CASE ~(n_queued < Burst)
  <2>1. PICK p \in Ports : /\ q = [queues EXCEPT ![p] = Tail(@)]
                           /\ \A o \in Ports : Len(queues[o]) <= Len(queues[p])
    BY <1>2, <1>4, <1>a DEF AfterDrop
  <2>2. queues[p] # <<>>
    <3>1. PICK o \in Ports : queues[o] # <<>>
      BY <1>2, <1>4, <1>a, NoneQueued
    <3>2. queues[o] \in Seq(Packet) /\ Len(queues[o]) > 0
      BY <1>2, <3>1
    <3> QED BY <2>1, <3>2
  <2>3. /\ q \in [Ports -> Seq(Packet)] /\ IsFiniteSet(Places(q))
        /\ Cardinality(Places(q)) = n_queued - 1
    BY <1>2, <2>1, <2>2, PlacesTail
  <2>4. /\ queues' \in [Ports -> Seq(Packet)] /\ IsFiniteSet(Places(queues'))
        /\ Cardinality(Places(queues')) = Cardinality(Places(q)) + 1
    BY <1>1, <1>2, <1>a, <2>3, PlacesAppend
  <2>5. n_queued' = n_queued
    BY <1>2, <1>4, <1>a DEF QueuedByLimiter
  <2>6. QueuesCounted'
    BY <1>2, <2>3, <2>4, <2>5 DEF QueuesCounted
  <2> QED BY <1>1, <2>1, <2>2, <2>3, <2>4, <2>6
<1> QED BY <1>3, <1>4

-----------------------------------------------------------------------------
(* The part of the invariant both results rest on.                          *)
RelayBase ==
  /\ RelayTypeOK /\ QueuesCounted
  /\ pc = "gone" => mgmt
  /\ use # "rate_limit" => n_queued = 0 /\ tagged = <<>>
  /\ intact => link["local"]

(* Without the limiter nothing is tagged and nothing is queued.             *)
LEMMA UntaggedUnlimited ==
  ASSUME RelayTypeOK, NEW m, Received(m), use # "rate_limit"
  PROVE  ~Limited(m) /\ m.tag = "none"
BY DEF Limited, Received, Messages, Plain, RelayTypeOK

(* A half of the relay that forwards what it holds or has received.         *)
LEMMA ForwardBase ==
  ASSUME RelayBase, AtHalf, NEW buf \in Seq(Held), Len(buf) <= 1, Forward(buf),
         UNCHANGED <<queues, n_queued, next_tx_port>>,
         tagged' \in Seq(Reasons), Len(tagged') <= 2,
         use # "rate_limit" => tagged' = tagged
  PROVE  RelayBase'
<1>1. RelayTypeOK
  BY DEF RelayBase
<1>2. /\ rxbuf' \in [Half -> Seq(Held)] /\ \A h \in Half : Len(rxbuf'[h]) <= 1
      /\ txq' \in [Half -> Seq(Entry)] /\ half' \in Half
      /\ told' \in Emergency /\ got' \in Seq(Tag \ {"none"})
      /\ pc' = "gone" => pc = "gone" \/ mgmt
  BY <1>1, ForwardTyped
<1>3. UNCHANGED <<use, link, emerg, intact>>
  BY DEF AtHalf
<1>4. RelayTypeOK'
  BY <1>1, <1>2, <1>3 DEF RelayTypeOK
<1>5. QueuesCounted'
  BY DEF RelayBase, QueuesCounted
<1> QED BY <1>2, <1>3, <1>4, <1>5 DEF RelayBase, mgmt

(* Every step keeps it.                                                     *)
LEMMA RelayBaseStep ==
  ASSUME RelayBase, [Next]_vars
  PROVE  RelayBase'
<1> USE Peers
<1>1. RelayTypeOK /\ QueuesCounted
  BY DEF RelayBase
<1>a. "local" \in Half /\ "remote" \in Half
  BY DEF Half
<1>2. CASE UNCHANGED vars \/ WakesUp \/ Tick \/ Hooks
  <2>1. /\ UNCHANGED <<use, link, rxbuf, txq, emerg, got, tagged, told, intact>>
        /\ UNCHANGED <<queues, n_queued, next_tx_port>>
        /\ half' \in {half, "local"} /\ (pc' = "gone" => pc = "gone")
    BY <1>2 DEF vars, WakesUp, Tick, BucketTick, Hooks, loop, hist, limiter
  <2>2. RelayTypeOK' /\ QueuesCounted'
    BY <1>1, <1>a, <2>1 DEF RelayTypeOK, QueuesCounted
  <2> QED BY <2>1, <2>2 DEF RelayBase, mgmt
<1>3. CASE RelayHeld
  <2>1. rxbuf[half] \in Seq(Held) /\ Len(rxbuf[half]) <= 1
    BY <1>1 DEF RelayTypeOK
  <2>2. /\ tagged' \in Seq(Reasons) /\ Len(tagged') <= 2
        /\ UNCHANGED <<tagged, queues, n_queued, next_tx_port>>
    BY <1>1, <1>3 DEF RelayHeld, limiter, RelayTypeOK
  <2> QED BY <1>3, <2>1, <2>2, ForwardBase DEF RelayHeld
<1>4. CASE RelayPasses
  <2>1. PICK m \in Messages(half) :
          /\ Received(m) /\ m.kind # "status" /\ PassesLimiter(m)
          /\ Forward(<<Relayed(m)>>)
    BY <1>4 DEF RelayPasses
  <2>2. tagged' \in Seq(Reasons) /\ Len(tagged') <= 2 /\ Relayed(m) \in Held
    BY <1>1, <2>1, ReceivedTyped
  <2>3. <<Relayed(m)>> \in Seq(Held) /\ Len(<<Relayed(m)>>) <= 1
    BY <2>2
  <2>4. UNCHANGED <<queues, n_queued, next_tx_port>>
    BY <2>1 DEF PassesLimiter, limiter
  <2>5. use # "rate_limit" => tagged' = tagged
    BY <1>1, <2>1, UntaggedUnlimited DEF Received
  <2> QED BY <1>4, <2>1, <2>2, <2>3, <2>4, <2>5, ForwardBase DEF RelayPasses
<1>5. CASE HookTakesLocal
  <2>1. PICK m \in Messages(half) :
          /\ Received(m)
          /\ \/ ~link["remote"] /\ UNCHANGED limiter
             \/ QueuedByLimiter(m)
    BY <1>5 DEF HookTakesLocal
  <2>2. /\ UNCHANGED <<rxbuf, txq, got, told, use, link, emerg, intact>> /\ half = "local"
        /\ Goes(TRUE, TRUE)
    BY <1>5 DEF HookTakesLocal, AtHalf
  <2>3. half' \in Half /\ (pc' = "gone" => pc = "gone" \/ mgmt)
    BY <2>2, GoesTyped
  <2>4. tagged' \in Seq(Reasons) /\ Len(tagged') <= 2
    BY <1>1, <2>1, ReceivedTyped
  <2>5. queues' \in [Ports -> Seq(Packet)] /\ QueuesCounted' /\ next_tx_port' = next_tx_port
    <3>1. CASE UNCHANGED limiter
      BY <1>1, <3>1 DEF limiter, QueuesCounted, RelayTypeOK
    <3>2. CASE QueuedByLimiter(m)
      <4>1. m \in Packet
        BY <1>1, <2>1, <3>2, ReceivedTyped DEF QueuedByLimiter, Limited
      <4>2. queues' \in [Ports -> Seq(Packet)] /\ QueuesCounted'
        BY <1>1, <3>2, <4>1, QueuedTyped
      <4> QED BY <3>2, <4>2 DEF QueuedByLimiter
    <3> QED BY <2>1, <3>1, <3>2
  <2>6. use # "rate_limit" => n_queued' = n_queued /\ tagged' = tagged
    BY <1>1, <2>1, UntaggedUnlimited DEF Received, limiter, QueuedByLimiter
  <2>7. RelayTypeOK'
    BY <1>1, <2>2, <2>3, <2>4, <2>5 DEF RelayTypeOK
  <2> QED BY <2>2, <2>3, <2>4, <2>5, <2>6, <2>7 DEF RelayBase, mgmt
<1>6. CASE HookTakesRemote
  <2>1. /\ UNCHANGED <<rxbuf, use, link, emerg, intact, queues, n_queued, next_tx_port>>
        /\ Goes(TRUE, TRUE) /\ Received(Plain("status"))
        /\ Send("remote", Plain("other"), "none")
    BY <1>6 DEF HookTakesRemote, AtHalf, limiter
  <2>2. Plain("other") \in Msg
    BY DEF Plain, Msg, Tag
  <2>3. txq' \in [Half -> Seq(Entry)] /\ told' \in Emergency /\ got' \in Seq(Tag \ {"none"})
    BY <1>1, <1>a, <2>1, <2>2, SendTyped
  <2>4. half' \in Half /\ (pc' = "gone" => pc = "gone" \/ mgmt) /\ tagged' = tagged
    BY <2>1, GoesTyped DEF Received, Plain
  <2>5. RelayTypeOK' /\ QueuesCounted'
    BY <1>1, <2>1, <2>3, <2>4 DEF RelayTypeOK, QueuesCounted
  <2> QED BY <2>1, <2>4, <2>5 DEF RelayBase, mgmt
<1>7. CASE Drain
  <2> DEFINE msg == Head(queues[NextPort])
  <2>1. n_queued > 0 /\ NextPort \in Ports /\ queues[NextPort] # <<>>
    BY <1>1, <1>7, NextPortQueued DEF Drain, Draining
  <2>2. /\ queues' = [queues EXCEPT ![NextPort] = Tail(@)] /\ n_queued' = n_queued - 1
        /\ next_tx_port' = (NextPort + 1) % NumPorts
        /\ UNCHANGED <<use, pc, half, link, rxbuf, emerg, tagged, intact>>
    BY <1>7 DEF Drain, dequeue_packet
  <2>3. queues' \in [Ports -> Seq(Packet)] /\ QueuesCounted'
    <3>1. /\ queues \in [Ports -> Seq(Packet)] /\ IsFiniteSet(Places(queues))
          /\ n_queued = Cardinality(Places(queues))
      BY <1>1 DEF RelayTypeOK, QueuesCounted
    <3>2. /\ queues' \in [Ports -> Seq(Packet)] /\ IsFiniteSet(Places(queues'))
          /\ Cardinality(Places(queues')) = Cardinality(Places(queues)) - 1
      BY <2>1, <2>2, <3>1, PlacesTail
    <3> QED BY <2>2, <3>1, <3>2 DEF QueuesCounted
  <2>4. next_tx_port' \in Ports
    BY <2>1, <2>2, LimiterAssumption DEF Ports
  <2>5. Relayed(msg) \in Msg
    <3>1. msg \in Packet
      BY <1>1, <2>1 DEF RelayTypeOK
    <3> QED BY <3>1, RelayedPacket DEF Msg
  <2>6. txq' \in [Half -> Seq(Entry)] /\ told' \in Emergency /\ got' \in Seq(Tag \ {"none"})
    <3>1. CASE Send("remote", Relayed(msg), "limiter")
      BY <1>1, <1>a, <2>5, <3>1, SendTyped
    <3>2. CASE UNCHANGED <<txq, got, told>>
      BY <1>1, <3>2 DEF RelayTypeOK
    <3> QED BY <1>7, <3>1, <3>2 DEF Drain
  <2>7. RelayTypeOK'
    BY <1>1, <2>2, <2>3, <2>4, <2>6 DEF RelayTypeOK
  <2> QED BY <2>1, <2>2, <2>3, <2>7 DEF RelayBase, mgmt
<1>8. CASE DrainEnds
  <2>1. /\ UNCHANGED <<use, half, link, rxbuf, tagged, intact, queues, n_queued, next_tx_port>>
        /\ pc' = "sleep"
    BY <1>8 DEF DrainEnds
  <2>2. /\ txq' \in [Half -> Seq(Entry)] /\ told' \in Emergency /\ got' \in Seq(Tag \ {"none"})
        /\ emerg' \in Emergency
    <3>1. CASE UNCHANGED <<txq, emerg, got, told>>
      BY <1>1, <3>1 DEF RelayTypeOK
    <3>2. CASE emerg_flow_periodic
      <4>1. PICK new \in Emergency :
              emerg' = new /\ (Send("local", Plain(new), "none") \/ UNCHANGED <<txq, got, told>>)
        BY <3>2 DEF emerg_flow_periodic, Emergency
      <4>2. Plain(new) \in Msg
        BY DEF Plain, Msg, Tag
      <4>3. CASE Send("local", Plain(new), "none")
        BY <1>1, <1>a, <4>1, <4>2, <4>3, SendTyped
      <4>4. CASE UNCHANGED <<txq, got, told>>
        BY <1>1, <4>1, <4>4 DEF RelayTypeOK
      <4> QED BY <4>1, <4>3, <4>4
    <3> QED BY <1>8, <3>1, <3>2 DEF DrainEnds
  <2>3. RelayTypeOK' /\ QueuesCounted'
    BY <1>1, <2>1, <2>2 DEF RelayTypeOK, QueuesCounted
  <2> QED BY <2>1, <2>3 DEF RelayBase, mgmt
<1>9. CASE relay_accept
  <2>1. /\ UNCHANGED <<use, half, emerg, got, tagged, told, intact, queues, n_queued, next_tx_port>>
        /\ pc' = "sleep" /\ link' = [h \in Half |-> TRUE]
        /\ rxbuf' = [h \in Half |-> <<>>] /\ txq' = [h \in Half |-> <<>>]
    BY <1>9 DEF relay_accept, loop, hist, limiter
  <2>2. <<>> \in Seq(Held) /\ <<>> \in Seq(Entry) /\ Len(<<>>) <= 1
    OBVIOUS
  <2>3. RelayTypeOK' /\ QueuesCounted'
    BY <1>1, <2>1, <2>2 DEF RelayTypeOK, QueuesCounted
  <2> QED BY <1>a, <2>1, <2>3 DEF RelayBase, mgmt
<1>10. ASSUME NEW h \in Half, Transmit(h) PROVE RelayBase'
  <2>1. /\ UNCHANGED <<use, pc, half, link, rxbuf, emerg, tagged, intact, queues, n_queued, next_tx_port>>
        /\ Deliver(h, Head(txq[h]).msg) /\ txq' = [txq EXCEPT ![h] = Tail(@)] /\ txq[h] # <<>>
    BY <1>10 DEF Transmit, loop, limiter
  <2>2. txq[h] \in Seq(Entry)
    BY <1>1 DEF RelayTypeOK
  <2>3. Head(txq[h]) \in Entry /\ Tail(txq[h]) \in Seq(Entry)
    BY <2>1, <2>2
  <2>4. told' \in Emergency /\ got' \in Seq(Tag \ {"none"})
    BY <1>1, <2>1, <2>3 DEF Deliver, RelayTypeOK, Entry, Msg
  <2>5. RelayTypeOK' /\ QueuesCounted'
    BY <1>1, <2>1, <2>3, <2>4 DEF RelayTypeOK, QueuesCounted
  <2> QED BY <2>1, <2>5 DEF RelayBase, mgmt
<1>11. ASSUME NEW h \in Half, Lose(h) \/ Reconnect(h) PROVE RelayBase'
  <2>1. /\ UNCHANGED <<use, pc, half, rxbuf, emerg, got, told, tagged, queues, n_queued, next_tx_port>>
        /\ txq' \in {txq, [txq EXCEPT ![h] = <<>>]} /\ intact' \in BOOLEAN
        /\ intact' => intact /\ (h = "remote" \/ link' = [link EXCEPT ![h] = TRUE])
        /\ \E b \in BOOLEAN : link' = [link EXCEPT ![h] = b]
    BY <1>1, <1>11 DEF Lose, Reconnect, loop, hist, limiter, RelayTypeOK
  <2>2. <<>> \in Seq(Entry)
    OBVIOUS
  <2>3. RelayTypeOK' /\ QueuesCounted'
    BY <1>1, <2>1, <2>2 DEF RelayTypeOK, QueuesCounted
  <2>4. intact' => link'["local"]
    BY <1>1, <1>a, <2>1 DEF RelayBase, RelayTypeOK
  <2> QED BY <2>1, <2>3, <2>4 DEF RelayBase, mgmt
<1> QED BY <1>2, <1>3, <1>4, <1>5, <1>6, <1>7, <1>8, <1>9, <1>10, <1>11 DEF Next, Relaying

(* The initial states have it.                                              *)
LEMMA RelayBaseInit == Init => RelayBase
<1> SUFFICES ASSUME Init PROVE RelayBase
  OBVIOUS
<1>1. /\ \A S : <<>> \in Seq(S)
      /\ Len(<<>>) = 0
  OBVIOUS
<1>2. 0 \in Ports
  BY LimiterAssumption DEF Ports
<1>3. RelayTypeOK
  BY <1>1, <1>2, RelayAssumption DEF Init, rate_limit_start, RelayTypeOK, Half, Emergency
<1>4. Places(queues) = {}
  BY <1>1 DEF Init, rate_limit_start, Places
<1> QED BY <1>3, <1>4, FS_EmptySet DEF Init, rate_limit_start, RelayBase, QueuesCounted, Half

-----------------------------------------------------------------------------
(* The newest emergency message of a queue that gets one more message, and  *)
(* of one that has sent its first.                                          *)
LEMMA NewsBounded ==
  ASSUME NEW q \in Seq(Entry), News(q) # {}
  PROVE  Max(News(q)) \in News(q) /\ \A k \in News(q) : k <= Max(News(q))
<1>1. News(q) \in SUBSET Nat /\ Len(q) \in Nat /\ \A k \in News(q) : k <= Len(q)
  BY DEF News
<1> QED BY <1>1, GreatestNatural

LEMMA NewestAppend ==
  ASSUME NEW q \in Seq(Entry), NEW e \in Entry, NEW t
  PROVE  Newest(Append(q, e), t) =
           IF e.msg.kind \in Emergency THEN e.msg.kind ELSE Newest(q, t)
<1> DEFINE r == Append(q, e)
           n == Len(q) + 1
<1>1. /\ r \in Seq(Entry) /\ DOMAIN r = 1 .. n /\ DOMAIN q = 1 .. n - 1 /\ n \in Nat \ {0}
      /\ r[n] = e /\ \A k \in 1 .. n - 1 : r[k] = q[k]
  OBVIOUS
<1> HIDE DEF r, n
<1>3. News(q) \subseteq 1 .. n - 1
  BY <1>1 DEF News
<1>2. News(r) = IF e.msg.kind \in Emergency THEN News(q) \cup {n} ELSE News(q)
  <2>1. \A k \in 1 .. n - 1 : k \in News(r) <=> k \in News(q)
    BY <1>1 DEF News
  <2>2. n \in News(r) <=> e.msg.kind \in Emergency
    BY <1>1 DEF News
  <2>3. News(r) \subseteq 1 .. n
    BY <1>1 DEF News
  <2>4. 1 .. n = (1 .. n - 1) \cup {n} /\ n \notin 1 .. n - 1
    BY <1>1
  <2>5. \A k : k \in 1 .. n <=> k \in 1 .. n - 1 \/ k = n
    BY <2>4
  <2>6. CASE e.msg.kind \in Emergency
    BY <1>3, <2>1, <2>2, <2>3, <2>5, <2>6, Zenon
  <2>7. CASE e.msg.kind \notin Emergency
    <3>1. \A k \in News(r) : k \in News(q)
      BY <2>1, <2>2, <2>3, <2>5, <2>7, Zenon
    <3>2. \A k \in News(q) : k \in News(r)
      BY <1>3, <2>1, Zenon
    <3>3. News(r) = News(q)
      BY <3>1, <3>2, Zenon
    <3> QED BY <2>7, <3>3
  <2> QED BY <2>6, <2>7
<1>4. CASE e.msg.kind \in Emergency
  <2>1. Max(News(r)) \in News(r) /\ n <= Max(News(r))
    BY <1>1, <1>2, <1>4, NewsBounded
  <2>2. Max(News(r)) = n
    BY <1>1, <1>2, <1>3, <1>4, <2>1
  <2>3. Newest(r, t) = e.msg.kind
    BY <1>1, <1>2, <1>4, <2>2 DEF Newest
  <2> QED BY <1>4, <2>3 DEF r
<1>5. CASE e.msg.kind \notin Emergency
  <2>1. News(r) = News(q)
    BY <1>2, <1>5
  <2>2. News(q) # {} => r[Max(News(q))] = q[Max(News(q))]
    BY <1>1, <1>3, NewsBounded
  <2>3. Newest(r, t) = Newest(q, t)
    BY <2>1, <2>2 DEF Newest
  <2> QED BY <1>5, <2>3 DEF r
<1> QED BY <1>4, <1>5

LEMMA NewestTail ==
  ASSUME NEW q \in Seq(Entry), q # <<>>, NEW t
  PROVE  Newest(q, t) =
           Newest(Tail(q), IF Head(q).msg.kind \in Emergency THEN Head(q).msg.kind ELSE t)
<1> DEFINE r == Tail(q)
<1>1. /\ r \in Seq(Entry) /\ Len(q) \in Nat /\ Len(q) > 0 /\ DOMAIN q = 1 .. Len(q)
      /\ DOMAIN r = 1 .. Len(q) - 1 /\ Head(q) = q[1]
      /\ \A k \in 1 .. Len(q) - 1 : r[k] = q[k + 1]
  OBVIOUS
<1> HIDE DEF r
<1>2. /\ \A k \in News(r) : k \in Nat /\ k + 1 \in News(q)
      /\ \A k \in News(q) : k \in Nat /\ k >= 1
      /\ \A k \in News(q) : k # 1 => k - 1 \in News(r)
      /\ 1 \in News(q) <=> q[1].msg.kind \in Emergency
  <2>1. \A k \in News(r) : k \in Nat /\ k + 1 \in News(q)
    BY <1>1 DEF News
  <2>2. \A k \in News(q) : k \in Nat /\ k >= 1
    BY <1>1 DEF News
  <2>3. \A k \in News(q) : k # 1 => k - 1 \in News(r)
    <3> SUFFICES ASSUME NEW k \in News(q), k # 1 PROVE k - 1 \in News(r)
      OBVIOUS
    <3>1. k - 1 \in 1 .. Len(q) - 1 /\ (k - 1) + 1 = k
      BY <1>1 DEF News
    <3> QED BY <1>1, <3>1 DEF News
  <2>4. 1 \in News(q) <=> q[1].msg.kind \in Emergency
    BY <1>1 DEF News
  <2> QED BY <2>1, <2>2, <2>3, <2>4
<1>3. CASE News(r) = {}
  <2>1. CASE 1 \in News(q)
    <3>1. News(q) = {1}
      BY <1>2, <1>3, <2>1
    <3>2. Max(News(q)) = 1
      BY <2>1, <3>1, NewsBounded
    <3> QED BY <1>1, <1>2, <1>3, <2>1, <3>1, <3>2 DEF Newest, r
  <2>2. CASE 1 \notin News(q)
    <3>1. News(q) = {}
      BY <1>2, <1>3, <2>2
    <3> QED BY <1>1, <1>2, <1>3, <2>2, <3>1 DEF Newest, r
  <2> QED BY <2>1, <2>2
<1>4. CASE News(r) # {}
  <2> DEFINE m == Max(News(r))
             M == Max(News(q))
  <2>1. m \in News(r) /\ \A k \in News(r) : k <= m
    BY <1>1, <1>4, NewsBounded
  <2>2. News(q) # {}
    BY <1>2, <1>4
  <2>3. M \in News(q) /\ \A k \in News(q) : k <= M
    BY <2>2, NewsBounded
  <2> HIDE DEF m, M
  <2>4. m + 1 <= M
    BY <1>2, <2>1, <2>3
  <2>5. M - 1 \in News(r)
    BY <1>2, <2>1, <2>3, <2>4
  <2>6. M = m + 1
    BY <1>2, <2>1, <2>3, <2>4, <2>5
  <2>7. q[M] = r[m]
    BY <1>1, <2>1, <2>6 DEF News
  <2> QED BY <1>4, <2>2, <2>7 DEF Newest, m, M, r
<1> QED BY <1>3, <1>4

(* rconn_send: the newest message is the one sent, if that is one.          *)
LEMMA SendTold ==
  ASSUME RelayTypeOK, NEW h \in Half, NEW m \in Msg, NEW by \in Half \cup {"none", "limiter"},
         Send(h, m, by)
  PROVE  Newest(txq'["local"], told') =
           IF h = "local" /\ m.kind \in Emergency THEN m.kind ELSE Newest(txq["local"], told)
<1> DEFINE e == [msg |-> m, by |-> by]
<1>1. e \in Entry /\ txq["local"] \in Seq(Entry) /\ "local" \in Half
  BY DEF Entry, RelayTypeOK, Half
<1>2. CASE txq[h] = <<>> /\ Deliver(h, m) /\ UNCHANGED txq
  <2>1. h = "local" => News(txq["local"]) = {}
    BY <1>2 DEF News
  <2> QED BY <1>2, <2>1 DEF Deliver, Newest
<1>3. CASE txq' = [txq EXCEPT ![h] = Append(@, e)] /\ UNCHANGED <<got, told>>
  <2>1. CASE h = "local"
    <3>1. txq'["local"] = Append(txq["local"], e) /\ told' = told /\ e.msg = m
      BY <1>1, <1>3, <2>1 DEF RelayTypeOK
    <3>2. Newest(Append(txq["local"], e), told) =
            IF e.msg.kind \in Emergency THEN e.msg.kind ELSE Newest(txq["local"], told)
      BY <1>1, NewestAppend
    <3> QED BY <2>1, <3>1, <3>2
  <2>2. CASE h # "local"
    <3>1. txq'["local"] = txq["local"] /\ told' = told
      BY <1>1, <1>3, <2>2 DEF RelayTypeOK
    <3> QED BY <2>2, <3>1
  <2> QED BY <2>1, <2>2
<1> QED BY <1>2, <1>3 DEF Send

(* Every step keeps the datapath up to date.                                *)
LEMMA ToldStep ==
  ASSUME RelayBase, DatapathTold, [Next]_vars
  PROVE  DatapathTold'
<1> USE Peers
<1>1. RelayTypeOK
  BY DEF RelayBase
<1>a. "local" \in Half /\ "remote" \in Half
  BY DEF Half
<1>b. ASSUME UNCHANGED <<use, intact, emerg>>,
             Newest(txq'["local"], told') = Newest(txq["local"], told)
      PROVE  DatapathTold'
  BY <1>b DEF DatapathTold, mgmt
<1>2. CASE UNCHANGED vars \/ WakesUp \/ Tick \/ Hooks \/ HookTakesLocal
  <2>1. UNCHANGED <<use, intact, emerg, txq, told>>
    BY <1>2 DEF vars, WakesUp, Tick, Hooks, HookTakesLocal, AtHalf, hist
  <2> QED BY <1>b, <2>1
<1>3. ASSUME NEW buf \in Seq(Held), AtHalf, Forward(buf) PROVE DatapathTold'
  <2>1. UNCHANGED <<use, intact, emerg>>
    BY <1>3 DEF AtHalf
  <2>2. CASE UNCHANGED <<txq, got, told>>
    BY <1>b, <2>1, <2>2
  <2>3. CASE buf # <<>> /\ Send(Peer(half), Head(buf), half)
    <3>1. Head(buf) \in Held
      BY <1>3, <2>3
    <3>2. Head(buf) \in Msg /\ Head(buf).kind \notin Emergency
      BY <3>1 DEF Held, Msg, Emergency
    <3>3. Peer(half) \in Half /\ half \in Half
      BY <1>1 DEF RelayTypeOK, Half
    <3> QED BY <1>1, <1>b, <2>1, <2>3, <3>2, <3>3, SendTold
  <2> QED BY <1>3, <2>2, <2>3 DEF Forward
<1>4. CASE RelayHeld
  BY <1>1, <1>3, <1>4 DEF RelayHeld, RelayTypeOK
<1>5. CASE RelayPasses
  <2>1. PICK m \in Messages(half) : Received(m) /\ m.kind # "status" /\ Forward(<<Relayed(m)>>)
    BY <1>5 DEF RelayPasses
  <2>2. Relayed(m) \in Held
    BY <1>1, <2>1, ReceivedTyped
  <2>3. <<Relayed(m)>> \in Seq(Held)
    BY <2>2
  <2> QED BY <1>3, <1>5, <2>1, <2>3 DEF RelayPasses
<1>6. ASSUME NEW m \in Msg, NEW by \in {"none", "limiter"}, Send("remote", m, by),
             UNCHANGED <<use, intact, emerg>>
      PROVE  DatapathTold'
  <2>1. Newest(txq'["local"], told') = Newest(txq["local"], told)
    BY <1>1, <1>6, <1>a, SendTold
  <2> QED BY <1>6, <1>b, <2>1
<1>7. CASE HookTakesRemote
  <2>1. Plain("other") \in Msg
    BY DEF Plain, Msg, Tag
  <2> QED BY <1>6, <1>7, <2>1 DEF HookTakesRemote, AtHalf
<1>8. CASE Drain
  <2> DEFINE msg == Head(queues[NextPort])
  <2>1. NextPort \in Ports /\ queues[NextPort] # <<>>
    BY <1>8, NextPortQueued DEF Drain, Draining, RelayBase
  <2>2. msg \in Packet
    BY <1>1, <2>1 DEF RelayTypeOK
  <2>3. Relayed(msg) \in Msg
    BY <2>2, RelayedPacket DEF Msg
  <2>4. UNCHANGED <<use, intact, emerg>>
    BY <1>8 DEF Drain
  <2>5. Send("remote", Relayed(msg), "limiter") \/ UNCHANGED <<txq, got, told>>
    BY <1>8 DEF Drain
  <2> QED BY <1>6, <1>b, <2>3, <2>4, <2>5
<1>9. CASE DrainEnds
  <2>1. UNCHANGED <<use, intact>>
    BY <1>9 DEF DrainEnds
  <2>2. CASE UNCHANGED <<txq, emerg, got, told>>
    BY <1>b, <2>1, <2>2
  <2>3. CASE emerg_flow_periodic
    <3> SUFFICES ASSUME intact PROVE DatapathTold'
      BY <2>1 DEF DatapathTold
    <3>1. link["local"]
      BY DEF RelayBase
    <3>2. PICK new \in Emergency :
            /\ emerg' = new
            /\ IF emerg # new THEN Send("local", Plain(new), "none")
               ELSE UNCHANGED <<txq, got, told>>
      BY <2>3, <3>1 DEF emerg_flow_periodic, Emergency
    <3>3. CASE emerg = new
      BY <1>b, <2>1, <3>2, <3>3
    <3>4. CASE emerg # new
      <4>1. Plain(new) \in Msg /\ Plain(new).kind = new
        BY DEF Plain, Msg, Tag
      <4>2. Newest(txq'["local"], told') = new
        BY <1>1, <1>a, <3>2, <3>4, <4>1, SendTold
      <4> QED BY <3>2, <4>2 DEF DatapathTold
    <3> QED BY <3>3, <3>4
  <2> QED BY <1>9, <2>2, <2>3 DEF DrainEnds
<1>10. CASE relay_accept
  BY <1>10 DEF relay_accept, DatapathTold, RelayBase, mgmt
<1>11. ASSUME NEW h \in Half, Transmit(h) PROVE DatapathTold'
  <2>1. /\ UNCHANGED <<use, intact, emerg>> /\ txq[h] # <<>>
        /\ Deliver(h, Head(txq[h]).msg) /\ txq' = [txq EXCEPT ![h] = Tail(@)]
    BY <1>11 DEF Transmit
  <2>2. CASE h = "local"
    <3>1. txq["local"] \in Seq(Entry) /\ txq'["local"] = Tail(txq["local"])
      BY <1>1, <1>a, <2>1, <2>2 DEF RelayTypeOK
    <3>2. told' = IF Head(txq["local"]).msg.kind \in Emergency
                  THEN Head(txq["local"]).msg.kind ELSE told
      BY <2>1, <2>2 DEF Deliver
    <3>3. Newest(txq'["local"], told') = Newest(txq["local"], told)
      BY <2>1, <2>2, <3>1, <3>2, NewestTail
    <3> QED BY <1>b, <2>1, <3>3
  <2>3. CASE h # "local"
    <3>1. txq'["local"] = txq["local"] /\ told' = told
      BY <1>1, <1>a, <2>1, <2>3 DEF RelayTypeOK, Deliver
    <3> QED BY <1>b, <2>1, <3>1
  <2> QED BY <2>2, <2>3
<1>12. ASSUME NEW h \in Half, Lose(h) \/ Reconnect(h) PROVE DatapathTold'
  <2>1. UNCHANGED <<use, emerg, told>>
    BY <1>12 DEF Lose, Reconnect, hist
  <2>3. intact' => intact
    BY <1>12, Zenon DEF Lose, Reconnect, hist
  <2>2. intact' => txq'["local"] = txq["local"]
    BY <1>1, <1>12, <1>a DEF Lose, Reconnect, RelayTypeOK
  <2> QED BY <2>1, <2>2, <2>3 DEF DatapathTold, mgmt
<1> QED BY <1>2, <1>4, <1>5, <1>7, <1>8, <1>9, <1>10, <1>11, <1>12 DEF Next, Relaying

(* A datapath that stays connected is told the newest state of the          *)
(* emergency protection by emerg_flow_periodic, whatever the relay and      *)
(* other hooks put into its queue and however often the controller comes    *)
(* and goes in between.                                                     *)
THEOREM DatapathIsTold == Spec => []DatapathTold
<1>1. Init => DatapathTold
  BY DEF Init, DatapathTold, Newest, News, Half
<1>2. RelayBase /\ DatapathTold /\ [Next]_vars => RelayBase' /\ DatapathTold'
  BY RelayBaseStep, ToldStep
<1> QED BY <1>1, <1>2, RelayBaseInit, PTL DEF Spec

-----------------------------------------------------------------------------
(* The tags that are under way, as one line: what the controller has, what  *)
(* waits for its rconn, in the half of the datapath and in the queue of the *)
(* port.  PacketsInOrder speaks of the front of this line.  Packets move    *)
(* forward in it, leave it, or join it at the end, with two exceptions: one *)
(* that an action sends joins it before the queue of the port, and one that *)
(* leaves the queue goes past what the half holds.  n is the history of     *)
(* what was sent.                                                           *)
Overtakes(n) == n = <<"packet_in", "action_in">>
Fine(x, y, n) ==
  x # "none" /\ y # "none" =>
    \/ x = "first" /\ y = "second"
    \/ x = "second" /\ y = "first" /\ Overtakes(n)
InLine(w, n) ==
  /\ w \in Seq(Tag)
  /\ \A i, j \in 1 .. Len(w) : i < j => Fine(w[i], w[j], n)
  /\ \A i \in 1 .. Len(w) : (w[i] = "first" => Len(n) >= 1) /\ (w[i] = "second" => Len(n) = 2)

Last == NumPorts - 1
TxTags(q) == [k \in 1 .. Len(q) |-> q[k].msg.tag]
Tags(q)   == [k \in 1 .. Len(q) |-> q[k].tag]

LineOf(g, tx, rx, waiting) == g \o (tx \o (rx \o waiting))
Line == LineOf(got, TxTags(txq["remote"]), Tags(rxbuf["local"]), Tags(queues[Last]))

(* What waits in a queue was limited, and while the half holds the first    *)
(* packet it receives no second one.                                        *)
FirstWaits ==
  \A p \in Ports : \A k \in 1 .. Len(queues[p]) :
    queues[p][k].tag = "first" => tagged # <<>> /\ tagged[1] = "packet_in"
FirstHeld ==
  \A k \in 1 .. Len(rxbuf["local"]) : rxbuf["local"][k].tag = "first" => Len(tagged) = 1

OrderInv ==
  /\ InLine(Line, tagged)
  /\ \A p \in Ports \ {Last} : \A k \in 1 .. Len(queues[p]) : queues[p][k].tag = "none"

LEMMA ConcatClosed ==
  ASSUME NEW a \in Seq(Tag), NEW b \in Seq(Tag)
  PROVE  a \o b \in Seq(Tag)
OBVIOUS

(* Tags that leave the line, "none" that comes into it, the next tag that   *)
(* comes to its end, and a tag that is lost before.                         *)
LEMMA LineWithout ==
  ASSUME NEW a \in Seq(Tag), NEW s \in Seq(Tag), NEW d \in Seq(Tag), NEW n,
         InLine(a \o (s \o d), n)
  PROVE  InLine(a \o d, n)
<1> DEFINE w == a \o (s \o d)
           v == a \o d
           at(i) == IF i <= Len(a) THEN i ELSE i + Len(s)
<1>1. /\ w \in Seq(Tag) /\ v \in Seq(Tag) /\ Len(w) = Len(a) + Len(s) + Len(d)
      /\ Len(v) = Len(a) + Len(d) /\ Len(a) \in Nat /\ Len(s) \in Nat /\ Len(d) \in Nat
  OBVIOUS
<1>2. \A i \in 1 .. Len(v) : at(i) \in 1 .. Len(w) /\ v[i] = w[at(i)]
  OBVIOUS
<1>3. \A i, j \in 1 .. Len(v) : i < j => at(i) < at(j)
  BY <1>1
<1> HIDE DEF w, v, at
<1>4. InLine(v, n)
  BY <1>1, <1>2, <1>3 DEF InLine, w
<1> QED BY <1>4 DEF v

LEMMA LineWithNone ==
  ASSUME NEW a \in Seq(Tag), NEW d \in Seq(Tag), NEW n, InLine(a \o d, n)
  PROVE  InLine(a \o (<<"none">> \o d), n)
<1> DEFINE w == a \o d
           v == a \o (<<"none">> \o d)
           at(i) == IF i <= Len(a) THEN i ELSE i - 1
           k == Len(a) + 1
<1>1. /\ w \in Seq(Tag) /\ Len(w) = Len(a) + Len(d)
      /\ Len(v) = Len(a) + 1 + Len(d) /\ Len(a) \in Nat /\ Len(d) \in Nat
  OBVIOUS
<1>a. v \in Seq(Tag)
  <2>1. <<"none">> \in Seq(Tag)
    BY DEF Tag
  <2> QED BY <2>1
<1>2. v[k] = "none"
  OBVIOUS
<1>3. \A i \in 1 .. Len(v) : i # k => at(i) \in 1 .. Len(w) /\ v[i] = w[at(i)]
  OBVIOUS
<1>4. \A i, j \in 1 .. Len(v) : i < j /\ i # k /\ j # k => at(i) < at(j)
  BY <1>1
<1> HIDE DEF w, v, at, k
<1>5. InLine(v, n)
  <2>1. ASSUME NEW i \in 1 .. Len(v), NEW j \in 1 .. Len(v), i < j
        PROVE  Fine(v[i], v[j], n)
    <3>1. CASE i = k \/ j = k
      BY <1>2, <3>1 DEF Fine
    <3>2. CASE i # k /\ j # k
      BY <1>3, <1>4, <2>1, <3>2 DEF InLine, w
    <3> QED BY <3>1, <3>2
  <2>2. ASSUME NEW i \in 1 .. Len(v)
        PROVE  (v[i] = "first" => Len(n) >= 1) /\ (v[i] = "second" => Len(n) = 2)
    <3>1. CASE i = k
      BY <1>2, <3>1
    <3>2. CASE i # k
      BY <1>3, <3>2 DEF InLine, w
    <3> QED BY <3>1, <3>2
  <2> QED BY <1>a, <2>1, <2>2 DEF InLine
<1> QED BY <1>5 DEF v

(* The next tag joins the line, before d, with the reason k.                *)
NextTag(n) == IF n = <<>> THEN "first" ELSE "second"

LEMMA LineJoins ==
  ASSUME NEW a \in Seq(Tag), NEW d \in Seq(Tag), NEW n \in Seq(Reasons), Len(n) <= 1,
         NEW k \in Reasons, InLine(a \o d, n),
         \A i \in 1 .. Len(d) :
           d[i] = "first" => n # <<>> /\ n[1] = "packet_in" /\ k = "action_in"
  PROVE  InLine(a \o (<<NextTag(n)>> \o d), Append(n, k))
<1> DEFINE t == NextTag(n)
           w == a \o d
           v == a \o (<<t>> \o d)
           at(i) == IF i <= Len(a) THEN i ELSE i - 1
           c == Len(a) + 1
           N == Append(n, k)
<1>0. t \in Tag /\ t # "none"
  BY DEF NextTag, Tag
<1>n. /\ Len(n) \in Nat /\ Len(N) = Len(n) + 1 /\ (n = <<>> <=> Len(n) = 0)
      /\ n # <<>> => Len(n) = 1
  <2>1. Len(n) \in Nat /\ Len(N) = Len(n) + 1 /\ (n = <<>> <=> Len(n) = 0)
    OBVIOUS
  <2> QED BY <2>1, SmallNumbers
<1>o. n # <<>> /\ n[1] = "packet_in" /\ k = "action_in" => Overtakes(N)
  <2> SUFFICES ASSUME n # <<>>, n[1] = "packet_in", k = "action_in" PROVE Overtakes(N)
    OBVIOUS
  <2>1. Len(N) = 2 /\ N[1] = "packet_in" /\ N[2] = "action_in" /\ N \in Seq(Reasons)
    BY <1>n
  <2> HIDE DEF N
  <2>2. N = <<N[1], N[2]>>
    BY <2>1
  <2>3. N = <<"packet_in", "action_in">>
    BY <2>1, <2>2, Zenon
  <2> QED BY <2>3 DEF Overtakes
<1>b. t = (IF n = <<>> THEN "first" ELSE "second")
  BY DEF NextTag
<1> HIDE DEF t
<1>1. /\ w \in Seq(Tag) /\ Len(w) = Len(a) + Len(d)
      /\ Len(v) = Len(a) + 1 + Len(d) /\ Len(a) \in Nat /\ Len(d) \in Nat
  OBVIOUS
<1>a. v \in Seq(Tag)
  <2>1. <<t>> \in Seq(Tag)
    BY <1>0
  <2> QED BY <2>1
<1>2. v[c] = t
  OBVIOUS
<1>3. \A i \in 1 .. Len(v) : i # c => at(i) \in 1 .. Len(w) /\ v[i] = w[at(i)]
  OBVIOUS
<1>4. \A i, j \in 1 .. Len(v) : i < j /\ i # c /\ j # c => at(i) < at(j)
  BY <1>1
<1>d. \A j \in 1 .. Len(v) : j > c => j - c \in 1 .. Len(d) /\ v[j] = d[j - c]
  OBVIOUS
<1>5. c \in Nat /\ \A i \in 1 .. Len(v) : i \in Nat
  BY <1>1
<1> HIDE DEF w, v, at, c, N
<1>6. \A i \in 1 .. Len(w) : w[i] \in Tag /\ w[i] # "second" /\ (w[i] = "first" => n # <<>>)
  <2> SUFFICES ASSUME NEW i \in 1 .. Len(w)
               PROVE  w[i] \in Tag /\ w[i] # "second" /\ (w[i] = "first" => n # <<>>)
    OBVIOUS
  <2>1. (w[i] = "first" => Len(n) >= 1) /\ (w[i] = "second" => Len(n) = 2)
    BY DEF InLine, w
  <2>2. Len(n) # 2 /\ (n = <<>> => ~(Len(n) >= 1))
    <3>1. Len(n) # 2
      BY <1>n, SmallNumbers
    <3>2. ~(0 >= 1)
      OBVIOUS
    <3> QED BY <1>n, <3>1, <3>2
  <2> QED BY <1>1, <2>1, <2>2
<1>7. ASSUME NEW i \in 1 .. Len(v), NEW j \in 1 .. Len(v), i < j
      PROVE  Fine(v[i], v[j], N)
  <2>1. CASE i = c
    <3>1. j # c /\ v[j] = w[at(j)] /\ at(j) \in 1 .. Len(w)
      BY <1>3, <1>5, <1>7, <2>1
    <3>2. v[j] \in {"none", "first"} /\ (v[j] = "first" => n # <<>>)
      BY <1>6, <3>1 DEF Tag
    <3>3. v[j] = "first" => Overtakes(N)
      BY <1>5, <1>7, <1>d, <1>o, <2>1
    <3>4. v[i] = t /\ (v[j] = "first" => t = "second")
      BY <1>2, <1>b, <2>1, <3>2
    <3> QED BY <3>2, <3>3, <3>4 DEF Fine
  <2>2. CASE j = c
    <3>1. i # c /\ v[i] = w[at(i)] /\ at(i) \in 1 .. Len(w)
      BY <1>3, <1>5, <1>7, <2>2
    <3>2. v[i] \in {"none", "first"} /\ (v[i] = "first" => n # <<>>)
      BY <1>6, <3>1 DEF Tag
    <3> QED BY <1>2, <1>b, <2>2, <3>2 DEF Fine
  <2>3. CASE i # c /\ j # c
    <3>1. /\ v[i] = w[at(i)] /\ at(i) \in 1 .. Len(w)
          /\ v[j] = w[at(j)] /\ at(j) \in 1 .. Len(w) /\ at(i) < at(j)
      BY <1>3, <1>4, <1>7, <2>3
    <3>2. Fine(w[at(i)], w[at(j)], n)
      BY <3>1 DEF InLine, w
    <3>3. w[at(i)] # "second" /\ w[at(j)] # "second"
      BY <1>6, <3>1
    <3> QED BY <3>1, <3>2, <3>3 DEF Fine
  <2> QED BY <2>1, <2>2, <2>3
<1>8. ASSUME NEW i \in 1 .. Len(v)
      PROVE  (v[i] = "first" => Len(N) >= 1) /\ (v[i] = "second" => Len(N) = 2)
  <2>1. CASE i = c
    BY <1>2, <1>b, <1>n, <2>1
  <2>2. CASE i # c
    BY <1>3, <1>6, <1>n, <2>2
  <2> QED BY <2>1, <2>2
<1>9. InLine(v, N)
  BY <1>7, <1>8, <1>a DEF InLine
<1> QED BY <1>9 DEF v, t, N

(* The next tag is lost.                                                    *)
LEMMA LineLater ==
  ASSUME NEW w, NEW n \in Seq(Reasons), Len(n) <= 1, NEW k \in Reasons, InLine(w, n)
  PROVE  InLine(w, Append(n, k))
<1> DEFINE N == Append(n, k)
<1>1. Len(n) \in Nat /\ Len(N) = Len(n) + 1 /\ Len(n) # 2
  <2>1. Len(n) \in Nat /\ Len(N) = Len(n) + 1
    OBVIOUS
  <2> QED BY <2>1, SmallNumbers
<1> HIDE DEF N
<1>2. w \in Seq(Tag) /\ \A i \in 1 .. Len(w) : w[i] # "second" /\ (w[i] = "first" => Len(n) >= 1)
  BY <1>1 DEF InLine
<1>3. \A i, j \in 1 .. Len(w) : i < j => Fine(w[i], w[j], N)
  BY <1>2 DEF InLine, Fine
<1>4. InLine(w, N)
  BY <1>1, <1>2, <1>3 DEF InLine
<1> QED BY <1>4 DEF N

(* A packet goes past one that it may overtake.                             *)
LEMMA LineSwap ==
  ASSUME NEW a \in Seq(Tag), NEW d \in Seq(Tag), NEW x \in Tag, NEW y \in Tag, NEW n,
         InLine(a \o (<<x>> \o (<<y>> \o d)), n), ~(x = "first" /\ y = "second")
  PROVE  InLine(a \o (<<y>> \o (<<x>> \o d)), n)
<1> DEFINE w == a \o (<<x>> \o (<<y>> \o d))
           v == a \o (<<y>> \o (<<x>> \o d))
           c == Len(a) + 1
           at(i) == IF i = c THEN c + 1 ELSE IF i = c + 1 THEN c ELSE i
<1>1. /\ Len(w) = Len(a) + 2 + Len(d) /\ Len(v) = Len(a) + 2 + Len(d)
      /\ Len(a) \in Nat /\ Len(d) \in Nat
  OBVIOUS
<1>a. v \in Seq(Tag)
  <2>1. <<x>> \in Seq(Tag) /\ <<y>> \in Seq(Tag)
    OBVIOUS
  <2>2. <<x>> \o d \in Seq(Tag)
    BY <2>1
  <2>3. <<y>> \o (<<x>> \o d) \in Seq(Tag)
    BY <2>1, <2>2, ConcatClosed
  <2> QED BY <2>3, ConcatClosed
<1>2. v[c] = y /\ v[c + 1] = x /\ w[c] = x /\ w[c + 1] = y
  OBVIOUS
<1>3. \A i \in 1 .. Len(v) : i # c /\ i # c + 1 => v[i] = w[i]
  OBVIOUS
<1> HIDE DEF w, v
<1>4. \A i \in 1 .. Len(v) : at(i) \in 1 .. Len(w) /\ v[i] = w[at(i)]
  BY <1>1, <1>2, <1>3
<1>5. \A i, j \in 1 .. Len(v) : i < j /\ ~(i = c /\ j = c + 1) => at(i) < at(j)
  BY <1>1
<1>6. Fine(x, y, n)
  <2>1. c \in 1 .. Len(w) /\ c + 1 \in 1 .. Len(w) /\ c < c + 1
    BY <1>1
  <2> QED BY <1>2, <2>1 DEF InLine, w
<1> HIDE DEF at
<1>7. ASSUME NEW i \in 1 .. Len(v), NEW j \in 1 .. Len(v), i < j
      PROVE  Fine(v[i], v[j], n)
  <2>1. CASE i = c /\ j = c + 1
    BY <1>2, <1>6, <2>1 DEF Fine
  <2>2. CASE ~(i = c /\ j = c + 1)
    BY <1>4, <1>5, <1>7, <2>2 DEF InLine, w
  <2> QED BY <2>1, <2>2
<1>8. \A i \in 1 .. Len(v) : (v[i] = "first" => Len(n) >= 1) /\ (v[i] = "second" => Len(n) = 2)
  BY <1>4 DEF InLine, w
<1>9. InLine(v, n)
  BY <1>7, <1>8, <1>a DEF InLine
<1> QED BY <1>9 DEF v

(* Concatenation.                                                           *)
LEMMA ConcatParts ==
  ASSUME NEW a \in Seq(Tag), NEW b \in Seq(Tag), NEW c \in Seq(Tag)
  PROVE  /\ a \o b \in Seq(Tag) /\ a \o <<>> = a /\ <<>> \o a = a
         /\ (a \o b) \o c = a \o (b \o c)
OBVIOUS

LEMMA ConcatOne ==
  ASSUME NEW a \in Seq(Tag), NEW t \in Tag
  PROVE  Append(a, t) = a \o <<t>>
OBVIOUS

LEMMA ConcatAssoc ==
  \A a, b, c \in Seq(Tag) : (a \o b) \o c = a \o (b \o c)
BY ConcatParts

(* The tags of a queue and of a queue of the limiter.                       *)
LEMMA TxTagsParts ==
  ASSUME NEW q \in Seq(Entry), NEW e \in Entry
  PROVE  /\ TxTags(q) \in Seq(Tag) /\ e.msg.tag \in Tag /\ (q = <<>> => TxTags(q) = <<>>)
         /\ TxTags(Append(q, e)) = TxTags(q) \o <<e.msg.tag>>
         /\ q # <<>> => TxTags(q) = <<Head(q).msg.tag>> \o TxTags(Tail(q))
<1>a. \A x \in Entry : x.msg.tag \in Tag
  BY DEF Entry, Msg
<1>1. TxTags(q) \in Seq(Tag) /\ e.msg.tag \in Tag
  BY <1>a DEF TxTags
<1>2. q = <<>> => TxTags(q) = <<>>
  BY DEF TxTags
<1>3. TxTags(Append(q, e)) = TxTags(q) \o <<e.msg.tag>>
  BY DEF TxTags
<1>4. q # <<>> => TxTags(q) = <<Head(q).msg.tag>> \o TxTags(Tail(q))
  BY DEF TxTags
<1> QED BY <1>1, <1>2, <1>3, <1>4

LEMMA TagsParts ==
  ASSUME NEW S \in {Held, Packet}, NEW q \in Seq(S), NEW m \in S
  PROVE  /\ Tags(q) \in Seq(Tag) /\ m.tag \in Tag /\ (q = <<>> => Tags(q) = <<>>)
         /\ Tags(Append(q, m)) = Tags(q) \o <<m.tag>>
         /\ q # <<>> => Tags(q) = <<Head(q).tag>> \o Tags(Tail(q)) /\ Head(q).tag \in Tag
<1>a. (\A x \in Held : x.tag \in Tag) /\ (\A x \in Packet : x.tag \in Tag)
  BY DEF Held, Packet
<1>1. \A x \in S : x.tag \in Tag
  BY <1>a
<1>2. Tags(q) \in Seq(Tag) /\ m.tag \in Tag
  BY <1>1 DEF Tags
<1>3. q = <<>> => Tags(q) = <<>>
  BY DEF Tags
<1>4. Tags(Append(q, m)) = Tags(q) \o <<m.tag>>
  BY DEF Tags
<1>5. q # <<>> => Tags(q) = <<Head(q).tag>> \o Tags(Tail(q)) /\ Head(q).tag \in Tag
  BY <1>1 DEF Tags
<1> QED BY <1>2, <1>3, <1>4, <1>5

(* What the controller has.                                                 *)
LEMMA GotTags ==
  ASSUME RelayTypeOK
  PROVE  got \in Seq(Tag)
<1>1. got \in Seq(Tag \ {"none"})
  BY DEF RelayTypeOK
<1>2. \A k \in 1 .. Len(got) : got[k] \in Tag
  BY <1>1
<1> QED BY <1>1, <1>2

(* rconn_send: m takes its place behind what waits for the rconn, or is     *)
(* with the controller.                                                     *)
LEMMA SendLine ==
  ASSUME RelayTypeOK, NEW m \in Msg, NEW by \in Half \cup {"none", "limiter"},
         Send("remote", m, by), NEW d \in Seq(Tag), NEW n,
         InLine(got \o (TxTags(txq["remote"]) \o (<<m.tag>> \o d)), n)
  PROVE  InLine(got' \o (TxTags(txq'["remote"]) \o d), n)
<1> DEFINE e  == [msg |-> m, by |-> by]
           tx == TxTags(txq["remote"])
<1>1. e \in Entry /\ txq["remote"] \in Seq(Entry) /\ "remote" \in Half /\ e.msg.tag = m.tag
  BY DEF Entry, RelayTypeOK, Half
<1>2. tx \in Seq(Tag) /\ m.tag \in Tag /\ got \in Seq(Tag)
  BY <1>1, TxTagsParts, GotTags
<1>a. <<m.tag>> \in Seq(Tag)
  BY <1>2
<1>3. CASE txq["remote"] = <<>> /\ Deliver("remote", m) /\ UNCHANGED txq
  <2>1. tx = <<>> /\ txq' = txq
    BY <1>1, <1>3, TxTagsParts
  <2> HIDE DEF tx
  <2>2. tx \o (<<m.tag>> \o d) = <<m.tag>> \o d /\ tx \o d = d
    BY <1>2, <1>a, <2>1, ConcatParts
  <2>3. CASE m.tag = "none"
    <3>1. got' = got
      BY <1>3, <2>3 DEF Deliver
    <3>2. InLine(got \o d, n)
      BY <1>2, <1>a, <2>2, LineWithout DEF tx
    <3> QED BY <2>1, <2>2, <3>1, <3>2 DEF tx
  <2>4. CASE m.tag # "none"
    <3>a. got' = Append(got, m.tag)
      BY <1>3, <2>4 DEF Deliver
    <3>1. got' = got \o <<m.tag>>
      BY <1>2, <3>a
    <3>2. got' \o d = got \o (<<m.tag>> \o d)
      BY <1>2, <1>a, <3>1, ConcatParts
    <3> QED BY <2>1, <2>2, <3>2 DEF tx
  <2> QED BY <2>3, <2>4
<1>4. CASE txq' = [txq EXCEPT !["remote"] = Append(@, e)] /\ UNCHANGED <<got, told>>
  <2>1. txq'["remote"] = Append(txq["remote"], e)
    BY <1>1, <1>4 DEF RelayTypeOK
  <2>2. TxTags(txq'["remote"]) = tx \o <<m.tag>>
    BY <1>1, <2>1, TxTagsParts
  <2> HIDE DEF tx
  <2>3. (tx \o <<m.tag>>) \o d = tx \o (<<m.tag>> \o d)
    BY <1>2, <1>a, ConcatParts
  <2> QED BY <1>4, <2>2, <2>3 DEF tx
<1> QED BY <1>3, <1>4 DEF Send

(* What is sent to the datapath is not in the line.                         *)
LEMMA SendLocalLine ==
  ASSUME RelayTypeOK, NEW m, NEW by, Send("local", m, by)
  PROVE  got' = got /\ txq'["remote"] = txq["remote"]
BY DEF Send, Deliver, RelayTypeOK, Half

(* The tag of what a half has received is "none" or the next one.           *)
LEMMA ReceivedNext ==
  ASSUME RelayTypeOK, NEW m, Received(m)
  PROVE  \/ m.tag = "none" /\ tagged' = tagged
         \/ /\ Len(tagged) <= 1 /\ m.kind \in Reasons /\ tagged' = Append(tagged, m.kind)
            /\ half = "local" /\ m.tag = NextTag(tagged) /\ m.port = Last
<1>1. m \in Messages(half) /\ tagged' = IF m.tag = "none" THEN tagged ELSE Append(tagged, m.kind)
  BY DEF Received
<1>2. CASE m.tag = "none"
  BY <1>1, <1>2
<1>3. CASE m.tag # "none"
  <2>1. PICK k \in Reasons :
          /\ half = "local" /\ Len(tagged) # 2
          /\ m = PacketIn(k, NumPorts - 1, IF tagged = <<>> THEN "first" ELSE "second")
    BY <1>1, <1>3 DEF Messages, Plain, PacketIn
  <2>2. Len(tagged) <= 1
    <3>1. Len(tagged) \in Nat /\ Len(tagged) <= 2
      BY DEF RelayTypeOK
    <3> QED BY <2>1, <3>1, SmallNumbers
  <2> QED BY <1>1, <1>3, <2>1, <2>2 DEF PacketIn, Last, NextTag
<1> QED BY <1>2, <1>3

(* It joins the line before d, or is lost.                                  *)
LEMMA ReceivedLine ==
  ASSUME RelayTypeOK, NEW m, Received(m), NEW a \in Seq(Tag), NEW d \in Seq(Tag),
         InLine(a \o d, tagged),
         \A i \in 1 .. Len(d) : d[i] = "first" =>
           tagged # <<>> /\ tagged[1] = "packet_in" /\ m.kind = "action_in"
  PROVE  InLine(a \o (<<m.tag>> \o d), tagged')
<1>1. tagged \in Seq(Reasons)
  BY DEF RelayTypeOK
<1>2. CASE m.tag = "none" /\ tagged' = tagged
  BY <1>2, LineWithNone
<1>3. CASE /\ Len(tagged) <= 1 /\ m.kind \in Reasons /\ tagged' = Append(tagged, m.kind)
           /\ m.tag = NextTag(tagged)
  BY <1>1, <1>3, LineJoins
<1> QED BY <1>2, <1>3, ReceivedNext

LEMMA LostLine ==
  ASSUME RelayTypeOK, NEW m, Received(m), NEW w, InLine(w, tagged)
  PROVE  InLine(w, tagged')
<1>1. tagged \in Seq(Reasons)
  BY DEF RelayTypeOK
<1> QED BY <1>1, ReceivedNext, LineLater

(* What was sent first stays what it was.                                   *)
LEMMA FirstReason ==
  ASSUME RelayTypeOK, NEW m, Received(m), tagged # <<>>
  PROVE  tagged' # <<>> /\ tagged'[1] = tagged[1]
<1>1. tagged \in Seq(Reasons)
  BY DEF RelayTypeOK
<1>2. CASE tagged' = tagged
  BY <1>2
<1>3. CASE m.kind \in Reasons /\ tagged' = Append(tagged, m.kind)
  BY <1>1, <1>3
<1> QED BY <1>2, <1>3, ReceivedNext

(* The parts of the line.                                                   *)
LEMMA LineParts ==
  ASSUME RelayTypeOK
  PROVE  /\ got \in Seq(Tag) /\ TxTags(txq["remote"]) \in Seq(Tag)
         /\ Tags(rxbuf["local"]) \in Seq(Tag) /\ Tags(queues[Last]) \in Seq(Tag)
         /\ Last \in Ports /\ queues[Last] \in Seq(Packet) /\ <<>> \in Seq(Tag)
         /\ \A a, b, c, d \in Seq(Tag) :
              LineOf(a, b, c, d) = (a \o b) \o (c \o d) /\ a \o b \in Seq(Tag)
<1>1. Last \in Ports
  BY LimiterAssumption DEF Last, Ports
<1>2. /\ txq["remote"] \in Seq(Entry) /\ rxbuf["local"] \in Seq(Held)
      /\ queues[Last] \in Seq(Packet)
  BY <1>1 DEF RelayTypeOK, Half
<1>3. TxTags(txq["remote"]) \in Seq(Tag)
  <2>1. [msg |-> Plain("other"), by |-> "none"] \in Entry
    BY DEF Plain, Entry, Msg, Tag
  <2> QED BY <1>2, <2>1, TxTagsParts
<1>4. Tags(rxbuf["local"]) \in Seq(Tag)
  <2>1. Plain("other") \in Held
    BY DEF Plain, Held, Tag
  <2> QED BY <1>2, <2>1, TagsParts
<1>5. Tags(queues[Last]) \in Seq(Tag)
  <2>1. PacketIn("packet_in", Last, "none") \in Packet
    BY <1>1 DEF PacketIn, Packet, Tag
  <2> QED BY <1>2, <2>1, TagsParts
<1>6. \A a, b, c, d \in Seq(Tag) :
        LineOf(a, b, c, d) = (a \o b) \o (c \o d) /\ a \o b \in Seq(Tag)
  BY ConcatParts DEF LineOf
<1>7. <<>> \in Seq(Tag)
  OBVIOUS
<1> QED BY <1>1, <1>2, <1>3, <1>4, <1>5, <1>6, <1>7, GotTags

(* A half forwards, drops or keeps what it holds: it stays behind what      *)
(* waits for the rconn.                                                     *)
LEMMA ForwardLine ==
  ASSUME RelayTypeOK, NEW buf \in Seq(Held), Len(buf) <= 1, Forward(buf), NEW n,
         NEW wait \in Seq(Tag),
         InLine(LineOf(got, TxTags(txq["remote"]),
                       Tags(IF half = "local" THEN buf ELSE rxbuf["local"]), wait), n)
  PROVE  InLine(LineOf(got', TxTags(txq'["remote"]), Tags(rxbuf'["local"]), wait), n)
<1> DEFINE tx == TxTags(txq["remote"])
<1>1. /\ half \in Half /\ "local" \in Half /\ "remote" \in Half
      /\ rxbuf \in [Half -> Seq(Held)] /\ got \in Seq(Tag) /\ tx \in Seq(Tag)
      /\ Tags(<<>>) = <<>>
  BY LineParts DEF RelayTypeOK, Half, Tags
<1>2. CASE half = "remote"
  <2>1. rxbuf'["local"] = rxbuf["local"]
    BY <1>1, <1>2 DEF Forward
  <2>2. got' = got /\ txq'["remote"] = txq["remote"]
    BY <1>2, Peers, SendLocalLine DEF Forward
  <2> QED BY <1>2, <2>1, <2>2
<1>3. CASE half = "local" /\ rxbuf' = [rxbuf EXCEPT ![half] = buf] /\ UNCHANGED <<txq, got, told>>
  <2>1. rxbuf'["local"] = buf
    BY <1>1, <1>3
  <2> QED BY <1>3, <2>1
<1>4. CASE half = "local" /\ buf # <<>> /\ rxbuf' = [rxbuf EXCEPT ![half] = <<>>]
  <2>1. Tags(rxbuf'["local"]) = <<>>
    BY <1>1, <1>4
  <2>2. Head(buf) \in Held /\ Tags(buf) = <<Head(buf).tag>>
    BY <1>4 DEF Tags
  <2>3. Head(buf) \in Msg /\ <<Head(buf).tag>> \in Seq(Tag)
    BY <2>2 DEF Held, Msg
  <2>4. InLine(got \o (tx \o (<<Head(buf).tag>> \o wait)), n)
    BY <1>4, <2>2 DEF LineOf
  <2>5. CASE Send("remote", Head(buf), half)
    <3>1. InLine(got' \o (TxTags(txq'["remote"]) \o wait), n)
      BY <1>1, <2>3, <2>4, <2>5, SendLine
    <3> QED BY <2>1, <3>1, ConcatParts DEF LineOf
  <2>6. CASE UNCHANGED <<txq, got, told>>
    <3> HIDE DEF tx
    <3>a. <<Head(buf).tag>> \o wait \in Seq(Tag)
      BY <2>3, ConcatParts
    <3>1. InLine((got \o tx) \o (<<Head(buf).tag>> \o wait), n) /\ got \o tx \in Seq(Tag)
      <4>1. (got \o tx) \o (<<Head(buf).tag>> \o wait) = got \o (tx \o (<<Head(buf).tag>> \o wait))
        BY <1>1, <3>a, ConcatAssoc, Zenon
      <4> QED BY <1>1, <2>4, <4>1, ConcatParts DEF tx
    <3>2. InLine((got \o tx) \o wait, n)
      BY <2>3, <3>1, LineWithout
    <3>3. InLine(LineOf(got, tx, <<>>, wait), n)
      <4>1. <<>> \o wait = wait /\ (got \o tx) \o wait = got \o (tx \o wait)
        BY <1>1, ConcatParts
      <4> QED BY <3>2, <4>1 DEF LineOf
    <3> QED BY <2>1, <2>6, <3>3 DEF tx
  <2> QED BY <1>4, <2>5, <2>6, Peers DEF Forward
<1> QED BY <1>1, <1>2, <1>3, <1>4 DEF Forward, Half

(* The limiter queues what a half has received, at the end of the line.     *)
LEMMA QueuedLine ==
  ASSUME RelayBase, OrderInv, NEW m \in Packet, Received(m), half = "local",
         QueuedByLimiter(m), UNCHANGED <<got, txq, rxbuf>>
  PROVE  OrderInv'
<1> DEFINE tx == TxTags(txq["remote"])
           a  == got \o tx
<1>1. RelayTypeOK /\ QueuesCounted /\ rxbuf["local"] = <<>>
  BY DEF RelayBase, Received
<1>2. /\ got \in Seq(Tag) /\ tx \in Seq(Tag) /\ Last \in Ports /\ a \in Seq(Tag)
      /\ queues \in [Ports -> Seq(Packet)] /\ <<>> \in Seq(Tag) /\ Tags(<<>>) = <<>>
  BY <1>1, LineParts DEF RelayTypeOK, Tags
<1>3. \A d \in Seq(Tag) : LineOf(got, tx, <<>>, d) = a \o d
  BY <1>2, ConcatParts DEF LineOf
<1> HIDE DEF a, tx
<1>4. PICK q \in [Ports -> Seq(Packet)] :
        /\ queues' = [q EXCEPT ![m.port] = Append(@, m)]
        /\ \/ q = queues
           \/ \E p \in Ports : queues[p] # <<>> /\ q = [queues EXCEPT ![p] = Tail(@)]
  BY <1>1, QueuedTyped
<1>5. /\ m.port \in Ports /\ m.tag \in Tag
      /\ \A r \in Seq(Packet) : Tags(r) \in Seq(Tag) /\ Tags(Append(r, m)) = Tags(r) \o <<m.tag>>
  BY TagsParts DEF Packet
<1>6. InLine(a \o Tags(queues[Last]), tagged)
  BY <1>1, <1>2, <1>3, <1>5 DEF OrderInv, Line, tx
<1>7. /\ InLine(a \o Tags(q[Last]), tagged)
      /\ \A p \in Ports \ {Last} : \A k \in 1 .. Len(q[p]) : q[p][k].tag = "none"
  <2>1. CASE q = queues
    BY <1>6, <2>1 DEF OrderInv
  <2>2. ASSUME NEW p \in Ports, queues[p] # <<>>, q = [queues EXCEPT ![p] = Tail(@)]
        PROVE  /\ InLine(a \o Tags(q[Last]), tagged)
               /\ \A o \in Ports \ {Last} : \A k \in 1 .. Len(q[o]) : q[o][k].tag = "none"
    <3>1. q[p] = Tail(queues[p]) /\ \A o \in Ports : o # p => q[o] = queues[o]
      BY <1>2, <2>2
    <3>2. /\ queues[p] \in Seq(Packet) /\ Len(Tail(queues[p])) = Len(queues[p]) - 1
          /\ \A k \in 1 .. Len(queues[p]) - 1 :
                Tail(queues[p])[k] = queues[p][k + 1] /\ k + 1 \in 1 .. Len(queues[p])
      BY <1>2, <2>2
    <3>3. \A o \in Ports \ {Last} : \A k \in 1 .. Len(q[o]) : q[o][k].tag = "none"
      <4> SUFFICES ASSUME NEW o \in Ports \ {Last}, NEW k \in 1 .. Len(q[o])
                   PROVE  q[o][k].tag = "none"
        OBVIOUS
      <4>1. CASE o = p
        <5>1. k \in 1 .. Len(queues[p]) - 1 /\ q[o][k] = Tail(queues[p])[k]
          BY <3>1, <3>2, <4>1
        <5>2. q[o][k] = queues[p][k + 1] /\ k + 1 \in 1 .. Len(queues[p])
          BY <3>2, <5>1
        <5> QED BY <4>1, <5>2 DEF OrderInv
      <4>2. CASE o # p
        BY <3>1, <4>2 DEF OrderInv
      <4> QED BY <4>1, <4>2
    <3>4. InLine(a \o Tags(q[Last]), tagged)
      <4>1. CASE p # Last
        BY <1>2, <1>6, <3>1, <4>1
      <4>2. CASE p = Last
        <5>a. queues[Last] \in Seq(Packet) /\ Tail(queues[Last]) \in Seq(Packet)
          BY <1>2, <2>2, <4>2
        <5>b. /\ Tags(queues[Last]) = <<Head(queues[Last]).tag>> \o Tags(Tail(queues[Last]))
              /\ Head(queues[Last]).tag \in Tag
          BY <2>2, <4>2, <5>a, TagsParts
        <5>1. /\ Tags(queues[Last]) = <<Head(queues[Last]).tag>> \o Tags(Tail(queues[Last]))
              /\ <<Head(queues[Last]).tag>> \in Seq(Tag) /\ Tags(Tail(queues[Last])) \in Seq(Tag)
          <6> DEFINE h == Head(queues[Last]).tag
          <6>1. h \in Tag
            BY <5>b
          <6> HIDE DEF h
          <6>2. <<h>> \in Seq(Tag)
            BY <6>1
          <6> QED BY <1>5, <5>a, <5>b, <6>2 DEF h
        <5> QED BY <1>2, <1>6, <3>1, <4>2, <5>1, LineWithout
      <4> QED BY <4>1, <4>2
    <3> QED BY <3>3, <3>4
  <2> QED BY <1>4, <2>1, <2>2
<1>8. /\ queues'[m.port] = Append(q[m.port], m)
      /\ \A o \in Ports : o # m.port => queues'[o] = q[o]
  BY <1>4, <1>5
<1>9. InLine(a \o Tags(queues'[Last]), tagged')
  <2>1. InLine((a \o Tags(q[Last])) \o <<m.tag>>, tagged') /\ InLine(a \o Tags(q[Last]), tagged')
    <3> DEFINE b == a \o Tags(q[Last])
    <3>1. b \in Seq(Tag) /\ <<m.tag>> \in Seq(Tag)
      BY <1>2, <1>5, ConcatClosed
    <3> HIDE DEF b
    <3>2. b \o <<>> = b /\ <<m.tag>> \o <<>> = <<m.tag>> /\ Len(<<>>) = 0
      BY <3>1, ConcatParts
    <3>a. InLine(b \o <<>>, tagged)
      BY <1>7, <3>2 DEF b
    <3>b. \A i \in 1 .. Len(<<>>) : FALSE
      BY <3>2
    <3>3. InLine(b \o (<<m.tag>> \o <<>>), tagged')
      <4> DEFINE d == <<>>
      <4>1. /\ d \in Seq(Tag) /\ InLine(b \o d, tagged)
            /\ \A i \in 1 .. Len(d) : d[i] = "first" =>
                 tagged # <<>> /\ tagged[1] = "packet_in" /\ m.kind = "action_in"
        BY <1>2, <3>a, <3>b
      <4> HIDE DEF d
      <4>2. InLine(b \o (<<m.tag>> \o d), tagged')
        BY <1>1, <3>1, <4>1, ReceivedLine
      <4> QED BY <4>2 DEF d
    <3> QED BY <1>1, <1>7, <3>2, <3>3, LostLine DEF b
  <2>2. CASE m.port = Last
    <3>1. Tags(queues'[Last]) = Tags(q[Last]) \o <<m.tag>>
      BY <1>2, <1>4, <1>5, <1>8, <2>2
    <3>2. <<m.tag>> \in Seq(Tag) /\ Tags(q[Last]) \in Seq(Tag)
      BY <1>2, <1>5
    <3>3. (a \o Tags(q[Last])) \o <<m.tag>> = a \o (Tags(q[Last]) \o <<m.tag>>)
      BY <1>2, <3>2, ConcatAssoc, Zenon
    <3> QED BY <2>1, <3>1, <3>3
  <2>3. CASE m.port # Last
    BY <1>2, <1>8, <2>1, <2>3
  <2> QED BY <2>2, <2>3
<1>10. \A p \in Ports \ {Last} : \A k \in 1 .. Len(queues'[p]) : queues'[p][k].tag = "none"
  <2>1. m.port # Last => m.tag = "none"
    BY <1>1, ReceivedNext
  <2> SUFFICES ASSUME NEW p \in Ports \ {Last}, NEW k \in 1 .. Len(queues'[p])
               PROVE  queues'[p][k].tag = "none"
    OBVIOUS
  <2>2. CASE p = m.port
    <3>1. /\ q[p] \in Seq(Packet) /\ Len(queues'[p]) = Len(q[p]) + 1
          /\ queues'[p][Len(q[p]) + 1] = m /\ \A i \in 1 .. Len(q[p]) : queues'[p][i] = q[p][i]
      BY <1>4, <1>8, <2>2
    <3>2. CASE k = Len(q[p]) + 1
      BY <2>1, <2>2, <3>1, <3>2
    <3>3. CASE k # Len(q[p]) + 1
      <4>1. k \in 1 .. Len(q[p])
        BY <3>1, <3>3
      <4> QED BY <1>7, <3>1, <4>1
    <3> QED BY <3>2, <3>3
  <2>3. CASE p # m.port
    BY <1>7, <1>8, <2>3
  <2> QED BY <2>2, <2>3
<1>11. Line' = a \o Tags(queues'[Last])
  <2>1. Tags(queues'[Last]) \in Seq(Tag)
    BY <1>1, <1>2, <1>5, QueuedTyped
  <2> QED BY <1>1, <1>2, <1>3, <2>1 DEF Line, tx
<1> QED BY <1>9, <1>10, <1>11 DEF OrderInv

(* rate_limit_periodic_cb: the head of a queue goes to the rconn, or is     *)
(* lost.                                                                    *)
LEMMA DrainLine ==
  ASSUME RelayBase, OrderInv, FirstHeld, Drain
  PROVE  OrderInv'
<1> DEFINE tx  == TxTags(txq["remote"])
           msg == Head(queues[NextPort])
           W   == Tags(queues'[Last])
           t   == msg.tag
           rx  == Tags(rxbuf["local"])
<1>1. RelayTypeOK /\ QueuesCounted /\ n_queued > 0 /\ n_queued \in Nat
  BY NoneQueued DEF RelayBase, Drain, Draining
<1>2. NextPort \in Ports /\ queues[NextPort] # <<>>
  BY <1>1, NextPortQueued
<1>3. /\ UNCHANGED <<rxbuf, tagged>> /\ queues' = [queues EXCEPT ![NextPort] = Tail(@)]
      /\ Send("remote", Relayed(msg), "limiter") \/ UNCHANGED <<txq, got, told>>
  BY DEF Drain, dequeue_packet
<1>4. /\ rxbuf["local"] \in Seq(Held) /\ Len(rxbuf["local"]) <= 1 /\ rx \in Seq(Tag)
      /\ Tags(rxbuf'["local"]) = rx
  BY <1>1, <1>3, LineParts DEF RelayTypeOK, Half
<1>5. /\ got \in Seq(Tag) /\ tx \in Seq(Tag) /\ Last \in Ports
      /\ queues \in [Ports -> Seq(Packet)]
  BY <1>1, LineParts DEF RelayTypeOK
<1>6. /\ queues[NextPort] \in Seq(Packet) /\ msg \in Packet /\ Tail(queues[NextPort]) \in Seq(Packet)
      /\ queues'[NextPort] = Tail(queues[NextPort])
      /\ \A o \in Ports : o # NextPort => queues'[o] = queues[o]
  BY <1>2, <1>3, <1>5
<1>7. queues'[Last] \in Seq(Packet) /\ W \in Seq(Tag) /\ Tags(queues[Last]) \in Seq(Tag)
  <2>1. queues'[Last] \in Seq(Packet)
    BY <1>5, <1>6
  <2> QED BY <1>1, <1>6, <2>1, LineParts, TagsParts
<1>8. t \in Tag /\ Relayed(msg) \in Msg /\ Relayed(msg).tag = t
  BY <1>6, RelayedPacket DEF Msg
<1> HIDE DEF tx, W, t, rx
<1>a. <<t>> \in Seq(Tag)
  BY <1>8
<1>b. InLine(got \o (tx \o (rx \o Tags(queues[Last]))), tagged)
  BY DEF OrderInv, Line, LineOf, tx, rx
<1>c. ASSUME NEW d \in Seq(Tag)
      PROVE  got \o tx \in Seq(Tag) /\ (got \o tx) \o d = got \o (tx \o d)
  BY <1>5, <1>c, ConcatParts
<1>d. /\ <<t>> \o W \in Seq(Tag) /\ rx \o W \in Seq(Tag) /\ <<t>> \o (rx \o W) \in Seq(Tag)
      /\ rx \o (<<t>> \o W) \in Seq(Tag)
  BY <1>4, <1>7, <1>a, ConcatClosed
<1>9. InLine(got \o (tx \o (<<t>> \o (rx \o W))), tagged)
  <2>1. CASE NextPort = Last
    <3>1. Tags(queues[Last]) = <<t>> \o W
      BY <1>2, <1>6, <2>1, TagsParts DEF t, W
    <3>2. InLine((got \o tx) \o (rx \o (<<t>> \o W)), tagged)
      BY <1>b, <1>c, <1>d, <3>1
    <3>3. CASE rxbuf["local"] = <<>>
      <4>1. rx = <<>>
        BY <3>3 DEF rx, Tags
      <4>2. <<>> \o W = W /\ <<>> \o (<<t>> \o W) = <<t>> \o W
        BY <1>7, <1>d, ConcatParts
      <4> QED BY <1>b, <3>1, <4>1, <4>2
    <3>4. CASE rxbuf["local"] # <<>>
      <4> DEFINE x == rxbuf["local"][1].tag
      <4>1. rx = <<x>> /\ Len(rxbuf["local"]) = 1 /\ rxbuf["local"][1] \in Held
        BY <1>4, <3>4 DEF rx, Tags
      <4>2. x \in Tag
        BY <4>1 DEF Held
      <4>3. x = "first" => Len(tagged) = 1
        BY <4>1 DEF FirstHeld
      <4> HIDE DEF x
      <4>4. t = "second" => Len(tagged) = 2
        <5> DEFINE u == got \o tx
                   v == u \o (rx \o (<<t>> \o W))
                   c == Len(u) + 2
        <5>1. u \in Seq(Tag)
          BY <1>5, ConcatClosed
        <5> HIDE DEF u
        <5>2. <<x>> \in Seq(Tag)
          BY <4>2
        <5>3. c \in 1 .. Len(v) /\ v[c] = t
          BY <1>7, <1>8, <4>1, <4>2, <5>1
        <5> HIDE DEF v, c
        <5>4. InLine(v, tagged)
          BY <3>2 DEF u, v
        <5> QED BY <5>3, <5>4 DEF InLine
      <4>5. ~(x = "first" /\ t = "second")
        BY <4>3, <4>4
      <4>6. InLine((got \o tx) \o (<<t>> \o (<<x>> \o W)), tagged)
        BY <1>7, <1>8, <1>c, <3>2, <4>1, <4>2, <4>5, LineSwap
      <4> QED BY <1>c, <1>d, <4>1, <4>6
    <3> QED BY <3>3, <3>4
  <2>2. CASE NextPort # Last
    <3>1. W = Tags(queues[Last])
      BY <1>5, <1>6, <2>2 DEF W
    <3>2. t = "none"
      <4>1. 1 \in 1 .. Len(queues[NextPort]) /\ msg = queues[NextPort][1]
        BY <1>2, <1>6
      <4> QED BY <1>2, <2>2, <4>1 DEF OrderInv, t
    <3>3. InLine((got \o tx) \o (rx \o W), tagged) /\ got \o tx \in Seq(Tag)
      BY <1>b, <1>c, <1>d, <3>1
    <3>4. InLine((got \o tx) \o (<<"none">> \o (rx \o W)), tagged)
      BY <1>d, <3>3, LineWithNone
    <3> QED BY <1>c, <1>d, <3>2, <3>4
  <2> QED BY <2>1, <2>2
<1>10. InLine(got' \o (TxTags(txq'["remote"]) \o (rx \o W)), tagged)
  <2>1. CASE Send("remote", Relayed(msg), "limiter")
    BY <1>1, <1>8, <1>9, <1>d, <2>1, SendLine DEF tx
  <2>2. CASE UNCHANGED <<txq, got, told>>
    <3>1. InLine((got \o tx) \o (<<t>> \o (rx \o W)), tagged)
      BY <1>9, <1>c, <1>d
    <3>2. InLine((got \o tx) \o (rx \o W), tagged)
      BY <1>a, <1>c, <1>d, <3>1, LineWithout
    <3> QED BY <1>c, <1>d, <2>2, <3>2 DEF tx
  <2> QED BY <1>3, <2>1, <2>2
<1>11. InLine(Line', tagged')
  BY <1>3, <1>4, <1>10 DEF Line, LineOf, W
<1>12. \A p \in Ports \ {Last} : \A k \in 1 .. Len(queues'[p]) : queues'[p][k].tag = "none"
  <2> SUFFICES ASSUME NEW p \in Ports \ {Last}, NEW k \in 1 .. Len(queues'[p])
               PROVE  queues'[p][k].tag = "none"
    OBVIOUS
  <2>1. CASE p = NextPort
    <3>1. /\ Len(queues'[p]) = Len(queues[p]) - 1 /\ Len(queues[p]) \in Nat
          /\ \A i \in 1 .. Len(queues[p]) - 1 : queues'[p][i] = queues[p][i + 1]
      <4> DEFINE q == queues[p]
      <4>1. q \in Seq(Packet) /\ q # <<>> /\ queues'[p] = Tail(q)
        BY <1>2, <1>6, <2>1
      <4> HIDE DEF q
      <4>2. /\ Len(Tail(q)) = Len(q) - 1 /\ Len(q) \in Nat
            /\ \A i \in 1 .. Len(q) - 1 : Tail(q)[i] = q[i + 1]
        BY <4>1
      <4> QED BY <4>1, <4>2 DEF q
    <3>2. k + 1 \in 1 .. Len(queues[p]) /\ queues'[p][k] = queues[p][k + 1]
      BY <3>1
    <3> QED BY <3>2 DEF OrderInv
  <2>2. CASE p # NextPort
    BY <1>6, <2>2 DEF OrderInv
  <2> QED BY <2>1, <2>2
<1> QED BY <1>11, <1>12 DEF OrderInv

(* A message a half has just received passes the limiter when none is       *)
(* waiting, so that it joins the line at its end, or when an action has     *)
(* sent it.                                                                 *)
LEMMA PassesLine ==
  ASSUME RelayBase, OrderInv, FirstWaits, RelayPasses
  PROVE  OrderInv'
<1>1. RelayTypeOK /\ QueuesCounted
  BY DEF RelayBase
<1>2. PICK m \in Messages(half) :
        /\ Received(m) /\ m.kind # "status" /\ PassesLimiter(m)
        /\ Forward(<<Relayed(m)>>)
  BY DEF RelayPasses
<1> DEFINE buf == <<Relayed(m)>>
           tx  == TxTags(txq["remote"])
           W   == Tags(queues[Last])
<1>3. Relayed(m) \in Held /\ Relayed(m).tag = m.tag
  BY <1>1, <1>2, ReceivedTyped
<1>4. buf \in Seq(Held) /\ Len(buf) <= 1 /\ Tags(buf) = <<Relayed(m).tag>>
  BY <1>3 DEF Tags
<1>5. UNCHANGED queues
  BY <1>2 DEF PassesLimiter, limiter
<1>6. /\ got \in Seq(Tag) /\ tx \in Seq(Tag) /\ W \in Seq(Tag) /\ Last \in Ports
      /\ <<>> \in Seq(Tag) /\ Tags(<<>>) = <<>>
  BY <1>1, LineParts DEF Tags
<1>7. InLine(LineOf(got, tx, Tags(IF half = "local" THEN buf ELSE rxbuf["local"]), W), tagged')
  <2>1. CASE half = "local"
    <3>2. Tags(rxbuf["local"]) = <<>> /\ m.tag \in Tag
      BY <1>2, <1>3, <1>6, <2>1 DEF Received, Held
    <3>3. \A i \in 1 .. Len(W) : W[i] = "first" =>
            tagged # <<>> /\ tagged[1] = "packet_in" /\ m.kind = "action_in"
      <4> SUFFICES ASSUME NEW i \in 1 .. Len(W), W[i] = "first"
                   PROVE  tagged # <<>> /\ tagged[1] = "packet_in" /\ m.kind = "action_in"
        OBVIOUS
      <4>1. i \in 1 .. Len(queues[Last]) /\ queues[Last][i].tag = "first"
        BY <1>6 DEF Tags
      <4>2. tagged # <<>> /\ tagged[1] = "packet_in"
        BY <1>6, <4>1 DEF FirstWaits
      <4>3. queues[Last] # <<>>
        BY <4>1
      <4>4. n_queued # 0
        BY <1>1, <1>6, <4>3, NoneQueued
      <4>5. m.kind # "packet_in"
        BY <1>2, <4>4 DEF PassesLimiter, Limited, TakesToken
      <4>6. use = "rate_limit"
        BY <4>4 DEF RelayBase
      <4> QED BY <1>1, <1>2, <2>1, <4>2, <4>5, <4>6, ReceivedTyped DEF Reasons
    <3> HIDE DEF tx, W
    <3>4. InLine((got \o tx) \o W, tagged) /\ got \o tx \in Seq(Tag)
      <4>1. InLine(got \o (tx \o (<<>> \o W)), tagged)
        BY <3>2 DEF OrderInv, Line, LineOf, tx, W
      <4>2. <<>> \o W = W /\ (got \o tx) \o W = got \o (tx \o W)
        BY <1>6, ConcatParts
      <4> QED BY <1>6, <4>1, <4>2, ConcatClosed
    <3>5. InLine((got \o tx) \o (<<m.tag>> \o W), tagged')
      BY <1>1, <1>2, <1>6, <3>3, <3>4, ReceivedLine
    <3>6. <<m.tag>> \in Seq(Tag) /\ <<m.tag>> \o W \in Seq(Tag)
      <4>1. <<m.tag>> \in Seq(Tag)
        BY <3>2
      <4> QED BY <1>6, <4>1, ConcatClosed
    <3>7. LineOf(got, tx, <<m.tag>>, W) = (got \o tx) \o (<<m.tag>> \o W)
      BY <1>6, <3>6, ConcatParts DEF LineOf
    <3> QED BY <1>3, <1>4, <2>1, <3>5, <3>7
  <2>2. CASE half # "local"
    BY <1>1, <1>2, <2>2, LostLine DEF OrderInv, Line
  <2> QED BY <2>1, <2>2
<1> HIDE DEF buf
<1>8. InLine(LineOf(got', TxTags(txq'["remote"]), Tags(rxbuf'["local"]), W), tagged')
  BY <1>1, <1>2, <1>4, <1>6, <1>7, ForwardLine DEF buf
<1> QED BY <1>5, <1>8 DEF OrderInv, Line

(* Where the packets of the limiter's queues come from.                     *)
LEMMA QueuedFrom ==
  ASSUME RelayTypeOK, QueuesCounted, NEW m \in Packet, QueuedByLimiter(m),
         NEW p \in Ports, NEW k \in 1 .. Len(queues'[p])
  PROVE  \/ queues'[p][k] = m
         \/ \E i \in 1 .. Len(queues[p]) : queues'[p][k] = queues[p][i]
<1>1. PICK q \in [Ports -> Seq(Packet)] :
        /\ queues' = [q EXCEPT ![m.port] = Append(@, m)]
        /\ \/ q = queues
           \/ \E o \in Ports : queues[o] # <<>> /\ q = [queues EXCEPT ![o] = Tail(@)]
  BY QueuedTyped
<1>2. /\ m.port \in Ports /\ queues \in [Ports -> Seq(Packet)]
      /\ q[p] \in Seq(Packet) /\ queues[p] \in Seq(Packet)
  BY DEF Packet, RelayTypeOK
<1>3. q[p] = queues[p] \/ (queues[p] # <<>> /\ q[p] = Tail(queues[p]))
  BY <1>1, <1>2
<1>4. queues'[p] = q[p] \/ queues'[p] = Append(q[p], m)
  BY <1>1, <1>2
<1>5. ASSUME NEW i \in 1 .. Len(q[p])
      PROVE  \E j \in 1 .. Len(queues[p]) : q[p][i] = queues[p][j]
  <2>1. CASE q[p] = queues[p]
    BY <2>1
  <2>2. CASE queues[p] # <<>> /\ q[p] = Tail(queues[p])
    <3> DEFINE r == queues[p]
    <3>1. r \in Seq(Packet) /\ r # <<>> /\ q[p] = Tail(r)
      BY <1>2, <2>2
    <3> HIDE DEF r
    <3>2. i + 1 \in 1 .. Len(r) /\ Tail(r)[i] = r[i + 1]
      BY <3>1
    <3> QED BY <3>1, <3>2 DEF r
  <2> QED BY <1>3, <2>1, <2>2
<1>6. queues'[p][k] = m \/ (k \in 1 .. Len(q[p]) /\ queues'[p][k] = q[p][k])
  BY <1>2, <1>4
<1> QED BY <1>5, <1>6

(* What waits was limited.                                                  *)
LEMMA FirstWaitsStep ==
  ASSUME RelayBase, FirstWaits, [Next]_vars
  PROVE  FirstWaits'
<1>1. RelayTypeOK /\ QueuesCounted
  BY DEF RelayBase
<1>2. CASE UNCHANGED <<queues, tagged>>
  BY <1>2 DEF FirstWaits
<1>3. ASSUME NEW m, Received(m), UNCHANGED queues PROVE FirstWaits'
  BY <1>1, <1>3, FirstReason DEF FirstWaits
<1>4. CASE RelayPasses
  BY <1>3, <1>4 DEF RelayPasses, PassesLimiter, limiter
<1>5. CASE HookTakesRemote
  BY <1>3, <1>5 DEF HookTakesRemote, limiter
<1>6. CASE HookTakesLocal
  <2>1. PICK m : Received(m) /\ (UNCHANGED limiter \/ QueuedByLimiter(m))
    BY <1>6 DEF HookTakesLocal
  <2>2. CASE UNCHANGED limiter
    BY <1>3, <2>1, <2>2 DEF limiter
  <2>3. CASE QueuedByLimiter(m)
    <3>1. m \in Packet /\ m.kind = "packet_in"
      BY <1>1, <2>1, <2>3, ReceivedTyped DEF QueuedByLimiter, Limited
    <3> SUFFICES ASSUME NEW p \in Ports, NEW k \in 1 .. Len(queues'[p]),
                        queues'[p][k].tag = "first"
                 PROVE  tagged' # <<>> /\ tagged'[1] = "packet_in"
      BY DEF FirstWaits
    <3>2. CASE queues'[p][k] = m
      <4>1. m.tag = "first"
        BY <3>2
      <4>2. tagged' = Append(tagged, "packet_in") /\ m.tag = NextTag(tagged)
        BY <1>1, <2>1, <3>1, <4>1, ReceivedNext
      <4>3. tagged = <<>>
        BY <4>1, <4>2 DEF NextTag
      <4> QED BY <4>2, <4>3
    <3>3. CASE \E i \in 1 .. Len(queues[p]) : queues'[p][k] = queues[p][i]
      <4>1. tagged # <<>> /\ tagged[1] = "packet_in"
        BY <3>3 DEF FirstWaits
      <4> QED BY <1>1, <2>1, <4>1, FirstReason
    <3> QED BY <1>1, <2>3, <3>1, <3>2, <3>3, QueuedFrom
  <2> QED BY <2>1, <2>2, <2>3
<1>7. CASE Drain
  <2>1. NextPort \in Ports /\ queues[NextPort] # <<>>
    BY <1>1, <1>7, NextPortQueued DEF Drain, Draining
  <2>2. queues' = [queues EXCEPT ![NextPort] = Tail(@)] /\ tagged' = tagged
    BY <1>7 DEF Drain, dequeue_packet
  <2> SUFFICES ASSUME NEW p \in Ports, NEW k \in 1 .. Len(queues'[p]), queues'[p][k].tag = "first"
               PROVE  tagged # <<>> /\ tagged[1] = "packet_in"
    BY <2>2 DEF FirstWaits
  <2>3. CASE p # NextPort
    BY <1>1, <2>1, <2>2, <2>3 DEF FirstWaits, RelayTypeOK
  <2>4. CASE p = NextPort
    <3> DEFINE r == queues[p]
    <3>1. r \in Seq(Packet) /\ r # <<>> /\ queues'[p] = Tail(r)
      BY <1>1, <2>1, <2>2, <2>4 DEF RelayTypeOK
    <3> HIDE DEF r
    <3>2. k + 1 \in 1 .. Len(r) /\ Tail(r)[k] = r[k + 1]
      BY <3>1
    <3> QED BY <3>1, <3>2 DEF FirstWaits, r
  <2> QED BY <2>3, <2>4
<1>8. CASE UNCHANGED vars \/ WakesUp \/ Tick \/ Hooks \/ RelayHeld \/ DrainEnds \/ relay_accept
  BY <1>2, <1>8 DEF vars, WakesUp, Tick, BucketTick, Hooks, RelayHeld, DrainEnds, relay_accept,
                    hist, limiter
<1>9. CASE \E h \in Half : Transmit(h) \/ Lose(h) \/ Reconnect(h)
  BY <1>2, <1>9 DEF Transmit, Lose, Reconnect, hist, limiter
<1> QED BY <1>4, <1>5, <1>6, <1>7, <1>8, <1>9 DEF Next, Relaying

(* A half receives nothing while it holds a message.                        *)
LEMMA FirstHeldStep ==
  ASSUME RelayBase, FirstHeld, [Next]_vars
  PROVE  FirstHeld'
<1>1. RelayTypeOK /\ "local" \in Half
  BY DEF RelayBase, Half
<1>2. ASSUME UNCHANGED tagged, rxbuf'["local"] \in {rxbuf["local"], <<>>} PROVE FirstHeld'
  BY <1>2 DEF FirstHeld
<1>3. ASSUME rxbuf'["local"] = <<>> PROVE FirstHeld'
  BY <1>3 DEF FirstHeld
<1>4. ASSUME NEW buf, Forward(buf)
      PROVE  rxbuf'["local"] \in IF half = "local" THEN {buf, <<>>} ELSE {rxbuf["local"]}
  BY <1>1, <1>4 DEF Forward, RelayTypeOK
<1>5. CASE RelayHeld
  <2>1. UNCHANGED tagged /\ Forward(rxbuf[half])
    BY <1>5 DEF RelayHeld
  <2> QED BY <1>2, <1>4, <2>1
<1>6. CASE RelayPasses
  <2>1. PICK m : Received(m) /\ m.kind # "status" /\ Forward(<<Relayed(m)>>)
    BY <1>6 DEF RelayPasses
  <2>2. CASE half # "local"
    <3>1. UNCHANGED tagged
      BY <1>1, <2>1, <2>2, ReceivedNext
    <3> QED BY <1>2, <1>4, <2>1, <2>2, <3>1
  <2>3. CASE half = "local" /\ rxbuf'["local"] = <<Relayed(m)>>
    <3>1. Relayed(m).tag = m.tag
      BY <1>1, <2>1, ReceivedTyped
    <3>2. m.tag = "first" => Len(tagged') = 1
      <4> SUFFICES ASSUME m.tag = "first" PROVE Len(tagged') = 1
        OBVIOUS
      <4>1. m.tag = NextTag(tagged) /\ tagged' = Append(tagged, m.kind) /\ m.kind \in Reasons
        BY <1>1, <2>1, ReceivedNext
      <4>2. tagged = <<>>
        BY <4>1 DEF NextTag
      <4> QED BY <4>1, <4>2
    <3> QED BY <2>3, <3>1, <3>2 DEF FirstHeld
  <2> QED BY <1>3, <1>4, <2>1, <2>2, <2>3
<1>7. CASE HookTakesLocal
  <2>1. rxbuf'["local"] = <<>>
    BY <1>7 DEF HookTakesLocal, Received
  <2> QED BY <1>3, <2>1
<1>8. CASE HookTakesRemote
  <2>1. UNCHANGED <<rxbuf, tagged>>
    BY <1>8 DEF HookTakesRemote, Received, Plain
  <2> QED BY <1>2, <2>1
<1>9. CASE relay_accept
  BY <1>1, <1>3, <1>9 DEF relay_accept
<1>10. CASE UNCHANGED vars \/ WakesUp \/ Tick \/ Hooks \/ Drain \/ DrainEnds
  BY <1>2, <1>10 DEF vars, WakesUp, Tick, Hooks, Drain, DrainEnds, hist
<1>11. CASE \E h \in Half : Transmit(h) \/ Lose(h) \/ Reconnect(h)
  BY <1>2, <1>11 DEF Transmit, Lose, Reconnect, hist
<1> QED BY <1>5, <1>6, <1>7, <1>8, <1>9, <1>10, <1>11 DEF Next, Relaying

(* Every step of the relay keeps the line in order.                         *)
LEMMA OrderStep ==
  ASSUME RelayBase, OrderInv, FirstWaits, FirstHeld, [Next]_vars
  PROVE  OrderInv'
<1> DEFINE tx == TxTags(txq["remote"])
           rx == Tags(rxbuf["local"])
           W  == Tags(queues[Last])
<1>1. RelayTypeOK /\ InLine(LineOf(got, tx, rx, W), tagged)
  BY DEF RelayBase, OrderInv, Line
<1>2. /\ got \in Seq(Tag) /\ tx \in Seq(Tag) /\ rx \in Seq(Tag) /\ W \in Seq(Tag)
      /\ <<>> \in Seq(Tag) /\ txq["remote"] \in Seq(Entry) /\ "remote" \in Half /\ "local" \in Half
  BY <1>1, LineParts DEF RelayTypeOK, Half
<1>a. got \in Seq(Tag) /\ tx \in Seq(Tag)
  BY <1>2
<1>3. ASSUME UNCHANGED <<queues, tagged>>, UNCHANGED <<got, rxbuf>>, txq'["remote"] = txq["remote"]
      PROVE  OrderInv'
  BY <1>3 DEF OrderInv, Line
<1>4. CASE UNCHANGED vars \/ WakesUp \/ Tick \/ Hooks
  BY <1>3, <1>4 DEF vars, WakesUp, Tick, BucketTick, Hooks, hist, limiter
<1>5. CASE RelayHeld
  <2>1. rxbuf[half] \in Seq(Held) /\ Len(rxbuf[half]) <= 1
    BY <1>1 DEF RelayTypeOK
  <2>2. Forward(rxbuf[half]) /\ UNCHANGED <<tagged, queues>>
    BY <1>5 DEF RelayHeld, limiter
  <2>3. (IF half = "local" THEN rxbuf[half] ELSE rxbuf["local"]) = rxbuf["local"]
    OBVIOUS
  <2>4. InLine(LineOf(got', TxTags(txq'["remote"]), Tags(rxbuf'["local"]), W), tagged)
    BY <1>1, <1>2, <2>1, <2>2, <2>3, ForwardLine
  <2> QED BY <2>2, <2>4 DEF OrderInv, Line
<1>6. CASE RelayPasses
  BY <1>6, PassesLine
<1>7. CASE HookTakesLocal
  <2>1. PICK m \in Messages(half) :
          /\ Received(m)
          /\ \/ ~link["remote"] /\ UNCHANGED limiter
             \/ QueuedByLimiter(m)
    BY <1>7 DEF HookTakesLocal
  <2>2. UNCHANGED <<rxbuf, txq, got>> /\ half = "local"
    BY <1>7 DEF HookTakesLocal
  <2>3. CASE UNCHANGED limiter
    <3>1. InLine(Line, tagged')
      BY <1>1, <2>1, LostLine DEF Line
    <3> QED BY <2>2, <2>3, <3>1 DEF OrderInv, Line, limiter
  <2>4. CASE QueuedByLimiter(m)
    <3>1. m \in Packet
      BY <1>1, <2>1, <2>4, ReceivedTyped DEF QueuedByLimiter, Limited
    <3> QED BY <2>1, <2>2, <2>4, <3>1, QueuedLine
  <2> QED BY <2>1, <2>3, <2>4
<1>8. CASE HookTakesRemote
  <2>1. /\ UNCHANGED <<rxbuf, queues>> /\ Received(Plain("status"))
        /\ Send("remote", Plain("other"), "none")
    BY <1>8 DEF HookTakesRemote, limiter
  <2>2. Plain("other") \in Msg /\ Plain("other").tag = "none" /\ tagged' = tagged
    BY <2>1 DEF Plain, Msg, Tag, Received
  <2> HIDE DEF tx, rx, W
  <2> DEFINE d == rx \o W
  <2>3. d \in Seq(Tag) /\ got \o tx \in Seq(Tag)
    BY <1>2, ConcatParts
  <2>4. <<"none">> \in Seq(Tag)
    BY DEF Tag
  <2> HIDE DEF d
  <2>5. <<"none">> \o d \in Seq(Tag)
    BY <2>3, <2>4, ConcatParts
  <2>6. InLine((got \o tx) \o d, tagged)
    <3>1. (got \o tx) \o d = got \o (tx \o d)
      BY <1>a, <2>3, ConcatAssoc, Zenon
    <3> QED BY <1>1, <3>1 DEF LineOf, d
  <2>7. InLine((got \o tx) \o (<<"none">> \o d), tagged)
    BY <2>3, <2>6, LineWithNone
  <2>8. InLine(got \o (tx \o (<<"none">> \o d)), tagged)
    <3>1. (got \o tx) \o (<<"none">> \o d) = got \o (tx \o (<<"none">> \o d))
      BY <1>a, <2>5, ConcatAssoc, Zenon
    <3> QED BY <2>7, <3>1
  <2>9. InLine(got' \o (TxTags(txq'["remote"]) \o d), tagged)
    BY <1>1, <2>1, <2>2, <2>3, <2>8, SendLine DEF tx
  <2> QED BY <2>1, <2>2, <2>9 DEF OrderInv, Line, LineOf, d, rx, W
<1>9. CASE Drain
  BY <1>9, DrainLine
<1>10. CASE DrainEnds
  <2>1. UNCHANGED <<rxbuf, tagged, queues>>
    BY <1>10 DEF DrainEnds
  <2>2. got' = got /\ txq'["remote"] = txq["remote"]
    BY <1>1, <1>10, SendLocalLine DEF DrainEnds, emerg_flow_periodic
  <2> QED BY <1>3, <2>1, <2>2
<1>11. CASE relay_accept
  <2>1. UNCHANGED <<got, tagged, queues>> /\ rxbuf'["local"] = <<>> /\ txq'["remote"] = <<>>
    BY <1>2, <1>11 DEF relay_accept, hist, limiter
  <2>2. TxTags(<<>>) = <<>> /\ Tags(<<>>) = <<>>
    BY DEF TxTags, Tags
  <2> HIDE DEF tx, rx, W
  <2>3. InLine(got \o ((tx \o rx) \o W), tagged) /\ tx \o rx \in Seq(Tag)
    <3>1. (tx \o rx) \o W = tx \o (rx \o W) /\ tx \o rx \in Seq(Tag)
      BY <1>2, ConcatParts
    <3> QED BY <1>1, <3>1 DEF LineOf
  <2>4. InLine(got \o W, tagged)
    BY <1>2, <2>3, LineWithout
  <2>5. LineOf(got, <<>>, <<>>, W) = got \o W
    BY <1>2, ConcatParts DEF LineOf
  <2> QED BY <2>1, <2>2, <2>4, <2>5 DEF OrderInv, Line, W
<1>12. ASSUME NEW h \in Half, Transmit(h) PROVE OrderInv'
  <2>1. /\ UNCHANGED <<rxbuf, tagged, queues>> /\ txq[h] # <<>>
        /\ Deliver(h, Head(txq[h]).msg) /\ txq' = [txq EXCEPT ![h] = Tail(@)]
    BY <1>12 DEF Transmit, limiter
  <2>2. CASE h # "remote"
    <3>1. got' = got /\ txq'["remote"] = txq["remote"]
      BY <1>1, <1>2, <2>1, <2>2 DEF Deliver, RelayTypeOK
    <3> QED BY <1>3, <2>1, <3>1
  <2>3. CASE h = "remote"
    <3> DEFINE q == txq["remote"]
               t == Head(q).msg.tag
               r == TxTags(Tail(q))
               d == rx \o W
    <3>1. /\ q \in Seq(Entry) /\ q # <<>> /\ txq'["remote"] = Tail(q)
          /\ got' = IF t # "none" THEN Append(got, t) ELSE got
      BY <1>1, <1>2, <2>1, <2>3 DEF Deliver, RelayTypeOK
    <3>2. Head(q) \in Entry /\ Tail(q) \in Seq(Entry)
      BY <3>1
    <3>3. tx = <<t>> \o r /\ t \in Tag /\ r \in Seq(Tag)
      BY <3>1, <3>2, TxTagsParts
    <3> HIDE DEF q, t, r, tx, rx, W
    <3>4. <<t>> \in Seq(Tag) /\ d \in Seq(Tag)
      BY <1>2, <3>3, ConcatParts
    <3> HIDE DEF d
    <3>5. r \o d \in Seq(Tag) /\ tx \o d = <<t>> \o (r \o d)
      <4>1. (<<t>> \o r) \o d = <<t>> \o (r \o d)
        BY <3>3, <3>4, ConcatAssoc, Zenon
      <4> QED BY <3>3, <3>4, <4>1, ConcatParts
    <3>6. InLine(got \o (<<t>> \o (r \o d)), tagged)
      BY <1>1, <3>5 DEF LineOf, d
    <3>7. InLine(got' \o (r \o d), tagged)
      <4>1. CASE t = "none"
        BY <1>2, <3>1, <3>4, <3>5, <3>6, <4>1, LineWithout
      <4>2. CASE t # "none"
        <5>1. got' = got \o <<t>>
          <6>1. got' = Append(got, t)
            BY <3>1, <4>2
          <6> QED BY <1>a, <3>3, <6>1, ConcatOne
        <5>2. (got \o <<t>>) \o (r \o d) = got \o (<<t>> \o (r \o d))
          BY <1>a, <3>4, <3>5, ConcatAssoc, Zenon
        <5> QED BY <3>6, <5>1, <5>2
      <4> QED BY <4>1, <4>2
    <3> QED BY <2>1, <3>1, <3>7 DEF OrderInv, Line, LineOf, d, r, rx, W
  <2> QED BY <2>2, <2>3
<1>13. ASSUME NEW h \in Half, Lose(h) PROVE OrderInv'
  <2>1. UNCHANGED <<rxbuf, tagged, queues, got>> /\ txq' = [txq EXCEPT ![h] = <<>>]
    BY <1>13 DEF Lose, limiter
  <2>2. CASE h # "remote"
    <3>1. txq'["remote"] = txq["remote"]
      BY <1>1, <1>2, <2>1, <2>2 DEF RelayTypeOK
    <3> QED BY <1>3, <2>1, <3>1
  <2>3. CASE h = "remote"
    <3>1. txq'["remote"] = <<>> /\ TxTags(<<>>) = <<>>
      BY <1>1, <1>2, <2>1, <2>3 DEF RelayTypeOK, TxTags
    <3> HIDE DEF tx, rx, W
    <3>2. rx \o W \in Seq(Tag) /\ InLine(got \o (tx \o (rx \o W)), tagged)
      BY <1>1, <1>2, ConcatParts DEF LineOf
    <3>3. InLine(got \o (rx \o W), tagged)
      BY <1>2, <3>2, LineWithout
    <3>4. LineOf(got, <<>>, rx, W) = got \o (rx \o W)
      BY <1>2, <3>2, ConcatParts DEF LineOf
    <3> QED BY <2>1, <3>1, <3>3, <3>4 DEF OrderInv, Line, rx, W
  <2> QED BY <2>2, <2>3
<1>14. ASSUME NEW h \in Half, Reconnect(h) PROVE OrderInv'
  BY <1>3, <1>14 DEF Reconnect, hist, limiter
<1> QED BY <1>4, <1>5, <1>6, <1>7, <1>8, <1>9, <1>10, <1>11, <1>12, <1>13, <1>14
        DEF Next, Relaying

(* A line in order with the controller's part in front.                     *)
LEMMA LineInOrder ==
  ASSUME RelayTypeOK, OrderInv
  PROVE  PacketsInOrder
<1> DEFINE rest == TxTags(txq["remote"]) \o (Tags(rxbuf["local"]) \o Tags(queues[Last]))
<1>1. /\ got \in Seq(Tag) /\ TxTags(txq["remote"]) \in Seq(Tag)
      /\ Tags(rxbuf["local"]) \in Seq(Tag) /\ Tags(queues[Last]) \in Seq(Tag)
  BY LineParts
<1>2. rest \in Seq(Tag)
  BY <1>1, ConcatParts
<1>3. InLine(got \o rest, tagged)
  BY DEF OrderInv, Line, LineOf
<1> HIDE DEF rest
<1>4. /\ Len(got) \in Nat /\ Len(got \o rest) = Len(got) + Len(rest) /\ Len(rest) \in Nat
      /\ \A i \in 1 .. Len(got) : (got \o rest)[i] = got[i]
  BY <1>1, <1>2
<1>5. \A i, j \in 1 .. Len(got) : i < j => Fine(got[i], got[j], tagged)
  BY <1>3, <1>4 DEF InLine
<1>6. \A i \in 1 .. Len(got) : got[i] \in {"first", "second"}
  BY DEF RelayTypeOK, Tag
<1>7. \A i, j \in 1 .. Len(got) : i < j =>
        \/ got[i] = "first" /\ got[j] = "second"
        \/ got[i] = "second" /\ got[j] = "first" /\ Overtakes(tagged)
  BY <1>5, <1>6 DEF Fine
<1>8. Len(got) <= 2
  <2> SUFFICES ASSUME Len(got) > 2 PROVE FALSE
    BY <1>4
  <2>1. 1 \in 1 .. Len(got) /\ 2 \in 1 .. Len(got) /\ 3 \in 1 .. Len(got)
    BY <1>4
  <2>2. got[1] # got[2] /\ got[2] # got[3] /\ got[1] # got[3]
    BY <1>7, <2>1
  <2>3. got[1] \in {"first", "second"} /\ got[2] \in {"first", "second"}
        /\ got[3] \in {"first", "second"}
    BY <1>6, <2>1
  <2> QED BY <2>2, <2>3
<1>9. CASE Len(got) = 0
  <2>1. got = <<>>
    BY <1>1, <1>9
  <2> QED BY <2>1 DEF PacketsInOrder
<1>10. CASE Len(got) = 1
  <2>1. got = <<got[1]>> /\ got[1] \in {"first", "second"}
    BY <1>1, <1>6, <1>10
  <2> QED BY <2>1 DEF PacketsInOrder
<1>11. CASE Len(got) = 2
  <2>1. got = <<got[1], got[2]>>
    BY <1>1, <1>11
  <2>2. CASE got[1] = "first" /\ got[2] = "second"
    <3>1. got = <<"first", "second">>
      BY <2>1, <2>2, Zenon
    <3> QED BY <3>1, Zenon DEF PacketsInOrder
  <2>3. CASE got[1] = "second" /\ got[2] = "first" /\ Overtakes(tagged)
    <3>1. got = <<"second", "first">>
      BY <2>1, <2>3, Zenon
    <3> QED BY <2>3, <3>1, Zenon DEF PacketsInOrder, Overtakes
  <2> QED BY <1>7, <1>11, <2>2, <2>3
<1>12. Len(got) \in {0, 1, 2}
  <2> DEFINE n == Len(got)
  <2>1. n \in Nat /\ n <= 2
    BY <1>4, <1>8
  <2> HIDE DEF n
  <2>2. n \in {0, 1, 2}
    BY <2>1
  <2> QED BY <2>2 DEF n
<1> QED BY <1>9, <1>10, <1>11, <1>12, Zenon

(* No packet-in arrives twice, and of two packet-ins of one port the later  *)
(* overtakes the earlier only if an action has sent it and the earlier was  *)
(* limited: through the limiter's queues, the held message of relay_run and *)
(* the queue of the rconn, whatever is dropped in between.                  *)
THEOREM PacketsArriveInOrder == Spec => []PacketsInOrder
<1>1. Init => OrderInv /\ FirstWaits /\ FirstHeld
  <2> SUFFICES ASSUME Init PROVE OrderInv /\ FirstWaits /\ FirstHeld
    OBVIOUS
  <2>1. Last \in Ports
    BY LimiterAssumption DEF Last, Ports
  <2>2. /\ got = <<>> /\ txq["remote"] = <<>> /\ rxbuf["local"] = <<>>
        /\ \A p \in Ports : queues[p] = <<>>
    BY DEF Init, Half, rate_limit_start
  <2>3. TxTags(<<>>) = <<>> /\ Tags(<<>>) = <<>>
    BY DEF TxTags, Tags
  <2>4. Line = <<>>
    <3>1. <<>> \o <<>> = <<>>
      OBVIOUS
    <3> QED BY <2>1, <2>2, <2>3, <3>1 DEF Line, LineOf
  <2>5. InLine(<<>>, tagged)
    BY DEF InLine
  <2> QED BY <2>2, <2>4, <2>5 DEF OrderInv, FirstWaits, FirstHeld
<1>2. RelayBase /\ OrderInv /\ FirstWaits /\ FirstHeld /\ [Next]_vars =>
        RelayBase' /\ OrderInv' /\ FirstWaits' /\ FirstHeld'
  BY RelayBaseStep, OrderStep, FirstWaitsStep, FirstHeldStep
<1>3. RelayBase /\ OrderInv => PacketsInOrder
  BY LineInOrder DEF RelayBase
<1> QED BY <1>1, <1>2, <1>3, RelayBaseInit, PTL DEF Spec

=============================================================================
