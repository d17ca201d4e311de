-------------------------- MODULE DiscoveryProofs ---------------------------
(***************************************************************************)
(* For any leases, timeouts and servers: an address is not used after its  *)
(* lease, and is given up when a question is not answered in time; the     *)
(* rconn and the network device follow the lease.                          *)
(***************************************************************************)
EXTENDS Discovery, TLAPS

(* The timeout of the current state, and those of the states after it.      *)
Own ==
  IF state = "BOUND" THEN bound_timeout
  ELSE IF state = "RENEWING" THEN renewing_timeout ELSE rebinding_timeout
Rest ==
  IF state = "BOUND" THEN renewing_timeout + rebinding_timeout
  ELSE IF state = "RENEWING" THEN rebinding_timeout ELSE 0

(* What the proof knows of the types.                                       *)
TimesTyped ==
  /\ state \in States \cup {"NONE"}
  /\ elapsed \in Nat /\ left \in Int /\ wake \in Int /\ questioned \in Nat
  /\ resend \in Int /\ delay \in Nat /\ init_delay \in Nat
  /\ bound_timeout \in 0 .. TimeBound /\ renewing_timeout \in 0 .. TimeBound
  /\ rebinding_timeout \in 0 .. TimeBound
  /\ doubt \in Int

(* The timeouts ahead end with the lease, and with the deadline of an       *)
(* unanswered question; the poll loop is woken for the one that is running. *)
WithinLease == dhclient_is_bound => elapsed <= Own /\ Own - elapsed + Rest <= left
WokenInTime == dhclient_is_bound /\ pc \in {"poll", "report"} => wake <= Own - elapsed
WithinDeadline ==
  doubt >= 0 => /\ state \in {"RENEWING", "REBINDING"}
                /\ Own - elapsed + Rest + doubt <= RenewDeadline
                /\ questioned = doubt

LeaseInv == TimesTyped /\ WithinLease /\ WokenInTime /\ WithinDeadline /\ rx \in Seq(Message)

-----------------------------------------------------------------------------
(* fuzz stays at zero or above.                                             *)
LEMMA FuzzIsNat ==
  ASSUME NEW x \in Int, NEW f \in Nat, NEW y \in fuzz(x, f)
  PROVE  y \in Nat /\ y >= x - f
BY DEF fuzz, Most

(* receive_ack divides a lease into three parts that add up to it.          *)
LEMMA LeaseDivided ==
  ASSUME TimesInOrder, NEW g \in Grants, validate_offered_options(g),
         NEW t2 \in T2(g), NEW t1 \in T1(g, t2)
  PROVE  t1 \in Nat /\ t2 \in Nat /\ t1 <= t2 /\ t2 < g.lease /\ g.lease <= TimeBound
<1> USE DhcpAssumption, DiscoveryAssumption
<1>1. /\ g.lease \in Nat /\ g.t1 \in Nat /\ g.t2 \in Nat /\ g.lease >= 2
      /\ g.lease <= TimeBound
  BY DEF Grant, validate_offered_options
<1>2. t2 \in Nat /\ 1 <= t2 /\ t2 < g.lease
  <2>1. CASE ~(g.t2 = 0 \/ g.t2 >= g.lease)
    BY <2>1, <1>1 DEF T2
  <2>2. CASE (g.t2 = 0 \/ g.t2 >= g.lease) /\ g.lease < LongLease
    BY <2>2, <1>1 DEF T2, calc_t2
  <2>3. CASE (g.t2 = 0 \/ g.t2 >= g.lease) /\ g.lease >= LongLease
    <3>1. PICK y \in fuzz((g.lease * 7) \div 8, LeaseFuzz) : t2 = clamp(y, g.lease - 1)
      BY <2>3, <1>1 DEF T2, calc_t2
    <3>2. (g.lease * 7) \div 8 \in Nat /\ (g.lease * 7) \div 8 >= (LongLease * 7) \div 8
      BY <2>3, <1>1
    <3>3. y \in Nat /\ y >= (g.lease * 7) \div 8 - LeaseFuzz
      BY <3>2, FuzzIsNat
    <3> QED BY <3>1, <3>2, <3>3, <1>1 DEF clamp, Least
  <2> QED BY <2>1, <2>2, <2>3, <1>1
<1>3. t1 \in Nat /\ t1 <= t2
  <2>1. CASE ~(g.t1 = 0 \/ g.t1 >= t2)
    BY <2>1, <1>1, <1>2 DEF T1
  <2>2. CASE (g.t1 = 0 \/ g.t1 >= t2) /\ g.lease < LongLease
    <3>1. t1 = g.lease \div 2
      BY <2>2, <1>1 DEF T1, calc_t1
    <3>2. CASE g.t2 = 0 \/ g.t2 >= g.lease
      <4>1. t2 = (g.lease * 7) \div 8
        BY <3>2, <2>2, <1>1 DEF T2, calc_t2
      <4> QED BY <4>1, <3>1, <1>1
    <3>3. CASE ~(g.t2 = 0 \/ g.t2 >= g.lease)
      <4>1. t2 = g.t2
        BY <3>3 DEF T2
      <4> QED BY <4>1, <3>1, <3>3, <2>2, <1>1 DEF TimesInOrder
    <3> QED BY <3>2, <3>3
  <2>3. CASE (g.t1 = 0 \/ g.t1 >= t2) /\ g.lease >= LongLease
    <3>1. PICK y \in fuzz(g.lease \div 2, LeaseFuzz) : t1 = clamp(y, t2 - 1)
      BY <2>3, <1>1 DEF T1, calc_t1
    <3>2. g.lease \div 2 \in Nat
      BY <1>1
    <3>3. y \in Nat
      BY <3>2, FuzzIsNat
    <3> QED BY <3>1, <3>3, <1>2 DEF clamp, Least
  <2> QED BY <2>1, <2>2, <2>3, <1>1, <1>2
<1> QED BY <1>1, <1>2, <1>3

(* dhcp_receive leaves messages in the queue.                               *)
LEMMA QueueTyped ==
  ASSUME rx \in Seq(Message), NEW k \in 0 .. Len(rx)
  PROVE  After(k) \in Seq(Message) /\ (k # 0 => rx[k] \in Message)
BY DEF After

(* An acknowledgement that was accepted carries a grant of some server.     *)
LEMMA GrantedIsGrant ==
  ASSUME rx \in Seq(Message), NEW k \in 0 .. Len(rx), Granted(k)
  PROVE  rx[k].grant \in Grants /\ validate_offered_options(rx[k].grant)
<1>1. rx[k] \in Message
  BY QueueTyped DEF Granted
<1> QED BY <1>1 DEF Granted, Message

(* send_reliably.                                                           *)
LEMMA SendTyped ==
  ASSUME TimesTyped, NEW s \in SendReliably
  PROVE  s[1] \in Nat /\ s[2] \in Int
<1> USE DhcpAssumption
<1>1. CASE resend > 0
  BY <1>1 DEF SendReliably, TimesTyped
<1>2. CASE ~(resend > 0)
  <2> DEFINE d == Least(max_timeout, Most(MinDelay, delay * 2))
  <2>1. d \in Nat
    BY DEF Least, Most, TimesTyped
  <2>2. PICK f \in fuzz(d, 1) : s = <<d, resend + f>>
    BY <1>2 DEF SendReliably
  <2>3. f \in Nat
    BY <2>1, FuzzIsNat
  <2> QED BY <2>1, <2>2, <2>3 DEF TimesTyped
<1> QED BY <1>1, <1>2

-----------------------------------------------------------------------------
(* The parts of Run that are the same in every state.                       *)
RunFrame ==
  /\ pc' = IF state' = state THEN "report" ELSE "run"
  /\ doubt' = IF state' \in {"RENEWING", "REBINDING"} THEN doubt ELSE -1
  /\ questioned' = questioned /\ init_delay' \in Nat

(* receive_ack with an acknowledgement: a whole lease is ahead.             *)
LEMMA GrantKeeps ==
  ASSUME TimesInOrder, LeaseInv, RunFrame, state # "BOUND",
         NEW k \in 0 .. Len(rx), Granted(k),
         Enter("BOUND", After(k)), Bind(rx[k].grant), UNCHANGED wake
  PROVE  LeaseInv'
<1> USE DhcpAssumption, DiscoveryAssumption
<1> DEFINE g == rx[k].grant
<1>1. rx \in Seq(Message)
  BY DEF LeaseInv
<1>2. g \in Grants /\ validate_offered_options(g)
  BY <1>1, GrantedIsGrant
<1>a. PICK t2 \in T2(g) : \E t1 \in T1(g, t2) :
        /\ left' = g.lease /\ bound_timeout' = t1
        /\ renewing_timeout' = Minus(t2, t1) /\ rebinding_timeout' = Minus(g.lease, t2)
  BY DEF Bind
<1>3. PICK t1 \in T1(g, t2) :
        /\ left' = g.lease /\ bound_timeout' = t1
        /\ renewing_timeout' = Minus(t2, t1) /\ rebinding_timeout' = Minus(g.lease, t2)
  BY <1>a
<1>4. t1 \in Nat /\ t2 \in Nat /\ t1 <= t2 /\ t2 < g.lease /\ g.lease <= TimeBound
  BY <1>2, LeaseDivided
<1>5. g.lease \in Nat
  BY <1>2 DEF Grant
<1>6. renewing_timeout' = t2 - t1 /\ rebinding_timeout' = g.lease - t2
  BY <1>3, <1>4, <1>5 DEF Minus
<1>7. rx' \in Seq(Message)
  BY <1>1, QueueTyped DEF Enter
<1>8. /\ state' = "BOUND" /\ elapsed' = 0 /\ resend' = 0 /\ delay' = 0
      /\ pc' = "run" /\ doubt' = -1
  BY DEF Enter, RunFrame
<1>9. TimesTyped'
  <2>1. /\ left' \in Int /\ bound_timeout' \in 0 .. TimeBound
        /\ renewing_timeout' \in 0 .. TimeBound /\ rebinding_timeout' \in 0 .. TimeBound
    <3> HIDE DEF g
    <3> QED BY <1>3, <1>4, <1>5, <1>6
  <2>2. wake' \in Int /\ questioned' \in Nat /\ init_delay' \in Nat
    BY DEF TimesTyped, LeaseInv, RunFrame
  <2> QED BY <2>1, <2>2, <1>8 DEF TimesTyped, States
<1>10. WithinLease'
  <2>1. Own' = t1 /\ Rest' = (t2 - t1) + (g.lease - t2)
    BY <1>3, <1>6, <1>8 DEF Own, Rest
  <2>2. elapsed' <= Own' /\ Own' - elapsed' + Rest' <= left'
    <3> HIDE DEF g
    <3> QED BY <2>1, <1>3, <1>4, <1>5, <1>8
  <2> QED BY <2>2 DEF WithinLease
<1>11. WokenInTime' /\ WithinDeadline'
  BY <1>8 DEF WokenInTime, WithinDeadline
<1> QED BY <1>7, <1>9, <1>10, <1>11 DEF LeaseInv

(* A state without an address follows.                                      *)
LEMMA UnboundKeeps ==
  ASSUME LeaseInv, RunFrame, state' \in States \ BoundStates,
         elapsed' \in Nat, resend' \in Int, delay' \in Nat, wake' \in Int,
         NoLease \/ UNCHANGED lease, rx' \in Seq(Message)
  PROVE  LeaseInv'
<1> USE DiscoveryAssumption
<1>1. doubt' = -1 /\ state' \notin BoundStates
  BY DEF RunFrame, BoundStates, States
<1>2. TimesTyped'
  BY <1>1 DEF TimesTyped, LeaseInv, RunFrame, States, NoLease, lease, BoundStates
<1>3. WithinLease' /\ WokenInTime' /\ WithinDeadline'
  BY <1>1 DEF WithinLease, WokenInTime, WithinDeadline, dhclient_is_bound
<1> QED BY <1>2, <1>3 DEF LeaseInv

(* The next state of the same lease begins, when the current one is over.   *)
LEMMA NextStateKeeps ==
  ASSUME LeaseInv, RunFrame, UNCHANGED <<lease, wake>>, elapsed' = 0,
         resend' = 0, delay' = 0, rx' \in Seq(Message),
         \/ state = "BOUND" /\ timeout(bound_timeout) /\ state' = "RENEWING"
         \/ state = "RENEWING" /\ timeout(renewing_timeout) /\ state' = "REBINDING"
  PROVE  LeaseInv'
<1> USE DiscoveryAssumption
<1>1. pc' = "run" /\ doubt' = doubt /\ questioned' = questioned
  BY DEF RunFrame
<1>2. TimesTyped'
  BY <1>1 DEF TimesTyped, LeaseInv, RunFrame, States, lease
<1>3. elapsed = Own /\ Own' = Own' - elapsed' /\ Own' + Rest' = Rest
  BY <1>2 DEF LeaseInv, TimesTyped, WithinLease, Own, Rest, timeout, lease,
         dhclient_is_bound, BoundStates
<1>4. WithinLease'
  BY <1>2, <1>3 DEF LeaseInv, TimesTyped, WithinLease, Own, Rest, lease,
         dhclient_is_bound, BoundStates
<1>5. WithinDeadline'
  BY <1>1, <1>2, <1>3 DEF LeaseInv, TimesTyped, WithinDeadline, Own, Rest, lease
<1>6. WokenInTime'
  BY <1>1 DEF WokenInTime
<1> QED BY <1>2, <1>4, <1>5, <1>6 DEF LeaseInv

(* The client stays in its state, to be woken by its end.                   *)
LEMMA StayKeeps ==
  ASSUME LeaseInv, RunFrame, UNCHANGED <<state, elapsed, lease>>,
         resend' \in Int, delay' \in Nat, wake' \in Int, rx' \in Seq(Message),
         dhclient_is_bound => wake' <= Own - elapsed
  PROVE  LeaseInv'
<1>1. Own' = Own /\ Rest' = Rest /\ questioned' = questioned
  BY DEF Own, Rest, lease, RunFrame
<1>2. doubt' = doubt \/ doubt' = -1
  BY DEF RunFrame
<1>3. TimesTyped'
  BY <1>2 DEF TimesTyped, LeaseInv, RunFrame, lease
<1>4. WithinLease' /\ WokenInTime'
  BY <1>1 DEF WithinLease, WokenInTime, LeaseInv, dhclient_is_bound, lease
<1>5. WithinDeadline'
  BY <1>1, <1>2 DEF WithinDeadline, LeaseInv
<1> QED BY <1>3, <1>4, <1>5 DEF LeaseInv

(* What follows when no answer came is the next state of the lease, or none.*)
LEMMA RequestKeeps ==
  ASSUME TimesInOrder, LeaseInv, RunFrame, NEW secs \in Nat, NEW next,
         Request(secs, next),
         \/ state = "REQUESTING" /\ next = "INIT"
         \/ state = "RENEWING" /\ secs = renewing_timeout /\ next = "REBINDING"
         \/ state = "REBINDING" /\ secs = rebinding_timeout /\ next = "INIT"
  PROVE  LeaseInv'
<1>1. PICK k \in 0 .. Len(rx) :
        \/ /\ Granted(k)
           /\ Enter("BOUND", After(k)) /\ Bind(rx[k].grant) /\ UNCHANGED wake
        \/ Refused(k) /\ Enter("INIT", After(k)) /\ Unbind /\ UNCHANGED wake
        \/ /\ Unanswered(k) /\ timeout(secs)
           /\ Enter(next, After(k)) /\ UNCHANGED wake
           /\ IF next = "INIT" THEN Unbind ELSE Keep
        \/ /\ Unanswered(k) /\ ~timeout(secs)
           /\ \E s \in SendReliably :
                /\ delay' = s[1] /\ resend' = s[2]
                /\ Stay(After(k), Least(resend, Least(s[2], secs - elapsed)))
  BY DEF Request
<1>2. After(k) \in Seq(Message) /\ <<>> \in Seq(Message)
  BY QueueTyped DEF LeaseInv
<1>3. TimesTyped
  BY DEF LeaseInv
<1>4. CASE Granted(k) /\ Enter("BOUND", After(k)) /\ Bind(rx[k].grant) /\ UNCHANGED wake
  BY <1>4, GrantKeeps
<1>5. ASSUME Enter("INIT", After(k)), Unbind, UNCHANGED wake PROVE LeaseInv'
  <2>1. /\ state' \in States \ BoundStates /\ elapsed' \in Nat /\ resend' \in Int
        /\ delay' \in Nat /\ wake' \in Int /\ NoLease /\ rx' \in Seq(Message)
    BY <1>2, <1>3, <1>5 DEF Enter, Unbind, States, BoundStates, TimesTyped
  <2> QED BY <2>1, UnboundKeeps
<1>6. CASE /\ Unanswered(k) /\ timeout(secs) /\ Enter(next, After(k)) /\ UNCHANGED wake
           /\ next # "INIT" /\ Keep
  <2>1. state = "RENEWING" /\ timeout(renewing_timeout) /\ state' = "REBINDING"
    BY <1>6 DEF Enter
  <2>2. /\ elapsed' = 0 /\ resend' = 0 /\ delay' = 0 /\ rx' \in Seq(Message)
        /\ UNCHANGED <<lease, wake>>
    BY <1>2, <1>6 DEF Enter, Keep
  <2> QED BY <2>1, <2>2, NextStateKeeps
<1>7. ASSUME NEW s \in SendReliably, delay' = s[1], resend' = s[2],
             Stay(After(k), Least(resend, Least(s[2], secs - elapsed)))
      PROVE  LeaseInv'
  <2>1. s[1] \in Nat /\ s[2] \in Int
    BY <1>3, SendTyped
  <2>2. wake' \in Int /\ wake' <= secs - elapsed
    BY <1>3, <1>7, <2>1 DEF Stay, Least, TimesTyped
  <2>3. dhclient_is_bound => secs = Own
    BY DEF dhclient_is_bound, BoundStates, Own
  <2>4. UNCHANGED <<state, elapsed, lease>> /\ rx' \in Seq(Message)
    BY <1>2, <1>7 DEF Stay, Keep
  <2> QED BY <1>7, <2>1, <2>2, <2>3, <2>4, StayKeeps
<1> QED BY <1>1, <1>4, <1>5, <1>6, <1>7

(* One iteration of dhclient_run.                                           *)
LEMMA RunKeeps ==
  ASSUME TimesInOrder, LeaseInv, Run
  PROVE  LeaseInv'
<1> USE DhcpAssumption
<1>1. TimesTyped /\ rx \in Seq(Message)
  BY DEF LeaseInv
<1>2. init_delay' \in Nat
  <2>1. ASSUME RunINIT PROVE init_delay' \in Nat
    <3>1. \A y \in fuzz(2, 1) : y \in Nat
      BY FuzzIsNat
    <3> QED BY <1>1, <2>1, <3>1 DEF RunINIT, TimesTyped
  <2>2. ~RunINIT => init_delay' = init_delay
    BY DEF Run, dhclient_run, RunSELECTING, RunREQUESTING, RunBOUND, RunRENEWING,
           RunREBINDING, Request
  <2> QED BY <1>1, <2>1, <2>2 DEF TimesTyped
<1>3. RunFrame
  BY <1>2 DEF Run, RunFrame
<1>4. CASE RunINIT
  <2>1. CASE Enter("SELECTING", rx) /\ Keep /\ UNCHANGED wake
    <3>1. /\ state' \in States \ BoundStates /\ elapsed' \in Nat /\ resend' \in Int
          /\ delay' \in Nat /\ wake' \in Int /\ UNCHANGED lease /\ rx' \in Seq(Message)
      BY <1>1, <2>1 DEF Enter, Keep, States, BoundStates, TimesTyped
    <3> QED BY <1>3, <3>1, UnboundKeeps
  <2>2. CASE Stay(rx, init_delay' - elapsed) /\ UNCHANGED <<resend, delay>>
    <3>1. /\ state' \in States \ BoundStates /\ elapsed' \in Nat /\ resend' \in Int
          /\ delay' \in Nat /\ wake' \in Int /\ UNCHANGED lease /\ rx' \in Seq(Message)
      BY <1>1, <1>2, <1>4, <2>2 DEF Stay, Keep, States, BoundStates, TimesTyped, RunINIT
    <3> QED BY <1>3, <3>1, UnboundKeeps
  <2> QED BY <1>4, <2>1, <2>2 DEF RunINIT
<1>5. CASE RunSELECTING
  <2>1. PICK s \in SendReliably, k \in 0 .. Len(rx) :
          \/ Enter("REQUESTING", After(k)) /\ Keep /\ UNCHANGED wake
          \/ Enter("INIT", <<>>) /\ Keep /\ UNCHANGED wake
          \/ /\ Stay(<<>>, Least(resend, IF server_known
                                          THEN Least(s[2], ServerTimeout - elapsed)
                                          ELSE s[2]))
             /\ delay' = s[1] /\ resend' = s[2]
    BY <1>5 DEF RunSELECTING
  <2>2. s[1] \in Nat /\ s[2] \in Int
    BY <1>1, SendTyped
  <2>3. After(k) \in Seq(Message) /\ <<>> \in Seq(Message)
    BY <1>1, QueueTyped
  <2>4. UNCHANGED lease /\ rx' \in Seq(Message)
    BY <2>1, <2>3 DEF Enter, Stay, Keep
  <2>5. /\ state' \in States \ BoundStates /\ elapsed' \in Nat /\ resend' \in Int
        /\ delay' \in Nat /\ wake' \in Int
    BY <1>1, <1>5, <2>1, <2>2
       DEF Enter, Stay, States, BoundStates, TimesTyped, Least, RunSELECTING
  <2> QED BY <1>3, <2>4, <2>5, UnboundKeeps
<1>6. CASE RunREQUESTING
  BY <1>3, <1>6, RequestKeeps DEF RunREQUESTING
<1>7. CASE RunRENEWING
  <2>1. renewing_timeout \in Nat
    BY <1>1, DiscoveryAssumption DEF TimesTyped
  <2> QED BY <1>3, <1>7, <2>1, RequestKeeps DEF RunRENEWING
<1>8. CASE RunREBINDING
  <2>1. rebinding_timeout \in Nat
    BY <1>1, DiscoveryAssumption DEF TimesTyped
  <2> QED BY <1>3, <1>8, <2>1, RequestKeeps DEF RunREBINDING
<1>9. CASE RunBOUND
  <2>1. CASE timeout(bound_timeout) /\ Enter("RENEWING", rx) /\ Keep /\ UNCHANGED wake
    <3>1. /\ elapsed' = 0 /\ resend' = 0 /\ delay' = 0 /\ rx' \in Seq(Message)
          /\ UNCHANGED <<lease, wake>> /\ state' = "RENEWING" /\ state = "BOUND"
      BY <1>1, <1>9, <2>1 DEF Enter, Keep, RunBOUND
    <3> QED BY <1>3, <2>1, <3>1, NextStateKeeps
  <2>2. CASE Stay(rx, bound_timeout - elapsed) /\ UNCHANGED <<resend, delay>>
    <3>1. state = "BOUND" /\ Own = bound_timeout
      BY <1>9 DEF RunBOUND, Own
    <3>2. /\ UNCHANGED <<state, elapsed, lease>> /\ resend' \in Int /\ delay' \in Nat
          /\ rx' \in Seq(Message) /\ wake' \in Int /\ wake' <= Own - elapsed
      BY <1>1, <2>2, <3>1, DiscoveryAssumption DEF Stay, Keep, TimesTyped
    <3> QED BY <1>3, <3>2, StayKeeps
  <2> QED BY <1>9, <2>1, <2>2 DEF RunBOUND
<1> QED BY <1>4, <1>5, <1>6, <1>7, <1>8, <1>9 DEF Run, dhclient_run

-----------------------------------------------------------------------------
(* dhclient_force_renew: the deadline counts from the question, and never   *)
(* beyond the lease.  The interval between questions keeps a second one     *)
(* from starting the deadline again.                                        *)
LEMMA QuestionKeeps ==
  ASSUME LeaseInv, Question
  PROVE  LeaseInv'
<1> USE DiscoveryAssumption
<1>1. TimesTyped /\ rx \in Seq(Message) /\ <<>> \in Seq(Message)
  BY DEF LeaseInv
<1>2. pc' = "run" /\ questioned' = 0 /\ questioned > QuestionInterval
  BY DEF Question, Questions
<1>3. dhclient_is_bound => elapsed <= Own /\ Own - elapsed + Rest <= left
  BY DEF LeaseInv, WithinLease
<1>a. Own \in Nat /\ Rest \in Nat
  BY <1>1 DEF Own, Rest, TimesTyped
<1>4. doubt < 0
  <2> SUFFICES ASSUME doubt >= 0 PROVE FALSE
    BY <1>1 DEF TimesTyped
  <2>1. /\ state \in {"RENEWING", "REBINDING"} /\ questioned = doubt
        /\ Own - elapsed + Rest + doubt <= RenewDeadline
    BY DEF LeaseInv, WithinDeadline
  <2>2. elapsed <= Own
    BY <2>1, <1>3 DEF dhclient_is_bound, BoundStates
  <2> QED BY <1>1, <1>2, <1>a, <2>1, <2>2 DEF TimesTyped
<1>5. WokenInTime'
  BY <1>2 DEF WokenInTime
<1>6. CASE ~dhclient_is_bound
  <2>1. /\ UNCHANGED <<state, elapsed, resend, delay, lease, wake, init_delay>>
        /\ rx' \in Seq(Message) /\ doubt' = doubt
    BY <1>1, <1>4, <1>6 DEF Question, dhclient_force_renew, client, timers
  <2>2. TimesTyped'
    BY <1>1, <1>2, <2>1 DEF TimesTyped, lease
  <2>3. WithinLease' /\ WithinDeadline'
    BY <1>1, <1>4, <1>6, <2>1
       DEF WithinLease, WithinDeadline, dhclient_is_bound, TimesTyped
  <2> QED BY <1>5, <2>1, <2>2, <2>3 DEF LeaseInv
<1>7. CASE dhclient_is_bound
  <2>1. /\ do_force_renew(RenewDeadline) /\ doubt' = 0
        /\ wake' = wake /\ init_delay' = init_delay
    BY <1>4, <1>7 DEF Question, dhclient_force_renew, dhclient_is_bound, BoundStates
  <2> DEFINE lease_left == Most(0, left)
             until == Least(RenewDeadline, lease_left)
  <2>2. lease_left \in Nat /\ lease_left = left
    BY <1>1, <1>3, <1>7, <1>a DEF Most, TimesTyped
  <2>3. until \in Nat /\ until <= left /\ until <= RenewDeadline
    BY <2>2 DEF Least
  <2>4. CASE /\ lease_left <= RenewDeadline /\ state \in {"RENEWING", "REBINDING"}
             /\ rx' = <<>> /\ UNCHANGED <<state, elapsed, resend, delay, lease>>
    <3>1. Own' = Own /\ Rest' = Rest
      BY <2>4 DEF Own, Rest, lease
    <3>2. TimesTyped'
      BY <1>1, <1>2, <2>1, <2>4 DEF TimesTyped, lease
    <3>3. WithinLease'
      BY <1>3, <2>4, <3>1 DEF WithinLease, dhclient_is_bound, lease
    <3>4. WithinDeadline'
      BY <1>1, <1>2, <1>3, <1>7, <1>a, <2>1, <2>2, <2>4, <3>1 DEF WithinDeadline, TimesTyped
    <3> QED BY <1>1, <1>5, <2>4, <3>2, <3>3, <3>4 DEF LeaseInv
  <2>5. CASE /\ Enter("RENEWING", <<>>)
             /\ renewing_timeout' = (until * 3) \div 4 /\ rebinding_timeout' = until \div 4
             /\ UNCHANGED <<left, bound_timeout>>
    <3> HIDE DEF until, lease_left
    <3>1. /\ (until * 3) \div 4 \in Nat /\ until \div 4 \in Nat
          /\ (until * 3) \div 4 + until \div 4 <= until
      BY <2>3
    <3>2. /\ renewing_timeout' \in 0 .. TimeBound /\ rebinding_timeout' \in 0 .. TimeBound
          /\ renewing_timeout' + rebinding_timeout' <= until
      BY <2>3, <2>5, <3>1
    <3>3. /\ state' = "RENEWING" /\ elapsed' = 0 /\ resend' = 0 /\ delay' = 0
          /\ rx' = <<>> /\ left' = left
      BY <2>5 DEF Enter
    <3>4. TimesTyped'
      BY <1>1, <1>2, <2>1, <2>5, <3>2, <3>3 DEF TimesTyped, States
    <3>5. Own' = renewing_timeout' /\ Rest' = rebinding_timeout'
      BY <3>3 DEF Own, Rest
    <3>a. elapsed' <= Own' /\ Own' - elapsed' + Rest' <= until /\ Own' - elapsed' + Rest' \in Int
      <4>1. renewing_timeout' \in Nat /\ rebinding_timeout' \in Nat
        BY <3>2
      <4>2. /\ elapsed' = 0 /\ Own' = renewing_timeout' /\ Rest' = rebinding_timeout'
            /\ renewing_timeout' + rebinding_timeout' <= until
        BY <3>2, <3>3, <3>5
      <4> QED BY <4>1, <4>2
    <3>b. until <= left' /\ left' \in Int
      BY <1>1, <2>3, <3>3 DEF TimesTyped
    <3>6. WithinLease' /\ WithinDeadline'
      BY <1>2, <2>1, <2>3, <3>3, <3>a, <3>b DEF WithinLease, WithinDeadline
    <3> QED BY <1>1, <1>5, <3>3, <3>4, <3>6 DEF LeaseInv
  <2>6. CASE /\ Enter("REBINDING", <<>>) /\ rebinding_timeout' = until
             /\ UNCHANGED <<left, bound_timeout, renewing_timeout>>
    <3> HIDE DEF until, lease_left
    <3>1. /\ state' = "REBINDING" /\ elapsed' = 0 /\ resend' = 0 /\ delay' = 0
          /\ rx' = <<>> /\ left' = left
      BY <2>6 DEF Enter
    <3>2. rebinding_timeout' \in 0 .. TimeBound /\ rebinding_timeout' <= until
      BY <2>3, <2>6
    <3>3. TimesTyped'
      BY <1>1, <1>2, <2>1, <2>6, <3>1, <3>2 DEF TimesTyped, States
    <3>4. Own' = rebinding_timeout' /\ Rest' = 0
      BY <3>1 DEF Own, Rest
    <3>a. elapsed' <= Own' /\ Own' - elapsed' + Rest' <= until /\ Own' - elapsed' + Rest' \in Int
      <4>1. rebinding_timeout' \in Nat
        BY <3>2
      <4>2. elapsed' = 0 /\ Own' = rebinding_timeout' /\ Rest' = 0 /\ rebinding_timeout' <= until
        BY <3>1, <3>2, <3>4
      <4> QED BY <4>1, <4>2
    <3>b. until <= left' /\ left' \in Int
      BY <1>1, <2>3, <3>1 DEF TimesTyped
    <3>5. WithinLease' /\ WithinDeadline'
      BY <1>2, <2>1, <2>3, <3>1, <3>a, <3>b DEF WithinLease, WithinDeadline
    <3> QED BY <1>1, <1>5, <3>1, <3>3, <3>5 DEF LeaseInv
  <2> QED BY <2>1, <2>4, <2>5, <2>6 DEF do_force_renew
<1> QED BY <1>6, <1>7

(* A second passes only while the timeout of the state is not over.         *)
LEMMA TickKeeps ==
  ASSUME LeaseInv, Tick
  PROVE  LeaseInv'
<1> USE DiscoveryAssumption
<1>1. TimesTyped /\ rx \in Seq(Message)
  BY DEF LeaseInv
<1>2. /\ state' = state /\ bound_timeout' = bound_timeout
      /\ renewing_timeout' = renewing_timeout /\ rebinding_timeout' = rebinding_timeout
      /\ pc = "poll" /\ pc' = pc /\ rx' = rx /\ delay' = delay /\ init_delay' = init_delay
  BY DEF Tick, Passes
<1>3. Own' = Own /\ Rest' = Rest /\ Own \in 0 .. TimeBound /\ Rest \in Nat
  BY <1>1, <1>2 DEF Own, Rest, TimesTyped
<1>4. TimesTyped'
  <2>1. elapsed' \in Nat /\ resend' \in Int /\ wake' \in Int /\ left' \in Int
    BY <1>1 DEF Tick, Passes, TimesTyped, Least, Most
  <2>2. questioned' \in Nat /\ doubt' \in Int
    BY <1>1 DEF Tick, TimesTyped, Least
  <2> QED BY <1>1, <1>2, <2>1, <2>2 DEF TimesTyped
<1>5. ASSUME dhclient_is_bound
      PROVE  /\ elapsed' = elapsed + 1 /\ elapsed' <= Own /\ Own - elapsed' + Rest <= left'
             /\ wake' <= Own - elapsed'
  <2>1. state # "NONE" /\ wake > 0
    BY <1>1, <1>5 DEF Tick, Woken, dhclient_is_bound, BoundStates, TimesTyped
  <2>2. elapsed < Own /\ wake <= Own - elapsed
    BY <1>1, <1>2, <1>3, <1>5, <2>1 DEF LeaseInv, WokenInTime, TimesTyped
  <2>3. elapsed' = elapsed + 1
    BY <1>1, <1>3, <2>1, <2>2 DEF Tick, Passes, Least, TimesTyped
  <2>4. wake' = wake - 1
    BY <1>1, <2>1 DEF Tick, Passes, Most, TimesTyped
  <2>5. left' >= left - 1
    BY <1>1, <1>5 DEF Tick, Passes, Most, TimesTyped
  <2>6. Own - elapsed + Rest <= left
    BY <1>5 DEF LeaseInv, WithinLease
  <2> QED BY <1>1, <1>3, <1>4, <2>2, <2>3, <2>4, <2>5, <2>6 DEF TimesTyped
<1>6. WithinLease' /\ WokenInTime'
  BY <1>2, <1>3, <1>5 DEF WithinLease, WokenInTime, dhclient_is_bound
<1>7. WithinDeadline'
  <2> SUFFICES ASSUME doubt' >= 0 PROVE WithinDeadline'
    BY DEF WithinDeadline
  <2>1. doubt >= 0
    BY <1>1 DEF Tick, TimesTyped
  <2>2. /\ state \in {"RENEWING", "REBINDING"} /\ questioned = doubt
        /\ Own - elapsed + Rest + doubt <= RenewDeadline
    BY <2>1 DEF LeaseInv, WithinDeadline
  <2>3. dhclient_is_bound
    BY <2>2 DEF dhclient_is_bound, BoundStates
  <2>4. doubt + 1 <= RenewDeadline
    BY <1>1, <1>3, <1>5, <2>2, <2>3 DEF TimesTyped
  <2>5. doubt' = doubt + 1 /\ questioned' = doubt + 1
    BY <1>1, <2>1, <2>2, <2>4 DEF Tick, Least, TimesTyped
  <2> QED BY <1>1, <1>2, <1>3, <1>5, <2>2, <2>3, <2>5 DEF WithinDeadline, TimesTyped
<1> QED BY <1>1, <1>2, <1>4, <1>6, <1>7 DEF LeaseInv

(* Every step keeps the invariant.                                          *)
LEMMA LeaseInvStep ==
  ASSUME TimesInOrder, LeaseInv, [Next]_vars
  PROVE  LeaseInv'
<1> USE DiscoveryAssumption
<1>1. ASSUME UNCHANGED <<state, timers, init_delay, lease, questioned, doubt>>,
             rx' \in Seq(Message), pc' = "poll" => pc \in {"poll", "report"} \/ state = "NONE",
             pc' = "report" => pc = "report"
      PROVE  LeaseInv'
  <2>1. Own' = Own /\ Rest' = Rest
    BY <1>1 DEF Own, Rest, lease
  <2>2. TimesTyped'
    BY <1>1 DEF LeaseInv, TimesTyped, timers, lease
  <2>3. WithinLease' /\ WokenInTime' /\ WithinDeadline'
    BY <1>1, <2>1 DEF LeaseInv, WithinLease, WokenInTime, WithinDeadline, timers, lease,
       dhclient_is_bound, BoundStates
  <2> QED BY <1>1, <2>2, <2>3 DEF LeaseInv
<1>2. rx \in Seq(Message)
  BY DEF LeaseInv
<1>3. CASE Wake
  BY <1>1, <1>2, <1>3 DEF Wake, client
<1>4. CASE LocalPort
  <2>1. /\ state' \in {"INIT", "NONE"} /\ elapsed' = 0 /\ resend' = 0 /\ delay' = 0
        /\ wake' = 0 /\ init_delay' = 0 /\ NoLease /\ rx' = <<>> /\ doubt' = -1
        /\ questioned' = questioned
    BY <1>4 DEF LocalPort, dhclient_destroy, dhclient_init, Enter
  <2>2. TimesTyped'
    BY <2>1 DEF LeaseInv, TimesTyped, NoLease, States
  <2>3. WithinLease' /\ WokenInTime' /\ WithinDeadline'
    BY <2>1 DEF WithinLease, WokenInTime, WithinDeadline, dhclient_is_bound, BoundStates
  <2> QED BY <2>1, <2>2, <2>3 DEF LeaseInv
<1>5. CASE Report
  BY <1>1, <1>2, <1>5 DEF Report
<1>6. CASE Settle
  BY <1>1, <1>2, <1>6 DEF Settle, client
<1>7. ASSUME NEW m \in Message, Arrives(m) PROVE LeaseInv'
  <2>1. rx' \in Seq(Message)
    BY <1>2, <1>7 DEF Arrives
  <2> QED BY <1>1, <1>7, <2>1 DEF Arrives, main
<1>8. CASE UNCHANGED vars
  BY <1>1, <1>2, <1>8 DEF vars, client, main
<1> QED BY <1>3, <1>4, <1>5, <1>6, <1>7, <1>8, RunKeeps, QuestionKeeps, TickKeeps
       DEF Next, MainLoop

(* The invariant, for servers whose times are in order.                     *)
LEMMA LeaseInvHolds == TimesInOrder => (Spec => []LeaseInv)
<1> SUFFICES ASSUME TimesInOrder PROVE Spec => []LeaseInv
  OBVIOUS
<1>1. Init => LeaseInv
  BY DiscoveryAssumption DEF Init, LeaseInv, TimesTyped, WithinLease, WokenInTime,
     WithinDeadline, dhclient_is_bound, BoundStates
<1>2. LeaseInv /\ [Next]_vars => LeaseInv'
  BY LeaseInvStep
<1> QED BY <1>1, <1>2, PTL DEF Spec

(* An address is not used after its lease, for leases and timeouts of any   *)
(* length: fuzzing, forced renewals and the wake-ups of dhclient_wait never *)
(* make the three timeouts add up to more than the lease.  Servers that     *)
(* send T2 alone and early are left out: they do break it.                  *)
THEOREM LeaseNeverOutlived == TimesInOrder => (Spec => []LeaseKept)
<1>1. LeaseInv => LeaseKept
  BY DiscoveryAssumption DEF LeaseInv, LeaseKept, WithinLease, TimesTyped, Own, Rest
<1> QED BY <1>1, LeaseInvHolds, PTL

(* A binding that is questioned is confirmed or given up by the deadline of *)
(* dhclient_force_renew, for any deadline that the interval of              *)
(* question_connectivity covers.                                            *)
THEOREM QuestionedLeaseEnds == TimesInOrder => (Spec => []GivesUpInTime)
<1>1. LeaseInv => GivesUpInTime
  BY DiscoveryAssumption DEF LeaseInv, GivesUpInTime, WithinLease, WithinDeadline,
     TimesTyped, Own, Rest, dhclient_is_bound, BoundStates
<1> QED BY <1>1, LeaseInvHolds, PTL

-----------------------------------------------------------------------------
(* What main was told is out of date only while changed says so, or while   *)
(* there is no client at all: then discovery_run reports it, before the     *)
(* loop sleeps again.                                                       *)
UpToDate == target = binding.controller /\ address \in {binding.yiaddr, Unset}

FollowInv ==
  /\ ~dhclient_is_bound => binding = None
  /\ state # "NONE" /\ ~changed => UpToDate
  /\ pc = "poll" => ~changed /\ target = binding.controller

(* state_transition inside a lease, or outside of one.                      *)
LEMMA KeepFollows ==
  ASSUME FollowInv, UNCHANGED <<binding, changed, target, address>>,
         state # "NONE", dhclient_is_bound' <=> dhclient_is_bound, pc' # "poll"
  PROVE  FollowInv'
BY DEF FollowInv, UpToDate

(* state_transition out of a lease sets changed.                            *)
LEMMA UnbindFollows ==
  ASSUME FollowInv, state # "NONE", state' = "INIT", Unbind, UNCHANGED <<target, address>>,
         pc' # "poll"
  PROVE  FollowInv'
BY DEF FollowInv, UpToDate, Unbind, dhclient_is_bound, BoundStates

(* An acknowledgement sets changed unless it has the address and the        *)
(* controller of the lease it renews.                                       *)
LEMMA BindFollows ==
  ASSUME FollowInv, NEW g, state # "NONE", state' = "BOUND", Bind(g),
         UNCHANGED <<target, address>>, pc' # "poll"
  PROVE  FollowInv'
BY DEF FollowInv, UpToDate, Bind, same_binding, dhclient_is_bound, BoundStates

(* REQUESTING, RENEWING and REBINDING.                                      *)
LEMMA RequestFollows ==
  ASSUME FollowInv, NEW secs, NEW next, Request(secs, next), state # "NONE",
         UNCHANGED <<target, address>>, pc' # "poll",
         next = "INIT" \/ (state = "RENEWING" /\ next = "REBINDING")
  PROVE  FollowInv'
<1>1. PICK k \in 0 .. Len(rx) :
        \/ state' = "BOUND" /\ Bind(rx[k].grant)
        \/ state' = "INIT" /\ Unbind
        \/ state' = next /\ IF next = "INIT" THEN Unbind ELSE Keep
        \/ state' = state /\ Keep
  BY DEF Request, Enter, Stay
<1>2. CASE state' = "BOUND" /\ Bind(rx[k].grant)
  BY <1>2, BindFollows
<1>3. CASE state' = "INIT" /\ Unbind
  BY <1>3, UnbindFollows
<1>4. CASE state = "RENEWING" /\ state' = "REBINDING" /\ Keep
  BY <1>4, KeepFollows DEF Keep, dhclient_is_bound, BoundStates
<1>5. CASE state' = state /\ Keep
  BY <1>5, KeepFollows DEF Keep, dhclient_is_bound
<1> QED BY <1>1, <1>2, <1>3, <1>4, <1>5

(* One iteration of dhclient_run.                                           *)
LEMMA RunFollows ==
  ASSUME FollowInv, Run
  PROVE  FollowInv'
<1>1. UNCHANGED <<target, address>> /\ pc' # "poll"
  BY DEF Run
<1>2. CASE RunINIT \/ RunSELECTING \/ RunBOUND
  <2>1. /\ state # "NONE" /\ Keep
        /\ dhclient_is_bound' <=> dhclient_is_bound
    BY <1>2 DEF RunINIT, RunSELECTING, RunBOUND, Enter, Stay, dhclient_is_bound, BoundStates
  <2> QED BY <1>1, <2>1, KeepFollows DEF Keep
<1>3. CASE RunREQUESTING
  BY <1>1, <1>3, RequestFollows DEF RunREQUESTING
<1>4. CASE RunRENEWING
  BY <1>1, <1>4, RequestFollows DEF RunRENEWING
<1>5. CASE RunREBINDING
  BY <1>1, <1>5, RequestFollows DEF RunREBINDING
<1> QED BY <1>2, <1>3, <1>4, <1>5 DEF Run, dhclient_run

(* Every step keeps the invariant.                                          *)
LEMMA FollowInvStep ==
  ASSUME FollowInv, [Next]_vars
  PROVE  FollowInv'
<1>1. CASE UNCHANGED vars \/ Wake \/ Settle \/ Tick \/ \E m \in Message : Arrives(m)
  <2>1. UNCHANGED <<state, binding, changed, target, address>> /\ (pc' = "poll" => pc = "poll")
    BY <1>1 DEF vars, client, main, Wake, Settle, Tick, Passes, Arrives
  <2> QED BY <2>1 DEF FollowInv, UpToDate, dhclient_is_bound
<1>2. CASE Question
  <2>1. UNCHANGED <<binding, changed, target, address>> /\ pc' # "poll"
    BY <1>2 DEF Question, dhclient_force_renew, client
  <2>2. (state' = "NONE" <=> state = "NONE") /\ (dhclient_is_bound' <=> dhclient_is_bound)
    BY <1>2 DEF Question, dhclient_force_renew, do_force_renew, Enter, client,
       dhclient_is_bound, BoundStates
  <2> QED BY <2>1, <2>2 DEF FollowInv, UpToDate
<1>3. CASE LocalPort
  BY <1>3 DEF LocalPort, dhclient_destroy, dhclient_init, Enter, FollowInv, UpToDate
<1>4. CASE Report
  <2>1. UNCHANGED <<state, binding>> /\ pc' = "poll"
    BY <1>4 DEF Report
  <2>2. CASE Reported
    BY <1>4, <2>1, <2>2 DEF Report, Reported, SetAddress, FollowInv, UpToDate, dhclient_is_bound
  <2>3. CASE ~Reported
    BY <1>4, <2>1, <2>3 DEF Report, Reported, FollowInv, UpToDate, dhclient_is_bound
  <2> QED BY <2>2, <2>3
<1> QED BY <1>1, <1>2, <1>3, <1>4, RunFollows DEF Next, MainLoop

(* Whenever the main loop sleeps, the rconn has the controller of the       *)
(* current lease and the network device its address, and neither without a  *)
(* lease: whatever servers answer, in whichever order leases are renewed,   *)
(* replaced, lost or questioned and the local port comes and goes.  The     *)
(* address of a device that refused it is the one exception.                *)
THEOREM LeaseIsFollowed == Spec => []FollowsLease
<1>1. Init => FollowInv
  BY DEF Init, FollowInv, None
<1>2. FollowInv /\ [Next]_vars => FollowInv'
  BY FollowInvStep
<1>3. FollowInv => FollowsLease
  BY DEF FollowInv, FollowsLease, UpToDate, None, dhclient_is_bound, BoundStates
<1> QED BY <1>1, <1>2, <1>3, PTL DEF Spec

=============================================================================
