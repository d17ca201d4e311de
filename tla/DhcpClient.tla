----------------------------- MODULE DhcpClient -----------------------------
(***************************************************************************)
(* dhcp-client.c: the client with which ofprotocol looks for a controller. *)
(* It asks for an address, renews the lease in time and gives it up when   *)
(* no server renews it.                                                    *)
(*                                                                         *)
(* Every iteration of the loop in dhclient_run is a step.  Points in time  *)
(* are kept relative to now, in seconds.  The transaction id never         *)
(* changes, so that a late or repeated answer counts as a new one.         *)
(***************************************************************************)
EXTENDS Integers, Sequences, FiniteSets

CONSTANTS
  MIN_ACCEPTABLE_LEASE,
  LongLease,        \* calc_t1, calc_t2: longer leases are fuzzed (60)
  LeaseFuzz,        \* ... by that much (10)
  ServerTimeout,    \* give up on a server (60)
  MinDelay,         \* first delay between two sends (4)
  max_timeout,      \* largest delay between two sends
  UINT_MAX,
  Grants,           \* what servers offer and acknowledge
  AcceptedControllers   \* those the regular expression accepts

(* An offered address with its lease and its options.  T1 and T2 are 0 when *)
(* the message lacks them.                                                  *)
Grant == [yiaddr : Nat, controller : Nat, lease : Nat, t1 : Nat, t2 : Nat]
None == [yiaddr |-> 0, controller |-> 0, lease |-> 0, t1 |-> 0, t2 |-> 0]

ASSUME DhcpAssumption ==
  /\ MIN_ACCEPTABLE_LEASE \in Nat /\ MIN_ACCEPTABLE_LEASE >= 2
  /\ LongLease \in Nat /\ LeaseFuzz \in Nat /\ LeaseFuzz < (LongLease * 7) \div 8
  /\ ServerTimeout \in Nat /\ MinDelay \in Nat /\ max_timeout \in Nat
  /\ UINT_MAX \in Nat /\ max_timeout >= 2
  /\ Grants \subseteq Grant
  /\ \A g \in Grants : g.lease <= UINT_MAX

Message == [type : {"OFFER", "ACK"}, grant : Grants] \cup [type : {"NAK"}, grant : {None}]

VARIABLES
  state,          \* "NONE" when there is no client
  elapsed,        \* now - state_entered
  resend,         \* state_entered + retransmit - now
  delay,
  init_delay,
  wake,           \* state_entered + min_timeout - now
  server_known,   \* server_ip # 0
  left,           \* lease_expiration - now, -1 once it is over
  bound_timeout, renewing_timeout, rebinding_timeout,
  binding,        \* the acknowledgement the address comes from, or None
  changed,
  rx              \* what the network device has received

timers == <<elapsed, resend, delay, wake>>
lease  == <<left, bound_timeout, renewing_timeout, rebinding_timeout>>
client == <<state, timers, init_delay, server_known, lease, binding, changed, rx>>

States == {"INIT", "SELECTING", "REQUESTING", "BOUND", "RENEWING", "REBINDING"}
BoundStates == {"BOUND", "RENEWING", "REBINDING"}
dhclient_is_bound == state \in BoundStates

-----------------------------------------------------------------------------
Least(a, b) == IF a <= b THEN a ELSE b
Most(a, b) == IF a >= b THEN a ELSE b

(* Subtraction of unsigned int.                                             *)
Minus(a, b) == IF a >= b THEN a - b ELSE UINT_MAX + 1 + a - b

(* The values of fuzz(x, max_fuzz).                                         *)
fuzz(x, max_fuzz) == {Most(0, x + f) : f \in -max_fuzz .. max_fuzz}

(* clamp(y, 0, max).                                                        *)
clamp(y, max) == Least(y, max)

calc_t2(time) ==
  LET base == (time * 7) \div 8 IN
  IF time >= LongLease THEN {clamp(y, time - 1) : y \in fuzz(base, LeaseFuzz)} ELSE {base}

calc_t1(time, t2) ==
  LET base == time \div 2 IN
  IF time >= LongLease THEN {clamp(y, t2 - 1) : y \in fuzz(base, LeaseFuzz)} ELSE {base}

(* The values of t2 and t1 that receive_ack goes on with.                   *)
T2(g) == IF g.t2 = 0 \/ g.t2 >= g.lease THEN calc_t2(g.lease) ELSE {g.t2}
T1(g, t2) == IF g.t1 = 0 \/ g.t1 >= t2 THEN calc_t1(g.lease, t2) ELSE {g.t1}

validate_offered_options(g) ==
  g.lease >= MIN_ACCEPTABLE_LEASE /\ g.controller \in AcceptedControllers

(* The address and the options a user of the lease depends on.              *)
same_binding(old, new) ==
  old.yiaddr = new.yiaddr /\ old.controller = new.controller

-----------------------------------------------------------------------------
timeout(secs) == elapsed >= secs

(* state_transition to s, with q left of the receive queue.  What happens   *)
(* to the binding is in Keep, Unbind and Bind.                              *)
Enter(s, q) ==
  /\ state' = s
  /\ elapsed' = 0 /\ resend' = 0 /\ delay' = 0
  /\ rx' = IF s \in {"SELECTING", "REQUESTING"} THEN <<>> ELSE q

Keep == UNCHANGED <<lease, binding, changed>>

NoLease == left' = 0 /\ bound_timeout' = 0 /\ renewing_timeout' = 0 /\ rebinding_timeout' = 0

(* MUTANT of Unbind: changed is only set when an address is obtained.       *)
MutUnbind == binding' = None /\ NoLease /\ UNCHANGED changed

(* The part of state_transition for a client that was bound or was not.     *)
(* The times of the lease are not read before the next one sets them; they  *)
(* are 0 meanwhile.                                                         *)
Unbind ==
  /\ binding' = None
  /\ changed' = (changed \/ dhclient_is_bound)
  /\ NoLease

Bind(g) ==
  /\ binding' = g
  /\ changed' = (changed \/ ~dhclient_is_bound \/ ~same_binding(binding, g))
  /\ \E t2 \in T2(g) : \E t1 \in T1(g, t2) :
       /\ left' = g.lease
       /\ bound_timeout' = t1
       /\ renewing_timeout' = Minus(t2, t1)
       /\ rebinding_timeout' = Minus(g.lease, t2)

(* The client stays in its state until "next", or until a message arrives.  *)
Stay(q, next) ==
  /\ rx' = q /\ wake' = next
  /\ UNCHANGED <<state, elapsed>>
  /\ Keep

(* MUTANT of SendReliably: sends once.                                      *)
MutSendReliably ==
  IF delay > 0 THEN {<<delay, resend>>} ELSE {<<MinDelay, f>> : f \in fuzz(MinDelay, 1)}

(* send_reliably, as pairs of delay and resend.  After a message was sent   *)
(* the poll loop is woken at once: min_timeout still has the old time.      *)
SendReliably ==
  IF resend > 0 THEN {<<delay, resend>>}
  ELSE LET d == Least(max_timeout, Most(MinDelay, delay * 2)) IN
       {<<d, resend + f>> : f \in fuzz(d, 1)}

(* dhcp_receive takes the message at k, the first one that is wanted, and   *)
(* drops those before it; 0 when no message is wanted.                      *)
Takes(k, Wanted(_)) ==
  /\ \A j \in 1 .. Len(rx) : (k = 0 \/ j < k) => ~Wanted(rx[j])
  /\ k # 0 => Wanted(rx[k])

After(k) == IF k = 0 THEN <<>> ELSE SubSeq(rx, k + 1, Len(rx))

-----------------------------------------------------------------------------
(* do_init.                                                                 *)
RunINIT ==
  /\ state = "INIT"
  /\ init_delay' \in IF init_delay = 0 THEN fuzz(2, 1) ELSE {init_delay}
  /\ \/ timeout(init_delay') /\ Enter("SELECTING", rx) /\ Keep /\ UNCHANGED wake
     \/ /\ ~timeout(init_delay') /\ Stay(rx, init_delay' - elapsed)
        /\ UNCHANGED <<resend, delay>>
  /\ UNCHANGED server_known

Offered(m) == m.type = "OFFER" /\ validate_offered_options(m.grant)

(* The server timeout does not keep the client from taking an offer that    *)
(* has arrived.                                                             *)
RunSELECTING ==
  /\ state = "SELECTING"
  /\ LET late == server_known /\ timeout(ServerTimeout) IN
     \E s \in SendReliably, k \in 0 .. Len(rx) :
        /\ Takes(k, Offered)
        /\ \/ /\ k # 0
              /\ Enter("REQUESTING", After(k)) /\ server_known' = TRUE
              /\ Keep /\ UNCHANGED wake
           \/ /\ k = 0 /\ late
              /\ Enter("INIT", <<>>) /\ server_known' = FALSE
              /\ Keep /\ UNCHANGED wake
           \/ /\ k = 0 /\ ~late
              /\ Stay(<<>>, Least(resend, IF server_known
                                          THEN Least(s[2], ServerTimeout - elapsed)
                                          ELSE s[2]))
              /\ delay' = s[1] /\ resend' = s[2] /\ UNCHANGED server_known
  /\ UNCHANGED init_delay

Answer(m) == m.type \in {"ACK", "NAK"}

Granted(k) == k # 0 /\ rx[k].type = "ACK" /\ validate_offered_options(rx[k].grant)
Refused(k) == k # 0 /\ rx[k].type = "NAK"
Unanswered(k) == ~Granted(k) /\ ~Refused(k)

(* REQUESTING, RENEWING and REBINDING: send_reliably, then receive_ack,     *)
(* then the state that follows when "secs" have passed.                     *)
Request(secs, next) ==
  /\ \E k \in 0 .. Len(rx) :
       /\ Takes(k, Answer)
       /\ \/ /\ Granted(k)
             /\ Enter("BOUND", After(k)) /\ Bind(rx[k].grant) /\ UNCHANGED wake
          \/ Refused(k) /\ Enter("INIT", After(k)) /\ Unbind /\ UNCHANGED wake
          \/ /\ Unanswered(k) /\ timeout(secs)
             /\ Enter(next, After(k)) /\ UNCHANGED wake
             /\ IF next = "INIT" THEN Unbind ELSE Keep
          \/ /\ Unanswered(k) /\ ~timeout(secs)
             /\ \E s \in SendReliably :
                  /\ delay' = s[1] /\ resend' = s[2]
                  /\ Stay(After(k), Least(resend, Least(s[2], secs - elapsed)))
  /\ UNCHANGED <<init_delay, server_known>>

RunREQUESTING == state = "REQUESTING" /\ Request(ServerTimeout, "INIT")
RunRENEWING   == state = "RENEWING" /\ Request(renewing_timeout, "REBINDING")
RunREBINDING  == state = "REBINDING" /\ Request(rebinding_timeout, "INIT")

RunBOUND ==
  /\ state = "BOUND"
  /\ \/ timeout(bound_timeout) /\ Enter("RENEWING", rx) /\ Keep /\ UNCHANGED wake
     \/ /\ ~timeout(bound_timeout) /\ Stay(rx, bound_timeout - elapsed)
        /\ UNCHANGED <<resend, delay>>
  /\ UNCHANGED <<init_delay, server_known>>

(* One iteration of dhclient_run.                                           *)
dhclient_run ==
  RunINIT \/ RunSELECTING \/ RunREQUESTING \/ RunBOUND \/ RunRENEWING \/ RunREBINDING

-----------------------------------------------------------------------------
(* dhclient_create and dhclient_init without a requested address.           *)
dhclient_init ==
  /\ Enter("INIT", <<>>)
  /\ wake' = 0 /\ init_delay' = 0 /\ server_known' = FALSE
  /\ NoLease /\ binding' = None /\ changed' = TRUE

dhclient_destroy ==
  /\ state' = "NONE" /\ elapsed' = 0 /\ resend' = 0 /\ delay' = 0 /\ rx' = <<>>
  /\ wake' = 0 /\ init_delay' = 0 /\ server_known' = FALSE
  /\ NoLease /\ binding' = None /\ changed' = FALSE

(* MUTANT of do_force_renew: takes the deadline for the lease.              *)
MutForceRenew(deadline) ==
  /\ Enter("RENEWING", <<>>)
  /\ renewing_timeout' = (deadline * 3) \div 4 /\ rebinding_timeout' = deadline \div 4
  /\ UNCHANGED <<left, bound_timeout>>

do_force_renew(deadline) ==
  LET lease_left == Most(0, left)
      until == Least(deadline, lease_left)
  IN  \/ /\ lease_left <= deadline /\ state \in {"RENEWING", "REBINDING"}
         /\ rx' = <<>> /\ UNCHANGED <<state, elapsed, resend, delay, lease>>
      \/ /\ state = "BOUND" \/ (state = "RENEWING" /\ lease_left > deadline)
         /\ Enter("RENEWING", <<>>)
         /\ renewing_timeout' = (until * 3) \div 4 /\ rebinding_timeout' = until \div 4
         /\ UNCHANGED <<left, bound_timeout>>
      \/ /\ state = "REBINDING" /\ lease_left > deadline
         /\ Enter("REBINDING", <<>>)
         /\ rebinding_timeout' = until
         /\ UNCHANGED <<left, bound_timeout, renewing_timeout>>

(* The receive queue is drained in any state.                               *)
dhclient_force_renew(deadline) ==
  /\ \/ dhclient_is_bound /\ do_force_renew(deadline)
     \/ /\ ~dhclient_is_bound
        /\ rx' = <<>> /\ UNCHANGED <<state, elapsed, resend, delay, lease>>
  /\ UNCHANGED <<wake, init_delay, server_known, binding, changed>>

(* dhclient_wait: a second may pass only when nothing wakes the poll loop.  *)
Woken ==
  \/ state # "NONE" /\ wake <= 0
  \/ rx # <<>> /\ state \in {"SELECTING", "REQUESTING", "RENEWING", "REBINDING"}

(* A second passes; elapsed is told apart up to cap.                        *)
Passes(cap) ==
  /\ elapsed' = IF state = "NONE" THEN 0 ELSE Least(elapsed + 1, cap)
  /\ resend' = Most(resend - 1, 0) /\ wake' = Most(wake - 1, 0)
  /\ left' = IF dhclient_is_bound THEN Most(left - 1, -1) ELSE left
  /\ UNCHANGED <<state, delay, init_delay, server_known, bound_timeout,
                 renewing_timeout, rebinding_timeout, binding, changed, rx>>

=============================================================================
