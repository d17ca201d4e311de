----------------------------- MODULE Discovery ------------------------------
(***************************************************************************)
(* discovery.c in the main loop of ofprotocol: the DHCP client finds the   *)
(* controller, the rconn to the controller follows what it found, and      *)
(* questions it when the controller cannot be reached.                     *)
(*                                                                         *)
(* A round of the loop is: poll_block returns, possibly with a change of   *)
(* the local port or with a question of the rconn (poll), dhclient_run     *)
(* (run), and what main does with the result (report).                     *)
(***************************************************************************)
EXTENDS DhcpClient

CONSTANTS
  RenewDeadline,     \* of discovery_question_connectivity (15)
  QuestionInterval,  \* of question_connectivity in rconn.c (60)
  TimeBound,         \* bound: elapsed times are told apart up to here
  RX_LIMIT           \* bound: messages waiting in the network device

ASSUME DiscoveryAssumption ==
  /\ RenewDeadline \in Nat /\ QuestionInterval \in Nat
  /\ RenewDeadline <= QuestionInterval
  /\ TimeBound \in Nat /\ TimeBound >= ServerTimeout /\ TimeBound >= RenewDeadline
  /\ \A g \in Grants : g.lease <= TimeBound
  /\ RX_LIMIT \in Nat

VARIABLES
  pc,           \* "poll" | "run" | "report"
  target,       \* the controller the rconn was told to connect to, 0 if none
  address,      \* the address of the network device, 0 if none, or Unset
  questioned,   \* now - last_questioned
  doubt,        \* seconds since a question that no server has answered, or -1
  asked,        \* a request was sent in this second and in this state
  settled       \* from now on servers answer well and the local port stays

main == <<pc, target, address, questioned, doubt, asked, settled>>
vars == <<client, main>>

Init ==
  /\ state = "NONE" /\ elapsed = 0 /\ resend = 0 /\ delay = 0 /\ wake = 0
  /\ init_delay = 0 /\ server_known = FALSE /\ binding = None /\ changed = FALSE
  /\ left = 0 /\ bound_timeout = 0 /\ renewing_timeout = 0 /\ rebinding_timeout = 0
  /\ rx = <<>> /\ pc = "poll" /\ target = 0 /\ address = 0
  /\ questioned = 0 /\ doubt = -1 /\ asked = FALSE /\ settled = FALSE

-----------------------------------------------------------------------------
(* discovery_local_port_cb: the local port goes, or its device cannot be    *)
(* opened, or it is another one than before.                                *)
LocalPort ==
  /\ pc = "poll" /\ ~settled /\ pc' = "run"
  /\ dhclient_destroy \/ dhclient_init
  /\ address' = 0 /\ doubt' = -1 /\ asked' = FALSE
  /\ UNCHANGED <<target, questioned, settled>>

(* MUTANT of Questions: as often as a connection attempt fails.             *)
MutQuestions == target # 0

(* question_connectivity in rconn.c, when the rconn has a controller to     *)
(* connect to and cannot.                                                   *)
Questions == target # 0 /\ questioned > QuestionInterval

Question ==
  /\ pc = "poll" /\ Questions /\ questioned' = 0
  /\ IF state = "NONE" THEN UNCHANGED client ELSE dhclient_force_renew(RenewDeadline)
  /\ doubt' = IF dhclient_is_bound /\ doubt < 0 THEN 0 ELSE doubt
  /\ pc' = "run" /\ UNCHANGED <<target, address, asked, settled>>

(* poll_block returns for some other reason.                                *)
Wake ==
  /\ pc = "poll" /\ pc' = "run"
  /\ UNCHANGED <<client, target, address, questioned, doubt, asked, settled>>

Run ==
  /\ pc = "run" /\ dhclient_run
  /\ pc' = IF state' = state THEN "report" ELSE "run"
  /\ doubt' = IF state' \in {"RENEWING", "REBINDING"} THEN doubt ELSE -1
  /\ asked' = (state' = state /\ (asked \/ resend' > resend))
  /\ UNCHANGED <<target, address, questioned, settled>>

(* The result of discovery_run is true.                                     *)
Reported == state = "NONE" \/ changed

(* netdev_set_in4: the device has the address of the binding, or it refused *)
(* the address or the netmask and has the old address or the wrong mask.    *)
Unset == -1
SetAddress == address' \in {binding.yiaddr, Unset}

(* main: rconn_connect or rconn_disconnect; dhclient_configure_netdev, of   *)
(* which a failure is logged and nothing else is done about it.             *)
Report ==
  /\ pc = "report" \/ (pc = "run" /\ state = "NONE")
  /\ pc' = "poll"
  /\ \/ /\ Reported
        /\ changed' = FALSE
        /\ target' = binding.controller
        /\ IF state = "NONE" THEN UNCHANGED address ELSE SetAddress
     \/ ~Reported /\ UNCHANGED <<changed, target, address>>
  /\ UNCHANGED <<state, timers, init_delay, server_known, lease, binding, rx>>
  /\ UNCHANGED <<questioned, doubt, asked, settled>>

Tick ==
  /\ pc = "poll" /\ ~Woken /\ Passes(TimeBound)
  /\ questioned' = Least(questioned + 1, QuestionInterval + 1)
  /\ doubt' = IF doubt < 0 THEN -1 ELSE Least(doubt + 1, RenewDeadline + 1)
  /\ asked' = FALSE
  /\ UNCHANGED <<pc, target, address, settled>>

(* A message for the client: of any server, late or repeated.               *)
Arrives(m) ==
  /\ state # "NONE" /\ pc \in {"poll", "run"} /\ Len(rx) < RX_LIMIT
  /\ settled => m.type # "NAK" /\ validate_offered_options(m.grant)
  /\ rx' = Append(rx, m)
  /\ UNCHANGED <<state, timers, init_delay, server_known, lease, binding, changed, main>>

Settle ==
  /\ state # "NONE" /\ ~settled /\ settled' = TRUE
  /\ UNCHANGED <<client, pc, target, address, questioned, doubt, asked>>

MainLoop == Wake \/ Question \/ Run \/ Report
Next == MainLoop \/ LocalPort \/ Tick \/ Settle \/ \E m \in Message : Arrives(m)

Spec == Init /\ [][Next]_vars

(* The loop goes round, time passes while it sleeps, and of the requests    *)
(* that are sent again and again some reach a server that answers at once.  *)
Heard(s, type) ==
  asked /\ state = s /\ \E m \in Message : m.type = type /\ Arrives(m)
FairSpec ==
  /\ Spec
  /\ WF_vars(MainLoop) /\ SF_vars(Tick)
  /\ SF_vars(Heard("SELECTING", "OFFER")) /\ SF_vars(Heard("REQUESTING", "ACK"))

-----------------------------------------------------------------------------
(* Servers that send T2 alone choose it after half the lease, where the     *)
(* client puts T1.  receive_ack relies on it (dhcp-client.c:732).           *)
TimesInOrder ==
  \A g \in Grants :
    g.lease < LongLease /\ 0 < g.t2 /\ g.t2 < g.lease /\ ~(0 < g.t1 /\ g.t1 < g.t2)
      => g.lease \div 2 <= g.t2

(* An address is given up when its lease ends: the three timeouts a lease   *)
(* is divided into, fuzzed and shortened by forced renewals, and the wake-  *)
(* ups dhclient_wait arms for them never add up to more than the lease.     *)
LeaseKept == dhclient_is_bound => left >= 0

(* dhclient_force_renew: an address that no server confirms within the      *)
(* deadline of a question is given up.                                      *)
GivesUpInTime == doubt <= RenewDeadline

(* When the loop sleeps the rconn has the controller of the current lease,  *)
(* and the network device its address, and neither without a lease.  A      *)
(* device that refused the address is the exception: the code logs it and   *)
(* does not try again before the binding changes (discovery.c:198).         *)
FollowsLease ==
  pc = "poll" => /\ target = IF dhclient_is_bound THEN binding.controller ELSE 0
                 /\ state # "NONE" /\ address # Unset =>
                      address = IF dhclient_is_bound THEN binding.yiaddr ELSE 0

(* Once servers answer well, the client gets an address and main connects   *)
(* to a controller, whatever happened before.                               *)
ControllerDiscovered == settled ~> (dhclient_is_bound /\ target # 0)

=============================================================================
