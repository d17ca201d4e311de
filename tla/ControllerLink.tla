--------------------------- MODULE ControllerLink ---------------------------
(***************************************************************************)
(* The main loop of ofprotocol around its connection to the controller:    *)
(* the rconn (module Rconn) and two hooks that watch it.  failover.c moves *)
(* the connection to the next configured controller, fail-open.c makes the *)
(* switch learn by itself while there is none.                             *)
(*                                                                         *)
(* One round of the loop is: rconn_run, the messages relay_run receives,   *)
(* the periodic callbacks in the order they were added, then poll_block.   *)
(***************************************************************************)
EXTENDS Integers, Sequences, FiniteSets

CONSTANTS
  NumControllers,   \* num_controllers
  ProbeInterval, MaxBackoff, HandshakeTime, TXQ_LIMIT, MAX_TXQ,  \* see Rconn
  AdmitTime         \* a connection this old counts as admitted (30 s)

ASSUME LinkAssumption ==
  /\ NumControllers \in Nat /\ NumControllers > 1
  /\ ProbeInterval > 0 /\ AdmitTime \in Nat

Controllers == 0 .. NumControllers - 1

VARIABLES
  pc, state, elapsed, vconn, reliable, backoff, deadline, txq,
  n_queued, quiet, idle_echo_xid, asked,      \* the rconn
  alive,           \* the controllers that are running and reachable
  admits,          \* they send the messages only an admitted switch gets
  phase,           \* "run" | "recv" | "sleep": where the main loop is
  index,           \* failover: the current controller
  epoch,           \* failover: now - peers[index]->epoch
  connected_for,   \* now - last_connected while connected
  unadmitted,      \* now - last_admitted
  boot,            \* fail-open: boot_deadline - now
  lswitch          \* fail-open: there is a learning switch

rconn  == <<pc, state, elapsed, vconn, reliable, backoff, deadline, txq,
            n_queued, quiet, idle_echo_xid, asked>>
hooks  == <<index, epoch, boot, lswitch>>
vars   == <<rconn, hooks, alive, admits, phase, connected_for, unadmitted>>

R == INSTANCE Rconn WITH owner <- "moves", Owners <- {"moves"}, up <- index \in alive

Connected == R!Connected
OpenAfter == 3 * ProbeInterval

(* The first rconn_connect of main, and the start of the hooks.             *)
Init ==
  /\ alive \in SUBSET Controllers /\ admits = TRUE
  /\ pc = "owner" /\ elapsed = 0
  /\ \/ state = "CONNECTING" /\ vconn = TRUE /\ backoff = 0
     \/ state = "BACKOFF" /\ vconn = FALSE /\ backoff = 1 /\ 0 \notin alive
  /\ deadline = backoff /\ reliable = TRUE
  /\ txq = <<>> /\ n_queued = 0 /\ quiet = 0 /\ idle_echo_xid = "zero" /\ asked = {}
  /\ phase = "run"
  /\ index = 0 /\ epoch = 0
  /\ connected_for = 0 /\ unadmitted = 0
  /\ boot = OpenAfter /\ lswitch = FALSE

-----------------------------------------------------------------------------
(* relay_run: first rconn_run ...                                           *)
Run ==
  /\ phase = "run" /\ UNCHANGED <<index, alive, admits>> /\ R!Run
  /\ UNCHANGED <<hooks, phase, connected_for, unadmitted>>

Looping ==
  /\ UNCHANGED <<index, alive, admits>> /\ R!Looping
  /\ phase' = IF pc' = "owner" THEN "recv" ELSE "run"
  /\ connected_for' = IF Connected /\ Connected' THEN connected_for ELSE 0
  /\ UNCHANGED <<hooks, unadmitted>>

Receiving == phase = "recv" /\ UNCHANGED <<index, alive, admits>>

(* MUTANT of Admission: every message counts.                               *)
MutAdmission(admitted) == 0

(* ... then what has arrived.  A message that only an admitted switch gets  *)
(* (is_admitted_msg), or any message on a connection that has lasted.       *)
Admission(admitted) ==
  IF admitted \/ connected_for >= AdmitTime THEN 0 ELSE unadmitted

RecvMessage ==
  /\ Receiving /\ R!RecvMessage
  /\ \E admitted \in {FALSE, admits} : unadmitted' = Admission(admitted)
  /\ UNCHANGED <<hooks, phase, connected_for>>

RecvEchoReply ==
  /\ Receiving /\ R!RecvEchoReply
  /\ unadmitted' = Admission(FALSE)
  /\ UNCHANGED <<hooks, phase, connected_for>>

RecvError ==
  /\ Receiving /\ R!RecvError
  /\ connected_for' = 0
  /\ UNCHANGED <<hooks, phase, unadmitted>>

-----------------------------------------------------------------------------
rconn_failure_duration == IF Connected THEN 0 ELSE unadmitted

(* MUTANT of fail_open_periodic: nothing to do while connected.             *)
MutFailOpen ==
  lswitch' = IF boot > 0 \/ Connected THEN lswitch ELSE unadmitted >= OpenAfter

fail_open_periodic ==
  lswitch' = IF boot > 0 THEN lswitch ELSE rconn_failure_duration >= OpenAfter

(* MUTANT of TimedOut: looks at the time of the current attempt.            *)
MutTimedOut == elapsed >= MaxBackoff

(* is_timed_out for the current controller.                                 *)
TimedOut == epoch >= MaxBackoff

(* MUTANT of FailoverDue: a connection that was probed is given up as well. *)
MutFailoverDue == state # "ACTIVE" /\ TimedOut

FailoverDue == ~Connected /\ TimedOut

failover_periodic ==
  \/ /\ FailoverDue
     /\ index' = (index + 1) % NumControllers
     /\ R!rconn_connect(index' \in alive)
     /\ epoch' = 0
     /\ UNCHANGED pc
  \/ ~FailoverDue /\ UNCHANGED <<rconn, index, epoch>>

(* The periodic callbacks, in the order of their add_hook.                  *)
Hooks ==
  /\ phase = "recv" /\ phase' = "sleep"
  /\ fail_open_periodic
  /\ failover_periodic
  /\ UNCHANGED <<alive, admits, boot, connected_for, unadmitted>>

-----------------------------------------------------------------------------
(* poll_block returns when something happens, at the latest at the timeout  *)
(* that rconn_run_wait armed for the state of the rconn.                    *)
Wake ==
  /\ phase = "sleep" /\ phase' = "run"
  /\ UNCHANGED <<rconn, hooks, alive, admits, connected_for, unadmitted>>

Tick ==
  /\ phase = "sleep" /\ ~R!Timeout
  /\ UNCHANGED <<index, alive, admits>> /\ R!Tick
  /\ epoch' = R!Later(epoch, MaxBackoff)
  /\ connected_for' = IF Connected THEN R!Later(connected_for, AdmitTime) ELSE 0
  /\ unadmitted' = R!Later(unadmitted, OpenAfter)
  /\ boot' = IF boot > 0 THEN boot - 1 ELSE 0
  /\ UNCHANGED <<phase, lswitch>>

(* Controllers come and go.                                                 *)
ControllerChanges ==
  /\ phase \in {"recv", "sleep"}
  /\ \E c \in Controllers : alive' = (alive \ {c}) \cup ({c} \ alive)
  /\ UNCHANGED <<rconn, hooks, admits, phase, connected_for, unadmitted>>

(* The controllers start or stop to turn the switch away.                   *)
PolicyChanges ==
  /\ phase = "sleep" /\ admits' = ~admits
  /\ UNCHANGED <<rconn, hooks, alive, phase, connected_for, unadmitted>>

Next ==
  \/ Run \/ Looping
  \/ RecvMessage \/ RecvEchoReply \/ RecvError
  \/ Hooks \/ Wake \/ Tick
  \/ ControllerChanges \/ PolicyChanges

Spec == Init /\ [][Next]_vars

(* The loop goes round, and time passes while it sleeps.  A message that    *)
(* has arrived is received; the peer need not send any.                     *)
FairSpec ==
  /\ Spec
  /\ WF_vars(Run) /\ WF_vars(Looping) /\ WF_vars(Hooks) /\ WF_vars(Wake)
  /\ SF_vars(Tick) /\ SF_vars(RecvError)
-----------------------------------------------------------------------------
(* PROPERTIES *)

(* A controller that is up for good is found among the configured ones,     *)
(* even when it takes longer to accept than the first attempts allow: the   *)
(* switch is connected again and again whatever the others do.              *)
ControllerFound ==
  (\E c \in Controllers : <>[](c \in alive)) => []<>Connected

(* A controller that lets the switch connect but never admits it does not   *)
(* keep it from failing open: the switch learns by itself again and again   *)
(* ("ignoring any times that it connected but the controller's admission    *)
(* control policy caused it to be quickly disconnected").                   *)
FailsOpen ==
  <>[](~admits /\ connected_for < AdmitTime) /\ []<>~Connected => []<>lswitch

(* "when the connection succeeds, it discontinues its fail-open behavior".  *)
FailOpenEnds == <>[]Connected => <>[]~lswitch

(* What was queued for one controller does not reach the next one, although *)
(* rconn_disconnect and rconn_connect leave the queue alone.                *)
QueueNotPassedOn == ~Connected => txq = <<>>

=============================================================================
