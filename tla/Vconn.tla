------------------------------- MODULE Vconn -------------------------------
(***************************************************************************)
(* vconn.c over vconn-stream.c: both ends of one OpenFlow connection, from *)
(* the connect and the accept on.  Each end sends a HELLO and waits for    *)
(* the other's before it passes messages.  A message is cut into units (of *)
(* bytes) by the stream: a send may leave a rest in txbuf, which a         *)
(* callback of the poll loop writes later, and a message is read in parts. *)
(*                                                                         *)
(* One step is one call of a vcs_ function, of do_recv, of do_send or of   *)
(* the callback; vconn_connect repeats the former until the state stays.   *)
(* The owner of an end is an rconn: it closes a vconn that failed.         *)
(***************************************************************************)
EXTENDS Integers, Sequences

CONSTANTS
  Builds,     \* for each end min_version, OFP_VERSION, and what it sends early
  HEADER,     \* the units of a struct ofp_header
  SOCKET,     \* the units a socket takes in one direction
  MaxSent     \* bound: the messages an end sends

Ends == {"active", "passive"}
Peer(e) == IF e = "active" THEN "passive" ELSE "active"

ASSUME VconnAssumption ==
  /\ Builds \subseteq [Ends -> [min_version : Nat, OFP_VERSION : Nat, early : SUBSET {"DATA", "REPLY"}]]
  /\ HEADER \in Nat \ {0} /\ SOCKET \in Nat \ {0} /\ MaxSent \in Nat

VARIABLES
  state,      \* vconn->state, "NONE" before the accept and after the close
  version,    \* vconn->version, -1 before the negotiation
  txbuf,      \* the rest of a message that was not written at once
  tx_waiter,  \* TRUE while stream_do_tx is registered
  rxbuf,      \* the part of a message that was read
  wire,       \* the units from this end that the other one has not read
  sent,       \* the messages the owner sent
  got,        \* the numbers of the messages the owner received
  ignored,    \* the number of messages do_recv ignored
  torn,       \* TRUE when an owner or the network gave up this connection
  build

end  == <<state, version>>
tx   == <<txbuf, tx_waiter>>
seen == <<got, ignored>>
vars == <<end, tx, rxbuf, wire, sent, seen, torn, build>>

Least(a, b) == IF a <= b THEN a ELSE b

-----------------------------------------------------------------------------
(* make_openflow puts OFP_VERSION into every message.                       *)
Message(type, e, n) == [type |-> type, version |-> build[e].OFP_VERSION, number |-> n]

(* A HELLO is a header only.                                                *)
Length(m) == IF m.type = "HELLO" THEN HEADER ELSE HEADER + 1
Units(m)  == [k \in 1 .. Length(m) |-> <<m, k>>]

Opening == [e \in Ends |-> IF e = "active" THEN "CONNECTING" ELSE "LISTENING"]

(* vconn_open, with a connect that takes its time; the other end listens.   *)
Init ==
  /\ build \in Builds
  /\ state = Opening /\ version = [e \in Ends |-> -1]
  /\ txbuf = [e \in Ends |-> <<>>] /\ tx_waiter = [e \in Ends |-> FALSE]
  /\ rxbuf = [e \in Ends |-> <<>>] /\ wire = [e \in Ends |-> <<>>]
  /\ sent = [e \in Ends |-> 0]
  /\ got = [e \in Ends |-> <<>>] /\ ignored = [e \in Ends |-> 0]
  /\ torn = FALSE

IsOpen(e) == state[e] \notin {"LISTENING", "NONE"}
Becomes(e, s) == state' = [state EXCEPT ![e] = s]

-----------------------------------------------------------------------------
(* The stream.  A write takes what fits into the socket; what is written    *)
(* to an end that was closed is lost, or fails.                             *)
Fits(e, u) == Least(Len(u), SOCKET - Len(wire[e]))
Written(e, u) ==
  IF state[Peer(e)] = "NONE" THEN wire
  ELSE [wire EXCEPT ![e] = @ \o SubSeq(u, 1, Fits(e, u))]
Rest(e, u) ==
  IF state[Peer(e)] = "NONE" THEN <<>> ELSE SubSeq(u, Fits(e, u) + 1, Len(u))

(* MUTANT of StreamSends: what was written is not pulled from the buffer.   *)
MutStreamSends(e, m) ==
  /\ txbuf[e] = <<>>
  /\ wire' = Written(e, Units(m))
  /\ txbuf' = [txbuf EXCEPT ![e] = IF Rest(e, Units(m)) = <<>> THEN <<>> ELSE Units(m)]
  /\ tx_waiter' = [tx_waiter EXCEPT ![e] = Rest(e, Units(m)) # <<>>]

(* stream_send takes the message: it returns 0 also when only a part, or    *)
(* nothing, was written.  EAGAIN while txbuf has a rest.                    *)
StreamSends(e, m) ==
  /\ txbuf[e] = <<>>
  /\ wire' = Written(e, Units(m))
  /\ txbuf' = [txbuf EXCEPT ![e] = Rest(e, Units(m))]
  /\ tx_waiter' = [tx_waiter EXCEPT ![e] = Rest(e, Units(m)) # <<>>]

(* The write fails for good.                                                *)
StreamFails(e) == txbuf[e] = <<>> /\ state[Peer(e)] = "NONE"

(* MUTANT of stream_do_tx: the callback does not register again.            *)
MutDoTx(e) ==
  /\ tx_waiter[e]
  /\ \/ Fits(e, txbuf[e]) > 0 \/ state[Peer(e)] = "NONE"
  /\ wire' = Written(e, txbuf[e])
  /\ txbuf' = [txbuf EXCEPT ![e] = Rest(e, @)]
  /\ tx_waiter' = [tx_waiter EXCEPT ![e] = FALSE]
  /\ UNCHANGED <<end, rxbuf, sent, seen, torn, build>>

(* The poll loop found the socket writable.  An error is only logged: the   *)
(* rest is lost, and with it the connection.                                *)
stream_do_tx(e) ==
  /\ tx_waiter[e]
  /\ \/ Fits(e, txbuf[e]) > 0 \/ state[Peer(e)] = "NONE"
  /\ wire' = Written(e, txbuf[e])
  /\ txbuf' = [txbuf EXCEPT ![e] = Rest(e, @)]
  /\ tx_waiter' = [tx_waiter EXCEPT ![e] = Rest(e, txbuf[e]) # <<>>]
  /\ UNCHANGED <<end, rxbuf, sent, seen, torn, build>>

(* want_bytes of stream_recv: first the header, then what it announces.     *)
Wanted(rx) ==
  IF Len(rx) < HEADER THEN HEADER - Len(rx) ELSE Length(rx[1][1]) - Len(rx)

Available(e) == wire[Peer(e)]
Taken(e) == Least(Wanted(rxbuf[e]), Len(Available(e)))

(* What rxbuf is after a read, whether that is a whole message, and which:  *)
(* one whose parts do not belong together has number 0.                     *)
NowRead(e) == rxbuf[e] \o SubSeq(Available(e), 1, Taken(e))
Whole(rx)  == Len(rx) >= HEADER /\ Len(rx) >= Length(rx[1][1])
Parsed(rx) == IF rx = Units(rx[1][1]) THEN rx[1][1] ELSE [rx[1][1] EXCEPT !.number = 0]

(* The message that the next read completes, if it completes one.           *)
Completed(e) ==
  IF Available(e) # <<>> /\ Whole(NowRead(e)) THEN {Parsed(NowRead(e))} ELSE {}

StreamReads(e) ==
  /\ Available(e) # <<>>
  /\ wire' = [wire EXCEPT ![Peer(e)] = SubSeq(@, Taken(e) + 1, Len(@))]

StreamReceives(e) == StreamReads(e) /\ rxbuf' = [rxbuf EXCEPT ![e] = <<>>]

(* The read leaves a part: EAGAIN, or the next read of the same call.       *)
ReadPart(e) ==
  /\ state[e] \in {"RECV_HELLO", "CONNECTED"}
  /\ StreamReads(e) /\ Completed(e) = {}
  /\ rxbuf' = [rxbuf EXCEPT ![e] = NowRead(e)]
  /\ UNCHANGED <<end, tx, sent, seen, torn, build>>

(* read returns 0, in the middle of a message or not.                       *)
AtEof(e) == Available(e) = <<>> /\ state[Peer(e)] = "NONE"

-----------------------------------------------------------------------------
(* check_connection_completion: the connect succeeded or was refused.       *)
vcs_connecting(e) ==
  /\ state[e] = "CONNECTING"
  /\ \/ Becomes(e, "SEND_HELLO") /\ UNCHANGED torn
     \/ Becomes(e, "DISCONNECTED") /\ torn' = TRUE
  /\ UNCHANGED <<version, tx, rxbuf, wire, sent, seen, build>>

(* pvconn_accept; the connection may be older than the active end knows.    *)
Accept(e) ==
  /\ state[e] = "LISTENING"
  /\ Becomes(e, "SEND_HELLO")
  /\ UNCHANGED <<version, tx, rxbuf, wire, sent, seen, torn, build>>

vcs_send_hello(e) ==
  /\ state[e] = "SEND_HELLO"
  /\ \/ StreamSends(e, Message("HELLO", e, 0)) /\ Becomes(e, "RECV_HELLO")
     \/ StreamFails(e) /\ Becomes(e, "DISCONNECTED") /\ UNCHANGED <<tx, wire>>
  /\ UNCHANGED <<version, rxbuf, sent, seen, torn, build>>

(* MUTANT of Negotiated: the peer's version is taken as it is.              *)
MutNegotiated(e, m) == m.version

Negotiated(e, m) == Least(build[e].OFP_VERSION, m.version)

(* do_recv: a message that needs the negotiated version and has another.    *)
WrongVersion(e, m) == m.type \notin {"HELLO", "ERROR"} /\ m.version # version[e]

RecvHello(e, m) ==
  /\ m.type = "HELLO"
  /\ version' = [version EXCEPT ![e] = Negotiated(e, m)]
  /\ Becomes(e, IF Negotiated(e, m) < build[e].min_version THEN "SEND_ERROR" ELSE "CONNECTED")
  /\ UNCHANGED ignored

(* Before the negotiation do_recv passes over an asynchronous message.      *)
Ignore(e, m) ==
  /\ m.type = "DATA"
  /\ ignored' = [ignored EXCEPT ![e] = @ + 1]
  /\ UNCHANGED end

vcs_recv_hello(e) ==
  /\ state[e] = "RECV_HELLO"
  /\ \/ \E m \in Completed(e) :
          /\ StreamReceives(e)
          /\ \/ RecvHello(e, m)
             \/ Ignore(e, m)
             \/ m.type \notin {"HELLO", "DATA"} /\ Becomes(e, "DISCONNECTED") /\ UNCHANGED <<version, ignored>>
     \/ AtEof(e) /\ Becomes(e, "DISCONNECTED") /\ UNCHANGED <<version, rxbuf, wire, ignored>>
  /\ UNCHANGED <<tx, sent, got, torn, build>>

vcs_send_error(e) ==
  /\ state[e] = "SEND_ERROR"
  /\ \/ StreamSends(e, Message("ERROR", e, 0))
     \/ StreamFails(e) /\ UNCHANGED <<tx, wire>>
  /\ Becomes(e, "DISCONNECTED")
  /\ UNCHANGED <<version, rxbuf, sent, seen, torn, build>>

-----------------------------------------------------------------------------
(* vconn_close by the owner.  The socket drops what it was not asked for    *)
(* yet, and with unread data it resets the connection, which may take what  *)
(* the other end has not read.                                              *)
Close(e) ==
  /\ Becomes(e, "NONE")
  /\ version' = [version EXCEPT ![e] = -1]
  /\ txbuf' = [txbuf EXCEPT ![e] = <<>>] /\ tx_waiter' = [tx_waiter EXCEPT ![e] = FALSE]
  /\ rxbuf' = [rxbuf EXCEPT ![e] = <<>>]
  /\ \E left \in {wire[e], <<>>} :
       wire' = [wire EXCEPT ![e] = left, ![Peer(e)] = <<>>]
  /\ UNCHANGED <<sent, seen, build>>

(* vconn_connect returned an error.                                         *)
CloseFailed(e) == state[e] = "DISCONNECTED" /\ Close(e) /\ UNCHANGED torn

(* The owner's timeout, or the end of its process.                          *)
CloseOwn(e) == state[e] # "NONE" /\ Close(e) /\ torn' = TRUE

(* The owner sends.  A peer that does not negotiate, such as the kernel     *)
(* datapath, sends early: asynchronous messages, here DATA, or others.      *)
vconn_send(e) ==
  /\ sent[e] < MaxSent
  /\ \/ state[e] = "CONNECTED" /\ StreamSends(e, Message("DATA", e, sent[e] + 1))
     \/ /\ state[e] = "SEND_HELLO"
        /\ \E type \in build[e].early : StreamSends(e, Message(type, e, sent[e] + 1))
  /\ sent' = [sent EXCEPT ![e] = @ + 1]
  /\ UNCHANGED <<end, rxbuf, seen, torn, build>>

(* The owner receives a message.                                            *)
vconn_recv(e) ==
  /\ state[e] = "CONNECTED"
  /\ \E m \in Completed(e) :
       /\ StreamReceives(e) /\ ~WrongVersion(e, m)
       /\ got' = [got EXCEPT ![e] = IF m.type = "DATA" THEN Append(@, m.number) ELSE @]
  /\ UNCHANGED <<end, tx, sent, ignored, torn, build>>

(* vconn_recv or vconn_send returned an error: the owner closes.            *)
RecvFails(e) ==
  /\ state[e] = "CONNECTED"
  /\ \/ AtEof(e)
     \/ \E m \in Completed(e) : WrongVersion(e, m)
  /\ Close(e) /\ UNCHANGED torn

SendFails(e) ==
  /\ state[e] = "CONNECTED" /\ StreamFails(e)
  /\ Close(e) /\ UNCHANGED torn

(* The rconn opens the next connection: as in Init, after both closed.      *)
Reopen ==
  /\ \A e \in Ends : state[e] = "NONE"
  /\ state' = Opening /\ torn' = FALSE
  /\ wire' = [e \in Ends |-> <<>>] /\ sent' = [e \in Ends |-> 0]
  /\ got' = [e \in Ends |-> <<>>] /\ ignored' = [e \in Ends |-> 0]
  /\ UNCHANGED <<version, tx, rxbuf, build>>

-----------------------------------------------------------------------------
Run(e) ==
  \/ vcs_connecting(e) \/ Accept(e) \/ vcs_send_hello(e) \/ vcs_recv_hello(e)
  \/ vcs_send_error(e) \/ CloseFailed(e) \/ stream_do_tx(e) \/ ReadPart(e)
  \/ vconn_send(e) \/ vconn_recv(e) \/ RecvFails(e) \/ SendFails(e)

Next == (\E e \in Ends : Run(e) \/ CloseOwn(e)) \/ Reopen

Spec == Init /\ [][Next]_vars

(* Both processes run, and call their vconn again when poll says so.        *)
FairSpec == Spec /\ \A e \in Ends : WF_vars(Run(e))

-----------------------------------------------------------------------------
(* PROPERTIES *)

(* Both ends are of this program and version, or differ from it only in     *)
(* asynchronous messages sent early.                                        *)
Compatible ==
  /\ build["active"].OFP_VERSION = build["passive"].OFP_VERSION
  /\ \A e \in Ends : "REPLY" \notin build[e].early

(* Messages arrive whole, in order and without a gap, however the stream    *)
(* cuts them and whatever waits in txbuf.  Those that were sent before the  *)
(* negotiation are left out as a whole.                                     *)
DataInOrder ==
  \A e \in Ends :
    \A k \in 1 .. Len(got[e]) : got[e][k] = ignored[e] + k

(* Two ends that are connected agree on a version, and it is one that both  *)
(* support: vconn_open's "acceptable to both peers on the connection".      *)
VersionsAgree ==
  (\A e \in Ends : state[e] = "CONNECTED") =>
    /\ version["active"] = version["passive"]
    /\ \A e \in Ends : version[e] \in build[e].min_version .. build[e].OFP_VERSION

Arrived(e) == Len(got[e]) + ignored[e] = MaxSent

(* Every connection gets somewhere unless it is given up from outside: all  *)
(* messages of both ends arrive, neither end fails by itself and neither    *)
(* waits for the other for ever.  When one end refuses the other's version  *)
(* or messages, both notice.                                                *)
MessagesArrive ==
  (\E e \in Ends : IsOpen(e)) ~>
    \/ torn
    \/ \A e \in Ends : Arrived(e)
    \/ ~Compatible /\ \A e \in Ends : state[e] = "NONE"

=============================================================================
