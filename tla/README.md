# Formal model of the OpenFlow agent for the ZyXEL FSG2200HNU

This directory holds TLA+ modules that model the core of this repository, the
TLC configurations that check them on small instances, and proofs checked by
TLAPS. Every definition that models code is listed with its source lines in
`PROJECT.json` (`map`).

Run a configuration with `tlc -workers 2 -config <run>.cfg <module>`, a proof
with `tlapm <module>Proofs.tla`. The module of every run is in `PROJECT.json`.

## 1. Inventory

The system is the OpenFlow 1.0 reference switch with an agent that turns
flow_mods into configuration of a home gateway. Two processes run:

* `ofdatapath` (`openflow/udatapath`): one thread, a poll loop around `dp_run`.
  It accepts connections, handles OpenFlow messages, keeps the software flow
  tables, and hands every flow_mod to the agent (`handleFlowMod`) first. The
  agent runs `zyxel_client.py` synchronously, which edits the WAN table of the
  device over HTTP.
* `ofprotocol` (`openflow/secchan`): relays between the datapath (unix socket)
  and the controller (TCP), both through reliable connections (`lib/rconn.c`).

Start scripts run both in the background, `stop_agent.sh` kills them; nobody
supervises them.

| Component | State | Operations | Interaction | What is hard | Correct when |
|---|---|---|---|---|---|
| Agent core (`ofagent.c`) | `inserted_flows`, `flow_counter` | ADD, DELETE | called by `recv_flow`; calls the driver per action | entries are never reclaimed; freed entries stay searchable | each flow is applied and unapplied once |
| ZyXEL driver (`zyxel.c`) | `created_services`, `srv_counter`, `service_allocator_index` | configure, unconfigure | runs the client with `system()` | counts, the slot limit, signed tags, memory lost by a restart | services, flows and WANs agree |
| HTTP client, device (`zyxel_client.py`) | WAN table of the device | setwan, delwan | eight WAN ids, found again by VLAN | a request may fail half way | the WAN of the service, and only that one, changes |
| Flow tables (`chain.c`, `table-*.c`, `switch-flow.c`) | two hash subtables, a linear table, an emergency table | insert, modify, delete, lookup, conflict, timeout, iterate | called by the handlers of `datapath.c` | collisions spread one logical table over three | behaves as one prioritised table |
| flow_mod handlers, sweep (`datapath.c`) | `last_timeout` | `add_flow`, `mod_flow`, `recv_flow`, `dp_run` | send errors and FLOW_REMOVED | timeouts race packets and deletes | no flow vanishes silently |
| Packet buffers (`datapath.c`) | 256 buffers, cookies | save, retrieve, discard | ids travel to the controller and back, late | id reuse, overwriting | the right packet, once |
| Statistics replies (`datapath.c`) | dump position | init, dump, done | resumed from the poll loop | tables change between two messages | complete, no repetition, ends |
| Emergency protection (`private-msg.c`) | - | protection | asked for by `ofprotocol` on loss of the controller | copy of one table into another | lookup still by priority |
| rconn (`lib/rconn.c`) | state, backoff, queue, probe id | run, recv, send, connect, disconnect | a controller, a datapath | failures inside every call, time | never uses a closed vconn, reconnects |
| vconn (`lib/vconn.c`, `vconn-stream.c`) | handshake state, negotiated version, partly read and partly written message | open, accept, connect, send, recv, close; a callback that writes the rest | used by rconn; the peer runs the same handshake | messages cut anywhere, a full socket, other versions, early messages | whole messages in order, an agreed version, nobody waits for ever |
| Relay (`secchan.c`) | two halves: an rconn, a held message, a count of queued ones | `relay_run`, accept, destroy | hooks see every message first and may take it | either rconn may go down with a message held or queued; the loop is cut off after 50 rounds | no message is held for ever, order is kept |
| Failover, fail-open (`failover.c`, `fail-open.c`) | current controller, its epoch; learning switch | periodic callbacks | move the rconn, judge it by its last admission | three timers run against each other | a live controller is found; the switch is on its own exactly without one |
| Rate limiter (`ratelimit.c`) | token bucket, a queue per port | take, drop, refill, drain | hook of the relay, sends on the same rconn | bucket and queues change in different parts of the loop | rate and order kept, no port starves |
| Emergency messages (`emerg-flow.c`) | last state sent | periodic callback | tells `private-msg.c` of the datapath | the connection flaps | the datapath knows the newest state |
| Spanning tree (`lib/stp.c`, `stp-secchan.c`) | bridge and port beliefs, seven timers, changed ports | BPDU received, tick, port and address changes | BPDUs to other switches, NO_FLOOD flags of the ports | several bridges with different beliefs, lost BPDUs, stale roots | no loop, one tree in the end |
| Discovery (`discovery.c`, `lib/dhcp-client.c`) | DHCP client: state, send timer, lease, binding | run, force renew, local port | answers of servers, questions of the rconn | late and repeated answers, leases that run out while it asks | no address past its lease, the controller of the newest lease |
| Ports and actions (`datapath.c`, `dp_act.c`) | port list, counters | output, rewrite | - | data plane disabled in this build | - |
| Other drivers, kernel datapath, `hw-lib`, tools, `libtelnet`, web service | - | - | not part of the zyxel agent | - | not modelled |

The hazards, each at its line, are in `PROJECT.json` (`hazards`).

## 2. Modules

| Module | Models | Used by |
|---|---|---|
| `ZyxelClient` | one run of the client, as the set of WAN tables it may leave | extended by `ZyxelAgent` |
| `ZyxelAgent` | `handleFlowMod`, driver, restart | `MCZyxelAgent`, `ZyxelAgentProofs` |
| `FlowTable` | tables and their handlers | `FlowTableRefinement`, `FlowTableProofs` |
| `FlowTableSpec` | abstract: one set of entries | instantiated by `FlowTableRefinement` |
| `FlowTableRefinement` | the refinement mapping | `MCFlowTable`, `FlowTableProofs` |
| `PacketBuffers` | packet buffers | run directly, `PacketBuffersProofs` |
| `StatsDump` | the statistics reply | `MCStatsDump`, `StatsDumpProofs` |
| `Rconn` | one reliable connection | run directly, `RconnProofs`, instantiated by `ControllerLink` |
| `Vconn` | both ends of one connection: handshake and stream | `MCVconn`, `VconnProofs` |
| `ControllerLink` | main loop with rconn, failover and fail-open | run directly, instantiated by `RconnProofs` |
| `RateLimiter` | bucket and queues | extended by `Relay` |
| `Relay` | `relay_run`, hooks, emergency messages | run directly, `RelayProofs` |
| `Stp` | several switches running the spanning tree | `MCStp` |
| `DhcpClient` | the DHCP client | extended by `Discovery` |
| `Discovery` | discovery in the main loop, local port, servers | `MCDiscovery`, `DiscoveryProofs` |

### ZyxelAgent and ZyxelClient

`ofdatapath` is one thread, so nothing interleaves with a handler except its
end. The loops over actions and entries are unfolded with `pc`: `apply`,
`delete`, `unapply`; a step is one call of a device function, so that `Restart`
may fall between two of them. `auxInd` and `i` are the code's loop counters. A
match keeps the fields the agent decides on, an action its type and 16-bit
argument; `Unit` reads the action list as the driver does, in 8-byte units
(the 16-byte ENQUEUE fills two). Shorts wrap and tags are converted as in C.

Undefined behaviour: `DeleteFreed` reads an entry whose actions were freed. The
bytes read as some action list, or the handler never returns (`pc = "lost"`).

The client is a set of outcomes: it commits on "save" only, so a run either does
everything or nothing. The device's own behaviour is external, taken from what
the client expects of its pages. WAN 1 is a management interface that exists
from the start.

`controller`, chosen once from `Controllers`, says which flow_mods may arrive, in
any order, and whether forks and clients may fail.

### FlowTable

One header field stands for each kind of field `flow_extract_match` treats
differently. `hash2` holds buckets and counters of both subtables, `linear` and
`emerg` the list by priority, the list for iteration, and the counter.
`crc32` is the constant `Hash`, an arbitrary function. Ages count ticks and
stop one past the timeout. `sent` holds the messages of the last step.
An insertion is tried in order: subtable 0, subtable 1, linear table.
`do_protection` is one step that deletes (`EmergProtection`) and one per copied
flow (`CopyEmergFlow`); `copying` holds what is still to be copied, and no other
handler runs in between. `Without` removes members from a list by the increasing
sequence of the places that stay.
`FlowMods` is the controller, chosen once from `Controllers`: the set of
flow_mods it may send, in any order.

`FlowTableSpec` says what a controller may rely on: one set of entries, a packet
renews one of the best matching entries, an ADD is refused only when the table
holds at least `Capacity` entries. `ImplementsOneTable` is that specification
under `entries <- ChainFlows(Chain)`.

### PacketBuffers

An id is the pair of index and cookie. The controller may name any id at any
time. `issued` and `released` are history variables. The clock is in whole seconds
(`time_now`), so a packet is `fresh` until the second changes, which may be at once
after it was saved: `OVERWRITE_SECS` promises no particular time. What a controller
can rely on is the turn of the buffers (`RecentPacketsStay`).

### StatsDump

The dump is one action per reported flow; insertions and removals happen only
between two messages. Position words are unsigned with `ULONG_MAX`, so that
`~(serial - 1)` wraps; serials start at 0 as in `table_linear_create`. An insertion
goes to the first table that takes the flow, so an exact flow that a collision once
pushed into the linear table may get a second entry in a bucket that was freed:
the histories `reported` and `stayed` are about entries, and such a flow is reported
once for each of its entries. `wrapped` is a history variable: the flow with serial
0 filled a message of this reply.

### Rconn

Points in time are relative to now and capped at the largest constant. The loop
of `rconn_run` is one step per iteration. `owner`, chosen once, is the kind of
owner: `connects` (ofprotocol, which leaves reconnecting to the rconn), `moves`
(failover and discovery, which disconnect and connect elsewhere) or `accepts`
(the datapath, whose rconns are unreliable). Transaction ids are `zero`, `probe`
(the newest probe), `old` (an earlier one) and `other`. `up` is the peer; a send,
receive or connect fails for good only when it is down, and may say EAGAIN at
any time.

### Vconn

One step is one call of a `vcs_` function, of `do_recv`, of `do_send` or of the
callback `stream_do_tx`; `vconn_connect` repeats the first kind until the state
stays. A message is a sequence of units of bytes: `HEADER` of them for a HELLO, one
more otherwise. A socket takes `SOCKET` units in a direction, so that every write
and every read may stop inside a message, in its header too. A closed end
(`NONE`) reads as end of file; what is written to it is lost or fails; a close with
unread data may take the data of the other direction along. `torn` is a history
variable: an owner gave the connection up by itself (timeout, end of the process)
or the connect was refused. `build`, chosen once, gives each end its `min_version`,
its `OFP_VERSION`, and what it sends before its HELLO: nothing (this program), an
asynchronous message, as the kernel datapath may, or another one. In `Rconn` a
vconn is only open or not, with sends and receives that succeed, fail or say
EAGAIN: `Vconn` shows how each of these comes about.

### ControllerLink

The variables of `Rconn` are those of the instance `R`; the owner of this rconn
"moves", and the peer is the controller `index` points at. `phase` follows one
round of the main loop: `rconn_run`, the receives of `relay_run`, the periodic
callbacks in the order of their `add_hook` (fail-open before failover), and
`poll_block`. `Tick` may pass only while the loop sleeps and no timeout of the
rconn is due, because `rconn_run_wait` has armed it. Controllers come and go, and
may turn the switch away after it connected (`admits`): only some messages, or
a connection of 30 s (`AdmitTime`), count as admission.

### RateLimiter and Relay

`RateLimiter` has the operations of `ratelimit.c`, `Relay` calls them where the
hooks do. A half of the relay is one step: receive or not, hooks, forward.
`Goes` is the control of the two nested loops, the `break` after a hook took a
message included. An rconn is here only connected or not, with its queue;
`Rconn!VconnMatchesState`, `QueueCounted` and `QueueNotPassedOn` are what
`Relay` takes from it (a queue goes with its connection, `n_txq` counts). `use`,
chosen once, says which hooks are there: with the rate limiter, with emergency
messages, or a management relay, which is destroyed with its connections and
accepted again. "first" and "second" tag any two packet-ins of one port, each of
an unknown flow (`packet_in`) or sent by an action (`action_in`, reason OFPR_ACTION).
The limiter passes the latter on whoever waits (`Limited`). The initial tokens are
a constant of their own, since `rate_limit_start` takes no notice of the burst limit.
`allowance` is a history variable: the level of an ideal bucket of the same size,
which may go below zero when the limiter lets more pass.

### Stp

A bridge is a record with the fields of `struct stp`, each function of `stp.c`
an operator from bridge to bridge with the same name, and `out` what it sends.
`Becomes` puts that on the LANs. One unit is the second after which `stp_wait_cb`
wakes the loop; `MESSAGE_AGE_INCREMENT`, 1/256 s, rounds to 0; the timeouts are the
code's own 2, 6 and 4 s, and the hold time 1 s. Bridges run in a fixed order
within a second and BPDUs take no time, but those of different ports arrive in
any order. Faults are a link that goes down, comes up or changes its speed, a
changed address (bridge id) and a lost BPDU. `Builds` chooses the byte order. A port
with OFPPC_NO_STP is disabled for the bridge, as one whose link is down; its flags
are left alone (`noStp` in `stp_periodic_cb`). The
conversion of milliseconds to ticks is left out (see `stp.c:291` below).

### DhcpClient and Discovery

One step is one iteration of the loop of `dhclient_run`. Points in time are
relative to now, `wake` is the wake-up that `dhclient_wait` arms, and `Tick` may
pass only when nothing wakes the loop. The transaction id of the client is
constant, so servers may deliver any message at any time: late, repeated, lost
before it arrives (which also covers the limit of 50 frames per call). A client
without a lease has no lease times; they are 0 in the model. Servers offer the
members of `Grants`, with or without T1 and T2. The rconn asks for a new lease
(`dhclient_force_renew`) at most every `QuestionInterval` while it has a target.
`netdev_set_in4` may fail: the device then has an unknown address (`Unset`) until the
binding changes again or the local port does.
A requested address (INIT_REBOOT, REBOOTING) and `dhclient_release` are left out:
only `ofp-discover` and a test use them.

## 3. Runs

Passing runs (the bounds are those of the cfg files; distinct states in
brackets):

| Run | Shows | Bounds, and why they are enough |
|---|---|---|
| `agent` (1.5 M) | the slot table survives any flow_mods, restarts, failing forks and clients, reads of freed entries; with one VLAN per address the device mirrors the services, also next to WANs left by earlier processes, and only restarts leave WANs | 4 entries, 3 slots and 3 WANs (one is the management's): all three run out. Two controllers: paired flows (services of up to three flows, ARP, ENQUEUE, one address too long for the command line) without faults; and every kind of flow_mod the handler tells apart (one address on two VLANs, none, untagged, a delete of everything) with faults. `SrvCounterBound` 1 stops the endless decrease of the service counter |
| `flows_colliding` (67 k) | lookup by priority, FLOW_REMOVED, overlap check, emergency protection, and the sweep under fairness | 1 bucket, so every exact key collides; 2 linear and 2 emergency entries: hash, linear and full tables occur. Four controllers: every command (13 flow_mods); timeouts of 1 and 2 ticks; only CHECK_OVERLAP adds; emergency flows |
| `flows_one_table` (16 k) | refinement of `FlowTableSpec` | 4 buckets, no collision in subtable 0; every command, timeouts |
| `packet_buffers` (117 k) | ids; the buffers of the newest packets are left to them | 3 buffers, 2 usable cookies, 8 packets: the turn goes round more than twice and cookies wrap |
| `stats_dump` (566 k) | dumps against changing tables: complete, no repetition, an end | two exact flows with one bucket in each subtable, and a wildcarded one; 2 per message, serials 0 to 2: flows collide, have two entries, and the flow with serial 0 does and does not fill a message |
| `rconn` (93 k) | vconn and queue invariants for the three kinds of owner, reconnection and the probe under fairness | backoff to 4 and a handshake of 3 s, longer than the first attempts allow; probe after 2 s; queue of 2 plus a probe, at most one counted message |
| `controller_link` (147 k) | a live controller is found and gets no message meant for another; fail-open begins and ends | 2 controllers, every pattern of them going up and down, admission after 2 s, fail-open after 3 s, failover window 7 s, handshake 2 s: longer than the first attempt allows |
| `relay` (277 k) | rate, order and progress of the relay | 2 ports, bucket of 2, 3 initial tokens, rate 2: idle time fills it, bursts empty it, queues overflow; packet-ins of both reasons; `MAX_ITERATIONS` 2 and `MAX_DRAIN` 1, so both loops are cut off. A bucket of 3 was also checked once; the safety properties are theorems for any bucket |
| `vconn` (13 k) | whole messages in order, agreement on the version, progress of every connection | header of 2 units, messages of 3, sockets of 4: messages are cut at every place and wait in `txbuf`; 3 messages of each end; six pairs of peers: the same, one that sends early (tolerated or not), newer (with or without our version), older |
| `stp` (201 k) | no loop, the tree, topology changes | 3 bridges with 2 ports on a triangle (one redundant LAN) or on two parallel LANs (two ports of one bridge compete), or around one LAN to which one of them has two ports; one of the links possibly late, both byte orders, one fault at any time |
| `discovery` (552 k) | the lease is kept, the rconn follows it, a controller is found | leases of 4, 5 and 7 s, the last long enough to be fuzzed; two addresses and controllers, one lease too short to be accepted; a question at any time; a device that takes its address or refuses it; one frame in the device's queue |

Some properties speak of part of a run's workload, and the list below shows what
happens outside it. `ServiceHasWan`, `OnlyRestartsLeaveWans` and
`ServiceCountsItsFlows` speak of the paired controllers (`PairedControllers`: every
flow has an address and a VLAN, each VLAN belongs to one address, a DELETE names a
flow, nothing fails), the last one only of flows that name their ports
(`PortsNamed`); `NoOverlap` speaks of controllers that add with the flag only, and
no emergency flows; `Reconnects` of an owner that
only connects; the other controllers and owners are in the same runs for the
other properties. `NoLoop` speaks of networks in which no bridge changed its id, and
`BeliefsAge` leaves out the hellos of a bridge with two ports on one LAN that did,
`HeldMessageLeaves` speaks of a half that gets its turn, `NoFlowTwice` and `DumpEnds`
of replies in which the flow with serial 0 has not filled a message, `PacketsInOrder`
leaves out a packet-in of an action behind one of an unknown flow, and `FollowsLease`
the address of a device that refused it: the list below says why. `ChangesForgotten`
says for either byte order what is left of a change. The invariants of `stp` were also
checked once with two changes (2.4 M states) and with a change and a lost BPDU
(421 k).

The violation run is a disagreement between a comment, log text or header of
the repository and the code (quoted in `PROJECT.json`, `findings`):

| Run | What TLC finds |
|---|---|
| `agent_deleted_flow_found` | a delete of zero fields finds deleted entries and uses freed memory |

Other disagreements met while modelling; the modules follow the code, and the
properties are stated so that they hold of it:

* `ofagent.c:275`: the wildcard test never rejects (`!=` binds tighter than `&`).
* `zyxel.c:169`: a match on untagged packets (0xffff) makes a service with tag -1.
* `zyxel.c:97`: `system()` returns a positive status when the client fails, which
  counts as success.
* `zyxel_client.py:268`: delwan goes by VLAN; with two addresses on one VLAN it
  takes the other service's WAN.
* `zyxel.c:93`: a long address cuts the device's own address off the command.
* `datapath.c:1473`: a MODIFY adds flows without the overlap check and the
  emergency timeout check of an ADD.
* `switch-flow.c:202`: the normalisation of undefined fields is commented out.
* `zyxel.c:250`: a service is made for an address and a VLAN but released by
  address only: a delete for the second VLAN takes a flow off the service of
  the first, whose count no longer is what `zyxel.c:214` logs.
* `zyxel.c:226`: `output_unconf_zyxel` does not look at the ports, although
  `output_conf_zyxel` skips a flow without one: such a flow, when it is deleted,
  releases a use it never took. `flow_counter` of a service is a short: 10000 flows
  of more than three actions on one service would wrap it (`ActionsFit`).
* `datapath.c:1380`: CHECK_OVERLAP compares an emergency flow with the working tables,
  and `do_protection` copies the emergency flows there without any check.
* `chain.c:144`: a flow added again after its collision partner left goes into
  the hash table while the old one stays in the linear table, although
  `chain.c:129` says "replacing any duplicate flow".
* `table-linear.c:214`: for serial 0, which the first flow gets
  (`table-linear.c:259`), the resume position `~(0 - 1)` is 0, the start of the table; a
  message filled by that flow repeats the table, and the reply may never end.
  Without their exception (`wrapped`) TLC refutes `NoFlowTwice` and `DumpEnds` on
  the same run.
* `rconn.c:784`: `try_send` stores the xid of every message as that of the probe, so
  the answer to a probe may not be recognised and a peer that answered in time
  is disconnected.
* `rconn.c:257`: `rconn_disconnect` keeps the queue. Only an owner that disconnects
  a live connection (discovery) passes it on; failover never does
  (`QueueNotPassedOn`).
* `failover.c:98`: the epoch is not refreshed while connected, so the loss of an old
  connection moves on at once. A handshake of more than about a quarter of the
  window (4 s of 15 s) may never complete, although the rconn alone would allow
  it; with `HandshakeTime = 3` TLC refutes `ControllerFound`.
* `ratelimit.c:208`: the bucket is filled after `relay_run` used it, so after idle time
  up to two bursts pass, and `ratelimit.c:259` starts with `rate_limit * 100` tokens
  although the burst limit may be smaller. `ofprotocol.8.in:398` promises that no more
  than the burst limit accumulates (`allowance >= 0` in the model), which the code does
  not keep; `RateBounded` is the bound it does keep. `ratelimit.c:209` takes a token before it tests its
  limit, and loses it.
* `ratelimit.c:163`: a packet-in of an action is not limited and overtakes older ones
  of its port that wait in the limiter; the comment there explains the first and
  says nothing of the order.
* `secchan.c:503`: the `break` after a hook took a message of the datapath also leaves
  out the controller's half; a flood of such messages starves the controller,
  against the comment at `secchan.c:483`.
* `emerg-flow.c:113`: a message that finds the datapath disconnected is not sent
  again. A message the relay held for the datapath goes after it.
* `stp.c:730`: the flags byte goes through `htons`; on a little endian machine no
  acknowledgement and no topology change is ever seen. A bridge that detected a
  change repeats its TCNs for ever, and the root tells of a change as long as that
  bridge is there; `ChangesForgotten` states this next to what big endian machines do.
* `datapath.c:2362`: "less than OVERWRITE_SECS old" is said of a packet whose second has
  not yet changed; it may be much younger than a second when it is overwritten.
* `dhcp-client.c:422`: a failed `netdev_set_in4` is logged, `discovery.c:198` ignores the
  result, and `changed` has been reset: nobody tries again before the next change.
* `stp.c:291`: `ms_to_timer_remainder` counts 1/256 of a millisecond, and `stp_tick` adds
  it to the milliseconds of the next call, although `stp.c:1177` says "the number of
  leftover milliseconds": two calls one millisecond apart advance the timers by 65
  ticks, a quarter of a second.
* `stp.c:345`: a new bridge id while BPDUs of the old one are around leaves a
  stale root for up to `max_age`, during which a forwarding loop may exist (the
  default times are the shortest 802.1D allows). Every switch does this once at
  start-up, when its random id is replaced.
* `stp.c:338`: a root with two ports on one LAN that gets a greater id keeps its
  old id as the root its blocked port knows of. That port becomes its root port,
  and the hellos of the former root go on until the message age runs out.
* `stp-secchan.c:244`: `new->curr` is not converted, so on a little endian machine
  every link has the default cost 19.
* `stp-secchan.c:149`: flags are updated in the next periodic callback only, so that a
  port that comes up may flood for up to a second.
* `datapath.c:582`, `datapath.c:1077`: an uninitialised result and a null port, outside
  the modelled parts. `datapath.c:1473`: every MODIFY that changes a flow leaks
  the new one. `ofagent.c:268`: a full table also ignores DELETEs.
* `dhcp-client.c:732`: when a server sends T2 but no T1, t1 becomes half of a short
  lease without a look at t2; with t2 below that the unsigned `renewing_timeout`
  wraps around, and the client uses the address past its lease. With such a grant
  TLC refutes `LeaseKept`; `Grants` leaves it out (`TimesInOrder`).
* `vconn.c:851`: every message is stamped with OFP_VERSION, not with the version that
  was negotiated. Against a newer peer that accepts our version the handshake
  succeeds, as `vconn.c:188` promises, and the first message of that peer (if it is
  built from this code) ends the connection.
* `vconn.c:395`: the sent error is counted only when sending it failed.
* `vconn.c:403`: after the error the vconn is DISCONNECTED at once and its owner
  closes it, which drops what `stream_send` left in `txbuf`: a peer whose version is
  refused may see only an end of file.
* `dhcp-client.c:838`: entering RENEWING does not drain the device, so an ACK that
  a server repeated while the client was BOUND counts as a renewal. A lease is
  counted from the receipt of the ACK, not from the request.
* `dhcp-client.c:877`: `send_reliably` leaves the old time in `min_timeout`, which
  costs one needless wake-up. `dhclient_force_renew` drains the device also in
  SELECTING, and loses offers.
* `rconn.c:826`: an error in the very second of the deadline resets the backoff.

Deadlock is checked in every run; no specification may stop.

### Fairness

* `FlowTable!FairSpec`: the sweep, and the end of a handler that has begun. `dp_run` asks for a wake-up within a second
  (`poll_timer_wait(1000)`) and sweeps whenever the second has changed.
* `StatsDump!FairSpec`: the dump goes on. `remote_run` calls it while the queue
  has room; this assumes a controller that reads its replies.
* `Rconn!FairSpec`: time passes, and the owner calls `rconn_run` again and again
  (`rconn_run_wait` arms a timer for every timeout of a state) and makes its
  first `rconn_connect`. Strong fairness on that call only: it may be disabled
  while `rconn_run` is in progress. Nothing is assumed of the peer.
* `Vconn!FairSpec`: each process calls its vconn again while something can be done:
  `vconn_wait` and `poll_fd_callback` ask the poll loop for it. Nothing is assumed of
  owners that give up.
* `ControllerLink!FairSpec`: the main loop goes round and time passes while it
  sleeps (strong: other steps may disable it in between). A connection that is
  broken is noticed when the loop receives again and again; a controller need not
  send anything.
* `Relay!FairSpec`: the loop goes round (weak fairness of waking up, of the halves and
  of the hooks), time passes (`rate_limit_wait_cb` asks for it while packets wait),
  and both peers read what is sent to them (strong fairness of `Transmit` for each
  half: the rest of the loop disables it in between): without that a full socket
  stops any relay.
* `Stp!FairSpec`: infinitely many steps that are no faults. `stp_wait_cb` wakes every
  bridge each second, and a BPDU on the way is delivered; at least one such step
  is always possible, so this is their weak fairness.
* `Discovery!FairSpec`: the loop goes round, time passes (strong: a message may
  wake the loop in between), and a client that asks again and again is answered
  by an acceptable server within the second, some time (`asked`).

## 4. Proofs

`ZyxelAgentProofs`, from `ClientAssumption` and `AgentAssumption` (types of the
constants; `MAX_SERVICES` fits a short), for any table sizes and flow_mods:

* `TypeCorrect`: `TypeOK`, which includes that indices stay inside both tables.
  It is inductive once it says that `apply` implies a free entry and `unapply` a
  valid one.
* `AllocationSafe`, `ServicesUnique`: the invariant `TableInv` joins `TypeOK`,
  `SlotsTrackAllocation` and `UniqueServices`. They need each other: a service
  is only unique because the search covers all slots below the allocator, and
  live slots are only there; a slot that is not live must be clear, or the
  search would count a flow on it. The proof first shows that every step of the
  agent does one of five things to the table (`StepIsTableStep`) and then treats
  those.
* `SlotsNotReused`: the action property, from the same lemma.
* `ServicesHaveWans` (`ServiceHasWan`) and `WansAreTakenBack` (`OnlyRestartsLeaveWans`):
  what the agent believes and what the device does. They assume `DeviceFits` of the
  paired controllers: the device has a WAN id for every VLAN, and no row from before
  gives one of these VLANs to another address. Without the first, setwan finds no
  free id; without the second, the row of somebody else is overwritten. (On the run,
  `MCZyxelAgent` has TLC evaluate this assumption.) `ServiceHasWan` is not inductive:
  `PairedInv` adds that every flow in the table and every live service comes from a
  flow_mod the controller may send, so that its VLAN is its address's own, and that
  the rows in use carry such VLANs or those from before, each with the right
  address. Then a pigeonhole argument over the WAN ids (`RowForVlan`) gives setwan
  its row, and delwan, which goes by VLAN, takes a row of that service and of no
  other one.

* `CountersExact` (`ServiceCountsItsFlows`), for every `n` with `ActionsFit(n)`: flows of
  at most `n` actions, and `MAX_NUMBER_OF_FLOWS * n` fits a short (the code's 10000
  flows: `n = 3`; TLC evaluates it on the run). The property speaks of an idle agent,
  so `CountedInv` says what holds in the middle of a handler: the counter of a
  service is the number of uses (`UsesNow`), where the entry being added counts up to
  the action that is next, and the entry being deleted from that action on. The
  uses are pairs of entry and action, and each step adds or takes one pair.

`FlowTableProofs`, from `TableAssumption` and `HashAssumption`, for any hash function,
any sizes of the tables, and any flow_mods and packets:

* `TableInvariant`: `TableInv`, on which the other four rest. A hash table holds a flow
  in the bucket of its own exact key and counts its flows; the linear and the
  emergency table are ordered by falling priority, hold no entry twice, and their
  list for iteration and counter agree with them; what is being copied are names of
  emergency flows. `Increasing` gives the places a removal leaves, in order, which
  replaces the induction over the list.
* `HighestFound` (`LookupFindsHighest`): an exact flow is met before the linear table and
  outranks it, and the linear table finds the first match of an ordered list.
* `NoSilentRemoval` (`RemovalsReported`): an action property, one case per handler.
* `ChecksSuffice` (`NoOverlap`): `OverlapInv` adds that a controller that always checks
  has no emergency flows and that any two flows at different places, of any two
  tables, are apart. A flow that replaces the same entry takes its place, so it is
  apart from the others because the old one was.
* `OneSetOfEntries` (`ImplementsOneTable`): under `OneTableSetting` (no two exact keys
  share a bucket of the first subtable, no emergency flows or protection; TLC
  evaluates it on the run `flows_one_table`) every step is one of `FlowTableSpec` or a
  stutter. `SplitInv` says that then the second subtable stays empty and the linear
  table holds no exact flow, so that a duplicate is always found where it is looked
  for. Outside that setting the refinement is wrong (`chain.c:144`).

`PacketBuffersProofs`, from `BuffersAssumption`, for any number of buffers,
cookies and packets: `BuffersTypeCorrect` (`TypeOK`), `ReleasesRightPacketOnce`,
`BufferedCanBeReleased`, `RecentPacketsAreKept` (`RecentPacketsStay`).
`RightPacketOnce` is not
inductive: `Inv` adds that a buffered packet was issued under the id of its place
and cookie, that it has not been released, and that no cookie is the maximum.
For `RecentPacketsStay` the places of the last packets are related to `buffer_idx`:
going back from the newest one, each was given the place before.

`RelayProofs`, from the assumptions of `RateLimiter` and `Relay`: `RateIsBounded`.
The invariant is that of the two buckets: the real one and what it has not yet
been given never hold more than the ideal one plus one full bucket, or plus the
initial tokens if they are more, which is why the promise of a single burst is out
of reach. Nothing is assumed of the initial tokens. `PacketsArriveInOrder`
(`PacketsInOrder`): what the controller got, the queue of its rconn, the message the
relay holds and the limiter's queue of that port are one line (`Line`), in which the
two packet-ins stand in order and once, or the second came of an action and overtook
the first, of an unknown flow, while that one waited (`Overtakes`). This needs that
a packet-in of an unknown flow passes the limiter only while nothing waits there. `DatapathIsTold` (`DatapathTold`) rests, as the order does, on `RelayBase` (types and counters, and no tags or queues without the limiter): the datapath's
connection is still the first one, or nothing is claimed.

`RconnProofs`: `NeverWithoutVconn` (`VconnMatchesState`) and `CounterIsExact`
(`QueueCounted`). They are proved together with the type of the state, since a lost
connection flushes the queue according to the state it was lost in. `NothingPassedOn`
(`QueueNotPassedOn` of `ControllerLink`, which is instantiated as `L`): the invariant adds
that the rconn is reliable and that failover moves it only when it is not
connected.

`DiscoveryProofs`: `LeaseNeverOutlived` and `QuestionedLeaseEnds`, for every set of
grants for which `TimesInOrder` holds (no server sends a T2 smaller than half
the lease without a T1): without it they are wrong (section 3). `LeaseInv`
says that the time left of the lease covers what the client still wants to spend
in its state and in those after it, and that a wake-up is armed before each ends.
`LeaseIsFollowed` (`FollowsLease`) needs no such condition: `FollowInv` says that what
the main program was told is out of date only while `changed` says so or while
there is no client, and never when the loop sleeps. The address may also be one that
the device refused.

`VconnProofs`, from `VconnAssumption`, for headers, messages and sockets of any
size: `MessagesInOrder` (`DataInOrder`) and `NegotiationAgrees` (`VersionsAgree`). Both are
about what has been read, and an invariant must speak of what has not: `VconnInv`
says that the units in `rxbuf`, on the wire and in `txbuf` are one stream, which
starts with the first unit of a message, keeps the units of each message together
and the messages in the order of their numbers, without a gap after the last one
received, each stamped with the version of its sender. Nothing is missing at its
end while the sender is open; after a close the stream may break off anywhere.
An end that has not seen the HELLO has received nothing.

`StatsDumpProofs`, from `DumpAssumption`, for any hash function, table and message
size: `TypeCorrect`, `DumpIsComplete` (`NoFlowMissed`) and `DumpRepeatsNothing`
(`NoFlowTwice`). `BehindReported` says that every entry that stayed and is behind the
position in the code's order (subtable 0, subtable 1, linear table by falling
serial) has been reported, `AheadUnreported` that no entry ahead has, as long as
the flow with serial 0 has not filled a message: then the position is the start
of the table again (`table-linear.c:214`), and nothing is claimed any more. The
positions' types hold the rest: a bucket holds a flow of its own hash, serials are
distinct and below `next_serial`.

Only model-checked:

* liveness and ENABLED, which are out of the prover's reach;
* `NoLoop` and `BeliefsAge` of `Stp`: its operators are folds over the ports, each
  call changes the bridge the next one sees, and what they compute for any number
  of ports needs induction over data.

All other safety properties of the runs are theorems. The restrictions to
`PortsNamed`, to flows without EMERG in `AlwaysChecks`, and of `BeliefsAge` were found
while looking for the inductive invariants: the properties had held on the runs only because
no workload had such flows or networks. The run now includes
a bridge that hears itself; without its condition TLC refutes `BeliefsAge` there in nine
steps.

`TypeOK` of `ZyxelAgent` and `BufferedPacketsHaveAnId` are proved and need no run.
No module uses RECURSIVE operators. Where a proof needs a last row or a first flow,
it takes a minimum of a finite set, not an induction over a sequence.

## 5. Left out, and the plan

Left out of modelled components: byte and packet counters; logging; the queue
file and port names of the agent; dumps of the emergency table; statistics,
monitors, sequence number and `questionable_connectivity` of rconn; HTML parsing
of the client; the text of status replies; port and bridge priorities of the
spanning tree, which `ofprotocol` never sets; the frame around a BPDU.

Not modelled: drivers of other devices (the files of Intune and Milegate end with
"CODE could not be published": there is no code to model), kernel datapath,
hardware tables, test controller, tools, dissectors, regression scripts, web
service and vendored libraries (not part of this agent, and most of the lines of
the repository); port output and header rewriting (data without lasting state,
disabled in this build); in-band control and the port watcher (off, or without
effect, in the start scripts, which connect out of band to a datapath without
ports); the learning switch, which only fail-open uses, and which is there or not
in `ControllerLink`.

Runs are shared: a component has one passing run per question, in which the
workloads (`Controllers`, `Owners`, `Uses`, `Networks`) are chosen in the initial
state.

Order of the work so far: agent and device (the program's purpose), flow tables,
packet buffers, statistics, connections, the main loop with its hooks, the
spanning tree, discovery, and the connections below rconn. Next:

1. `NoLoop` for any number of ports, with the folds of `Stp` restated as loops with a
   step per port.
2. `AgentAndTable`: `recv_flow` as a whole. The agent acts before the table may
   refuse the flow, and never hears of a timeout; which flows stay applied
   although they are not in the table?
3. `Ports`: port modification and status messages, which the spanning tree and the
   port watcher rely on. Seen while reading: `port-watcher.c:322` uses a port that may
   not be known; flags set while the datapath is disconnected are not sent again;
   `got_feature_reply` is never reset when the datapath starts anew.
4. `LearningSwitch`: the table of `mac-learning.c` and the flows set up from it. Seen
   while reading: `mac-learning.c:109` masks with MAC_HASH_BITS, so that few
   buckets are used; `learning-switch.c:581` passes `any_actions` inverted against the
   comment above it; `lswitch_wait` does not wait for `next_query`.
