--------------------------- MODULE PacketBuffers ---------------------------
(***************************************************************************)
(* The packet buffers of ofdatapath (datapath.c): a packet that goes to    *)
(* the controller is kept under an id, and a later flow_mod names the id   *)
(* to release or to drop it.                                               *)
(*                                                                         *)
(* A 32-bit buffer id is the pair of its low bits, the index of the        *)
(* buffer, and its high bits, the cookie of the packet.  The controller    *)
(* may name any id at any time, late, twice or made up.                    *)
(***************************************************************************)
EXTENDS Integers, FiniteSets, Sequences

CONSTANTS
  N_PKT_BUFFERS,   \* number of buffers (256)
  N_COOKIES,       \* number of values of the cookie bits (2^24)
  MAX_PACKETS      \* bound: packets that go to the controller

ASSUME BuffersAssumption ==
  /\ N_PKT_BUFFERS \in Nat \ {0}
  /\ N_COOKIES \in Nat /\ N_COOKIES >= 2
  /\ MAX_PACKETS \in Nat

Index  == 0 .. N_PKT_BUFFERS - 1
Cookie == 0 .. N_COOKIES - 1
Id     == [idx : Index, cookie : Cookie]
NO_BUFFER == [idx |-> N_PKT_BUFFERS - 1, cookie |-> N_COOKIES - 1]  \* UINT32_MAX

(* Packets are numbered as they go to the controller; 0 is no packet.       *)
Packet == 1 .. MAX_PACKETS
None   == 0

Buffer  == [buffer : {None} \cup Packet, cookie : Cookie, fresh : BOOLEAN]
Release == [id : Id, packet : Packet]

VARIABLES
  buffers,     \* [buffer, cookie, fresh]; fresh: time_now() < timeout
  buffer_idx,
  issued,      \* history: issued[p] is the id sent with packet p
  released     \* history: the packets flow_mods released, and by which id

vars == <<buffers, buffer_idx, issued, released>>

Init ==
  /\ buffers = [i \in Index |-> [buffer |-> None, cookie |-> 0, fresh |-> FALSE]]
  /\ buffer_idx = 0
  /\ issued = <<>>
  /\ released = <<>>

-----------------------------------------------------------------------------
(* MUTANT of NextIndex: the round starts again one buffer early.            *)
MutNextIndex == IF buffer_idx >= N_PKT_BUFFERS - 2 THEN 0 ELSE buffer_idx + 1

NextIndex == IF buffer_idx = N_PKT_BUFFERS - 1 THEN 0 ELSE buffer_idx + 1

(* "Don't use maximum cookie value since the all-bits-1 id is special."     *)
NextCookie(c) == IF c + 1 >= N_COOKIES - 1 THEN 0 ELSE c + 1

MayOverwrite(b) == b.buffer = None \/ ~b.fresh

NewPacket == Len(issued) + 1

(* save_buffer, called by dp_output_control with the buffers bufs: the      *)
(* packet replaces one that was saved in an earlier second; or it is sent   *)
(* without an id.                                                           *)
Save(bufs) ==
  LET i == NextIndex
      c == NextCookie(bufs[i].cookie)
  IN  /\ Len(issued) < MAX_PACKETS
      /\ buffer_idx' = i
      /\ IF MayOverwrite(bufs[i])
         THEN /\ buffers' = [bufs EXCEPT ![i] =
                   [buffer |-> NewPacket, cookie |-> c, fresh |-> TRUE]]
              /\ issued' = Append(issued, [idx |-> i, cookie |-> c])
         ELSE /\ buffers' = bufs
              /\ issued' = Append(issued, NO_BUFFER)

(* The id names the packet that is in its buffer now.                       *)
Named(id) == buffers[id.idx].cookie = id.cookie

(* MUTANT of Emptied: the pointer is not cleared.                           *)
MutEmptied(id) == buffers

Emptied(id) == [buffers EXCEPT ![id.idx].buffer = None]

-----------------------------------------------------------------------------
(* A packet that no flow matches, or that a flow outputs to the controller. *)
PacketIn == Save(buffers) /\ UNCHANGED released

(* add_flow or mod_flow, the flow is in the table: retrieve_buffer.  Its    *)
(* actions may output the packet to the controller, who gets it as a new    *)
(* one (a second such output is the same as a PacketIn right after).        *)
FlowModReleases ==
  \E id \in Id \ {NO_BUFFER} :
    /\ Named(id) /\ buffers[id.idx].buffer # None
    /\ released' = Append(released,
                          [id |-> id, packet |-> buffers[id.idx].buffer])
    /\ \/ /\ buffers' = Emptied(id)
          /\ UNCHANGED <<buffer_idx, issued>>
       \/ Save(Emptied(id))

(* "cookie mismatch", or the packet is gone: the flow_mod returns -ESRCH.   *)
FlowModFindsNothing ==
  /\ \E id \in Id \ {NO_BUFFER} : ~(Named(id) /\ buffers[id.idx].buffer # None)
  /\ UNCHANGED vars

(* add_flow or mod_flow failed: discard_buffer.                             *)
FlowModDiscards ==
  /\ \E id \in Id \ {NO_BUFFER} : Named(id) /\ buffers' = Emptied(id)
  /\ UNCHANGED <<buffer_idx, issued, released>>

(* time_now() reaches the next whole second, which is the timeout of every  *)
(* packet saved until now (OVERWRITE_SECS is 1).  It does so at any moment: *)
(* a packet saved just before may be overwritten some milliseconds later.   *)
SecondPasses ==
  /\ buffers' = [i \in Index |-> [buffers[i] EXCEPT !.fresh = FALSE]]
  /\ UNCHANGED <<buffer_idx, issued, released>>

Next == \/ PacketIn \/ FlowModReleases \/ FlowModFindsNothing
        \/ FlowModDiscards \/ SecondPasses

Spec == Init /\ [][Next]_vars

-----------------------------------------------------------------------------
(* PROPERTIES *)

(* Type correctness.                                                        *)
TypeOK ==
  /\ buffers \in [Index -> Buffer]
  /\ buffer_idx \in Index
  /\ issued \in Seq(Id) /\ Len(issued) <= MAX_PACKETS
  /\ released \in Seq(Release)

(* A flow_mod that names a buffer gets the packet the id was sent with, and *)
(* no packet is released twice, whatever ids the controller uses: "The      *)
(* cookie distinguishes between different packets that have occupied a      *)
(* single buffer".                                                          *)
RightPacketOnce ==
  /\ \A k \in 1 .. Len(released) :
       /\ released[k].packet <= Len(issued)
       /\ released[k].id = issued[released[k].packet]
  /\ \A j, k \in 1 .. Len(released) :
       released[j].packet = released[k].packet => j = k

(* The id of a packet that is still buffered is not the special one: the    *)
(* controller can release it.                                               *)
BufferedPacketsHaveAnId ==
  \A i \in Index :
    buffers[i].buffer # None =>
      /\ buffers[i].buffer <= Len(issued)
      /\ issued[buffers[i].buffer] # NO_BUFFER
      /\ issued[buffers[i].buffer] = [idx |-> i, cookie |-> buffers[i].cookie]

(* The buffers are used in turn: whatever the clock says, the buffer of one *)
(* of the last N_PKT_BUFFERS packets that went to the controller is not     *)
(* given to another packet.  It holds that packet until a flow_mod names    *)
(* it.  This, and not the second of OVERWRITE_SECS, is what a controller    *)
(* that answers promptly can rely on (save_buffer).                         *)
RecentPacketsStay ==
  \A p \in 1 .. Len(issued) :
    p > Len(issued) - N_PKT_BUFFERS /\ issued[p] # NO_BUFFER =>
      buffers[issued[p].idx].buffer \in {None, p}
=============================================================================
