------------------------ MODULE PacketBuffersProofs ------------------------
(***************************************************************************)
(* Proofs about PacketBuffers, for any number of buffers, cookies and      *)
(* packets.                                                                *)
(*                                                                         *)
(* RightPacketOnce is not inductive: a release looks at the buffers, so    *)
(* the invariant has to say what the buffers hold.  A buffered packet was  *)
(* sent with the id made of its place and its cookie, it has not been      *)
(* released yet, and no cookie is the maximum.  RecentPacketsStay rests on *)
(* another one, the places of the last packets (Recent).                   *)
(***************************************************************************)
EXTENDS PacketBuffers, TLAPS

CookiesBelowMax == \A i \in Index : buffers[i].cookie < N_COOKIES - 1

HeldUnderItsId ==
  \A i \in Index :
    buffers[i].buffer # None =>
      /\ buffers[i].buffer <= Len(issued)
      /\ issued[buffers[i].buffer] = [idx |-> i, cookie |-> buffers[i].cookie]

ReleasedById ==
  \A k \in 1 .. Len(released) :
    /\ released[k].packet <= Len(issued)
    /\ released[k].id = issued[released[k].packet]

ReleasedOnce ==
  \A j, k \in 1 .. Len(released) :
    released[j].packet = released[k].packet => j = k

HeldIsNotReleased ==
  \A i \in Index, k \in 1 .. Len(released) :
    released[k].packet # buffers[i].buffer

Inv == /\ TypeOK /\ CookiesBelowMax /\ HeldUnderItsId
       /\ ReleasedById /\ ReleasedOnce /\ HeldIsNotReleased

-----------------------------------------------------------------------------
(* The invariant of buffers and histories given as arguments, so that the   *)
(* two halves of a flow_mod (release, then save) can be treated one by one. *)
InvOf(bufs, iss, rel) ==
  /\ bufs \in [Index -> Buffer]
  /\ iss \in Seq(Id) /\ Len(iss) <= MAX_PACKETS
  /\ rel \in Seq(Release)
  /\ \A i \in Index : bufs[i].cookie < N_COOKIES - 1
  /\ \A i \in Index :
       bufs[i].buffer # None =>
         /\ bufs[i].buffer <= Len(iss)
         /\ iss[bufs[i].buffer] = [idx |-> i, cookie |-> bufs[i].cookie]
  /\ \A k \in 1 .. Len(rel) :
       rel[k].packet <= Len(iss) /\ rel[k].id = iss[rel[k].packet]
  /\ \A j, k \in 1 .. Len(rel) : rel[j].packet = rel[k].packet => j = k
  /\ \A i \in Index, k \in 1 .. Len(rel) : rel[k].packet # bufs[i].buffer

(* The invariant by its parts.                                              *)
LEMMA InvSplit ==
  Inv <=> InvOf(buffers, issued, released) /\ buffer_idx \in Index
BY DEF Inv, InvOf, TypeOK, CookiesBelowMax, HeldUnderItsId, ReleasedById,
       ReleasedOnce, HeldIsNotReleased

(* What the types say of one buffer and of one release.                     *)
LEMMA Elements ==
  /\ \A b \in Buffer : /\ b.buffer \in Nat /\ b.cookie \in Cookie
                       /\ b.buffer # None => b.buffer \in Packet
  /\ \A r \in Release : /\ r.id \in Id /\ r.packet \in Packet
                        /\ r.packet \in Nat /\ r.packet # None
                        /\ r.packet >= 1
BY BuffersAssumption DEF Buffer, Release, Packet, None

(* A release is a record of packet and id.                                  *)
LEMMA ReleaseElement ==
  ASSUME NEW rel \in Seq(Release), NEW k \in 1 .. Len(rel)
  PROVE  rel[k] \in Release
OBVIOUS

(* A buffer that discard_buffer or retrieve_buffer emptied.                 *)
LEMMA EmptiedBuffer ==
  ASSUME NEW b \in Buffer
  PROVE  /\ [b EXCEPT !.buffer = None] \in Buffer
         /\ [b EXCEPT !.buffer = None].buffer = None
         /\ [b EXCEPT !.buffer = None].cookie = b.cookie
BY DEF Buffer

(* Emptying a buffer keeps the invariant.                                   *)
LEMMA EmptyKeeps ==
  ASSUME NEW bufs, NEW iss, NEW rel, InvOf(bufs, iss, rel), NEW n \in Index
  PROVE  InvOf([bufs EXCEPT ![n].buffer = None], iss, rel)
<1> DEFINE bufs2 == [bufs EXCEPT ![n].buffer = None]
<1>1. /\ bufs \in [Index -> Buffer]
      /\ iss \in Seq(Id) /\ Len(iss) <= MAX_PACKETS
      /\ rel \in Seq(Release)
      /\ Len(rel) \in Nat /\ Len(iss) \in Nat
  BY DEF InvOf
<1>2. /\ bufs2 \in [Index -> Buffer]
      /\ \A i \in Index : bufs2[i].cookie = bufs[i].cookie
      /\ \A i \in Index : i # n => bufs2[i].buffer = bufs[i].buffer
      /\ bufs2[n].buffer = None
  BY <1>1, EmptiedBuffer
<1> HIDE DEF bufs2
<1>3. \A i \in Index :
        bufs2[i].buffer # None =>
          /\ bufs2[i].buffer <= Len(iss)
          /\ iss[bufs2[i].buffer] = [idx |-> i, cookie |-> bufs2[i].cookie]
  BY <1>2 DEF InvOf
<1>4. \A i \in Index, k \in 1 .. Len(rel) : rel[k].packet # bufs2[i].buffer
  <2>1. \A k \in 1 .. Len(rel) : rel[k].packet # None
    BY <1>1, ReleaseElement, Elements
  <2> QED BY <1>2, <2>1 DEF InvOf
<1>5. InvOf(bufs2, iss, rel)
  BY <1>1, <1>2, <1>3, <1>4 DEF InvOf
<1> QED BY <1>5 DEF bufs2

(* Releasing the packet of a buffer under the id of that buffer keeps it.   *)
LEMMA ReleaseKeeps ==
  ASSUME NEW bufs, NEW iss, NEW rel, InvOf(bufs, iss, rel),
         NEW n \in Index, bufs[n].buffer # None
  PROVE  InvOf([bufs EXCEPT ![n].buffer = None], iss,
               Append(rel, [id |-> [idx |-> n, cookie |-> bufs[n].cookie],
                            packet |-> bufs[n].buffer]))
<1> DEFINE r == [id |-> [idx |-> n, cookie |-> bufs[n].cookie],
                 packet |-> bufs[n].buffer]
           rel2 == Append(rel, r)
           bufs2 == [bufs EXCEPT ![n].buffer = None]
<1>1. /\ bufs \in [Index -> Buffer]
      /\ iss \in Seq(Id) /\ rel \in Seq(Release)
      /\ Len(rel) \in Nat /\ Len(iss) \in Nat
  BY DEF InvOf
<1>2. r \in Release
  BY <1>1, Elements DEF Id, Release
<1>3. /\ rel2 \in Seq(Release)
      /\ Len(rel2) = Len(rel) + 1
      /\ rel2[Len(rel) + 1] = r
      /\ \A k \in 1 .. Len(rel) : rel2[k] = rel[k]
  BY <1>1, <1>2
<1>4. /\ bufs2 \in [Index -> Buffer]
      /\ \A i \in Index : bufs2[i].cookie = bufs[i].cookie
      /\ \A i \in Index : i # n => bufs2[i].buffer = bufs[i].buffer
      /\ bufs2[n].buffer = None
  BY <1>1, EmptiedBuffer
<1>5. \A k \in 1 .. Len(rel2) :
        /\ rel2[k].packet <= Len(iss) /\ rel2[k].id = iss[rel2[k].packet]
  <2>1. r.packet <= Len(iss) /\ r.id = iss[r.packet]
    BY DEF InvOf
  <2> QED BY <1>1, <1>3, <2>1 DEF InvOf
<1>6. \A j, k \in 1 .. Len(rel2) : rel2[j].packet = rel2[k].packet => j = k
  <2>1. \A k \in 1 .. Len(rel) : rel[k].packet # r.packet
    BY DEF InvOf
  <2>2. \A j, k \in 1 .. Len(rel) : rel[j].packet = rel[k].packet => j = k
    BY DEF InvOf
  <2> HIDE DEF r, rel2
  <2> QED BY <1>1, <1>3, <2>1, <2>2
<1>7. \A i \in Index, k \in 1 .. Len(rel2) : rel2[k].packet # bufs2[i].buffer
  <2> SUFFICES ASSUME NEW i \in Index, NEW k \in 1 .. Len(rel2)
               PROVE  rel2[k].packet # bufs2[i].buffer
    OBVIOUS
  <2>1. CASE i = n
    <3> HIDE DEF rel2, bufs2, r
    <3>1. rel2[k] \in Release
      BY <1>1, <1>3, ReleaseElement
    <3> QED BY <2>1, <3>1, <1>4, Elements
  <2>2. CASE i # n /\ k <= Len(rel)
    <3>1. rel[k].packet # bufs[i].buffer
      BY <2>2, <1>1, <1>3 DEF InvOf
    <3> HIDE DEF rel2, bufs2
    <3> QED BY <2>2, <3>1, <1>1, <1>3, <1>4
  <2>3. CASE i # n /\ k = Len(rel) + 1
    <3>1. bufs[i].buffer # bufs[n].buffer
      <4> SUFFICES ASSUME bufs[i].buffer = bufs[n].buffer
                   PROVE  FALSE
        OBVIOUS
      <4>1. /\ iss[bufs[n].buffer] = [idx |-> i, cookie |-> bufs[i].cookie]
            /\ iss[bufs[n].buffer] = [idx |-> n, cookie |-> bufs[n].cookie]
        BY DEF InvOf
      <4> QED BY <2>3, <4>1
    <3>2. rel2[k].packet = bufs[n].buffer
      BY <2>3, <1>3
    <3> HIDE DEF rel2, bufs2
    <3> QED BY <2>3, <3>1, <3>2, <1>4
  <2> QED BY <2>1, <2>2, <2>3, <1>1, <1>3
<1>8. \A i \in Index : bufs2[i].cookie < N_COOKIES - 1
  BY <1>4 DEF InvOf
<1>9. \A i \in Index :
        bufs2[i].buffer # None =>
          /\ bufs2[i].buffer <= Len(iss)
          /\ iss[bufs2[i].buffer] = [idx |-> i, cookie |-> bufs2[i].cookie]
  <2> HIDE DEF bufs2
  <2> QED BY <1>4 DEF InvOf
<1>10. Len(iss) <= MAX_PACKETS
  BY DEF InvOf
<1> HIDE DEF rel2, bufs2
<1>11. InvOf(bufs2, iss, rel2)
  BY <1>1, <1>3, <1>4, <1>5, <1>6, <1>7, <1>8, <1>9, <1>10 DEF InvOf
<1> QED BY <1>11 DEF rel2, bufs2

(* Saving the next packet in a buffer, under a cookie below the maximum,    *)
(* keeps the invariant; so does sending it without an id.                   *)
LEMMA SaveKeeps ==
  ASSUME NEW bufs, NEW iss, NEW rel, InvOf(bufs, iss, rel),
         Len(iss) < MAX_PACKETS, NEW n \in Index,
         NEW c \in Cookie, c < N_COOKIES - 1
  PROVE  /\ InvOf([bufs EXCEPT ![n] = [buffer |-> Len(iss) + 1, cookie |-> c,
                                       fresh |-> TRUE]],
                  Append(iss, [idx |-> n, cookie |-> c]), rel)
         /\ InvOf(bufs, Append(iss, NO_BUFFER), rel)
<1> DEFINE b == [buffer |-> Len(iss) + 1, cookie |-> c, fresh |-> TRUE]
           bufs2 == [bufs EXCEPT ![n] = b]
<1>1. /\ bufs \in [Index -> Buffer]
      /\ iss \in Seq(Id) /\ rel \in Seq(Release)
      /\ Len(rel) \in Nat /\ Len(iss) \in Nat
  BY DEF InvOf
<1>2. [idx |-> n, cookie |-> c] \in Id /\ NO_BUFFER \in Id
  BY BuffersAssumption DEF Id, NO_BUFFER, Index, Cookie
<1>3. ASSUME NEW x \in Id
      PROVE  LET iss2 == Append(iss, x)
             IN  /\ iss2 \in Seq(Id) /\ Len(iss2) = Len(iss) + 1
                 /\ Len(iss2) <= MAX_PACKETS
                 /\ iss2[Len(iss) + 1] = x
                 /\ \A p \in 1 .. Len(iss) : iss2[p] = iss[p]
  BY <1>1, BuffersAssumption
<1>4. \A i \in Index : bufs[i].buffer # None => bufs[i].buffer \in 1 .. Len(iss)
  <2> SUFFICES ASSUME NEW i \in Index, bufs[i].buffer # None
               PROVE  bufs[i].buffer \in 1 .. Len(iss)
    OBVIOUS
  <2>1. bufs[i] \in Buffer
    BY <1>1
  <2>2. bufs[i].buffer \in Packet
    BY <2>1, Elements
  <2>3. bufs[i].buffer <= Len(iss)
    BY DEF InvOf
  <2> QED BY <2>2, <2>3, <1>1, BuffersAssumption DEF Packet
<1>5. \A k \in 1 .. Len(rel) : rel[k].packet \in 1 .. Len(iss)
  BY <1>1, ReleaseElement, Elements DEF InvOf
<1>6. ASSUME NEW x \in Id
      PROVE  InvOf(bufs, Append(iss, x), rel)
  <2> DEFINE iss2 == Append(iss, x)
  <2>1. /\ iss2 \in Seq(Id) /\ Len(iss2) = Len(iss) + 1
        /\ Len(iss2) <= MAX_PACKETS
        /\ \A p \in 1 .. Len(iss) : iss2[p] = iss[p]
    BY <1>3
  <2> HIDE DEF iss2
  <2>2. \A i \in Index :
          bufs[i].buffer # None =>
            /\ bufs[i].buffer <= Len(iss2)
            /\ iss2[bufs[i].buffer] = [idx |-> i, cookie |-> bufs[i].cookie]
    BY <2>1, <1>1, <1>4 DEF InvOf
  <2>3. \A k \in 1 .. Len(rel) :
          rel[k].packet <= Len(iss2) /\ rel[k].id = iss2[rel[k].packet]
    BY <2>1, <1>1, <1>5 DEF InvOf
  <2>4. InvOf(bufs, iss2, rel)
    BY <2>1, <2>2, <2>3, <1>1 DEF InvOf
  <2> QED BY <2>4 DEF iss2
<1>7. InvOf(bufs2, Append(iss, [idx |-> n, cookie |-> c]), rel)
  <2> DEFINE id == [idx |-> n, cookie |-> c]
             iss2 == Append(iss, id)
  <2>1. /\ iss2 \in Seq(Id) /\ Len(iss2) = Len(iss) + 1
        /\ iss2[Len(iss) + 1] = id
    BY <1>2, <1>3
  <2>2. InvOf(bufs, iss2, rel)
    BY <1>2, <1>6
  <2>3. b \in Buffer
    BY <1>1, BuffersAssumption DEF Packet, Buffer
  <2>4. /\ bufs2 \in [Index -> Buffer]
        /\ \A i \in Index : i # n => bufs2[i] = bufs[i]
        /\ bufs2[n].buffer = Len(iss) + 1 /\ bufs2[n].cookie = c
    <3> HIDE DEF b
    <3>1. bufs2[n] = b /\ \A i \in Index : i # n => bufs2[i] = bufs[i]
      BY <1>1
    <3>2. bufs2 \in [Index -> Buffer]
      BY <1>1, <2>3
    <3> QED BY <3>1, <3>2 DEF b
  <2> HIDE DEF bufs2, iss2, b
  <2>5. \A i \in Index : bufs2[i].cookie < N_COOKIES - 1
    BY <2>2, <2>4 DEF InvOf
  <2>6. \A i \in Index :
          bufs2[i].buffer # None =>
            /\ bufs2[i].buffer <= Len(iss2)
            /\ iss2[bufs2[i].buffer] = [idx |-> i, cookie |-> bufs2[i].cookie]
    BY <2>1, <2>2, <2>4, <1>1 DEF InvOf
  <2>7. \A i \in Index, k \in 1 .. Len(rel) : rel[k].packet # bufs2[i].buffer
    <3>1. \A k \in 1 .. Len(rel) : rel[k].packet # Len(iss) + 1
      BY <1>1, <1>5
    <3> QED BY <3>1, <2>2, <2>4 DEF InvOf
  <2>8. InvOf(bufs2, iss2, rel)
    BY <2>2, <2>4, <2>5, <2>6, <2>7 DEF InvOf
  <2> QED BY <2>8 DEF iss2
<1> QED BY <1>2, <1>6, <1>7

-----------------------------------------------------------------------------
(* save_buffer never uses the cookie that would make the id -1.             *)
LEMMA NextCookieBelowMax ==
  ASSUME NEW c \in Cookie
  PROVE  NextCookie(c) \in Cookie /\ NextCookie(c) < N_COOKIES - 1
BY BuffersAssumption DEF NextCookie, Cookie

(* save_buffer stays inside the array.                                      *)
LEMMA NextIndexInRange ==
  buffer_idx \in Index => NextIndex \in Index
BY BuffersAssumption DEF NextIndex, Index

(* save_buffer on buffers that satisfy the invariant.                       *)
LEMMA SaveStep ==
  ASSUME NEW bufs, NEW rel, InvOf(bufs, issued, rel), buffer_idx \in Index,
         Save(bufs)
  PROVE  InvOf(buffers', issued', rel) /\ buffer_idx' \in Index
<1> DEFINE n == NextIndex
           c == NextCookie(bufs[n].cookie)
<1>1. n \in Index
  BY NextIndexInRange
<1>2. bufs[n].cookie \in Cookie
  BY <1>1, Elements DEF InvOf
<1>3. c \in Cookie /\ c < N_COOKIES - 1
  BY <1>2, NextCookieBelowMax
<1>4. /\ Len(issued) < MAX_PACKETS
      /\ buffer_idx' = n
      /\ \/ /\ buffers' = [bufs EXCEPT ![n] =
                 [buffer |-> Len(issued) + 1, cookie |-> c, fresh |-> TRUE]]
            /\ issued' = Append(issued, [idx |-> n, cookie |-> c])
         \/ buffers' = bufs /\ issued' = Append(issued, NO_BUFFER)
  BY DEF Save, NewPacket
<1> HIDE DEF n, c
<1>5. /\ InvOf([bufs EXCEPT ![n] = [buffer |-> Len(issued) + 1, cookie |-> c,
                                   fresh |-> TRUE]],
               Append(issued, [idx |-> n, cookie |-> c]), rel)
      /\ InvOf(bufs, Append(issued, NO_BUFFER), rel)
  BY <1>1, <1>3, <1>4, SaveKeeps
<1> QED BY <1>1, <1>4, <1>5

(* The empty buffers of a new datapath.                                     *)
LEMMA InvInit == Init => Inv
BY BuffersAssumption
DEF Init, Inv, TypeOK, CookiesBelowMax, HeldUnderItsId, ReleasedById,
    ReleasedOnce, HeldIsNotReleased, Index, Cookie, None, Buffer

(* Every operation on the buffers keeps the invariant.                      *)
LEMMA InvStep == Inv /\ [Next]_vars => Inv'
<1> SUFFICES ASSUME Inv, [Next]_vars
             PROVE  Inv'
  OBVIOUS
<1> USE DEF vars
<1>0. InvOf(buffers, issued, released) /\ buffer_idx \in Index
  BY InvSplit
<1>i. Inv' <=> InvOf(buffers', issued', released') /\ buffer_idx' \in Index
  BY DEF Inv, InvOf, TypeOK, CookiesBelowMax, HeldUnderItsId, ReleasedById,
         ReleasedOnce, HeldIsNotReleased
<1>1. CASE PacketIn
  BY <1>0, <1>1, <1>i, SaveStep DEF PacketIn
<1>2. CASE FlowModReleases
  <2>1. PICK id \in Id \ {NO_BUFFER} :
          /\ Named(id) /\ buffers[id.idx].buffer # None
          /\ released' = Append(released,
                                [id |-> id, packet |-> buffers[id.idx].buffer])
          /\ \/ buffers' = Emptied(id) /\ UNCHANGED <<buffer_idx, issued>>
             \/ Save(Emptied(id))
    BY <1>2 DEF FlowModReleases
  <2>2. /\ id.idx \in Index
        /\ id = [idx |-> id.idx, cookie |-> buffers[id.idx].cookie]
    BY <2>1 DEF Id, Named
  <2> DEFINE n == id.idx
  <2>3. n \in Index /\ buffers[n].buffer # None
    BY <2>1, <2>2
  <2>4. released' = Append(released,
               [id |-> [idx |-> n, cookie |-> buffers[n].cookie],
                packet |-> buffers[n].buffer])
    BY <2>1, <2>2
  <2>5. Emptied(id) = [buffers EXCEPT ![n].buffer = None]
    BY DEF Emptied
  <2> HIDE DEF n
  <2>6. InvOf(Emptied(id), issued, released')
    <3>1. InvOf([buffers EXCEPT ![n].buffer = None], issued,
                Append(released,
                       [id |-> [idx |-> n, cookie |-> buffers[n].cookie],
                        packet |-> buffers[n].buffer]))
      BY <1>0, <2>3, ReleaseKeeps
    <3> QED BY <3>1, <2>4, <2>5
  <2>7. CASE buffers' = Emptied(id) /\ UNCHANGED <<buffer_idx, issued>>
    BY <1>0, <1>i, <2>6, <2>7
  <2>8. CASE Save(Emptied(id))
    BY <1>0, <1>i, <2>6, <2>8, SaveStep
  <2> QED BY <2>1, <2>7, <2>8
<1>3. CASE FlowModFindsNothing
  BY <1>0, <1>3, <1>i DEF FlowModFindsNothing
<1>4. CASE FlowModDiscards
  <2>1. PICK id \in Id \ {NO_BUFFER} : buffers' = Emptied(id)
    BY <1>4 DEF FlowModDiscards
  <2>2. id.idx \in Index
    BY <2>1 DEF Id
  <2> QED BY <1>0, <1>4, <1>i, <2>1, <2>2, EmptyKeeps
          DEF Emptied, FlowModDiscards
<1>5. CASE SecondPasses
  <2>1. /\ buffers' \in [Index -> Buffer]
        /\ \A i \in Index : /\ buffers'[i].buffer = buffers[i].buffer
                             /\ buffers'[i].cookie = buffers[i].cookie
        /\ UNCHANGED <<buffer_idx, issued, released>>
    <3>1. \A b \in Buffer : /\ [b EXCEPT !.fresh = FALSE] \in Buffer
                             /\ [b EXCEPT !.fresh = FALSE].buffer = b.buffer
                             /\ [b EXCEPT !.fresh = FALSE].cookie = b.cookie
      BY DEF Buffer
    <3>2. buffers \in [Index -> Buffer]
      BY <1>0 DEF InvOf
    <3> QED BY <3>1, <3>2, <1>5 DEF SecondPasses
  <2>2. InvOf(buffers', issued, released)
    BY <1>0, <2>1 DEF InvOf
  <2> QED BY <1>0, <1>i, <2>1, <2>2
<1>6. CASE UNCHANGED vars
  BY <1>0, <1>6, <1>i
<1> QED BY <1>1, <1>2, <1>3, <1>4, <1>5, <1>6 DEF Next

(* The inductive invariant of the packet buffers.                           *)
THEOREM Invariant == Spec => []Inv
BY InvInit, InvStep, PTL DEF Spec

(* Type correctness of the packet buffers, for every number of buffers.     *)
THEOREM BuffersTypeCorrect == Spec => []TypeOK
<1>1. Inv => TypeOK
  BY DEF Inv
<1> QED BY <1>1, Invariant, PTL

(* Whatever ids a controller names, late, twice or made up, a flow_mod      *)
(* releases the packet the id was sent with, and each packet at most once.  *)
THEOREM ReleasesRightPacketOnce == Spec => []RightPacketOnce
<1>1. Inv => RightPacketOnce
  BY DEF Inv, RightPacketOnce, ReleasedById, ReleasedOnce
<1> QED BY <1>1, Invariant, PTL

(* Every buffered packet can be released by the id that was sent with it,   *)
(* which is never the id that means "no buffer".                            *)
THEOREM BufferedCanBeReleased == Spec => []BufferedPacketsHaveAnId
<1>1. Inv => BufferedPacketsHaveAnId
  <2> SUFFICES ASSUME Inv, NEW i \in Index, buffers[i].buffer # None
               PROVE  /\ buffers[i].buffer <= Len(issued)
                      /\ issued[buffers[i].buffer] # NO_BUFFER
                      /\ issued[buffers[i].buffer] =
                           [idx |-> i, cookie |-> buffers[i].cookie]
    BY DEF BufferedPacketsHaveAnId
  <2>1. /\ buffers[i].buffer <= Len(issued)
        /\ issued[buffers[i].buffer] = [idx |-> i, cookie |-> buffers[i].cookie]
    BY DEF Inv, HeldUnderItsId
  <2>2. buffers[i].cookie # N_COOKIES - 1
    BY BuffersAssumption, Elements DEF Inv, CookiesBelowMax, TypeOK, Cookie
  <2>3. [idx |-> i, cookie |-> buffers[i].cookie] # NO_BUFFER
    BY <2>2 DEF NO_BUFFER
  <2> QED BY <2>1, <2>3
<1> QED BY <1>1, Invariant, PTL

-----------------------------------------------------------------------------
(* RecentPacketsStay needs the places of the last packets: the one that was *)
(* sent d packets ago is d buffers behind buffer_idx, around the array.     *)
Behind(b, d) == IF d <= b THEN b - d ELSE b - d + N_PKT_BUFFERS

(* The places and the contents for buffers, a history and an index given as *)
(* arguments, for the two halves of a flow_mod.                             *)
RecentOf(bufs, iss, b) ==
  \A p \in 1 .. Len(iss) :
    p > Len(iss) - N_PKT_BUFFERS /\ iss[p] # NO_BUFFER =>
      /\ iss[p].idx = Behind(b, Len(iss) - p)
      /\ bufs[iss[p].idx].buffer \in {None, p}

Recent == RecentOf(buffers, issued, buffer_idx)

(* An id that was sent names one of the buffers.                            *)
LEMMA IdElement ==
  ASSUME NEW iss \in Seq(Id), NEW p \in 1 .. Len(iss)
  PROVE  iss[p].idx \in Index
<1>1. iss[p] \in Id
  OBVIOUS
<1> QED BY <1>1 DEF Id

(* The next index is none of those of the last N_PKT_BUFFERS - 1 packets.   *)
LEMMA NextIndexIsBehindAll ==
  ASSUME buffer_idx \in Index, NEW d \in Nat, d < N_PKT_BUFFERS - 1
  PROVE  /\ Behind(NextIndex, d + 1) = Behind(buffer_idx, d)
         /\ Behind(NextIndex, d + 1) # NextIndex
         /\ Behind(NextIndex, 0) = NextIndex
BY BuffersAssumption DEF Behind, NextIndex, Index

(* Emptying a buffer keeps the recent packets in their places.              *)
LEMMA RecentWhenEmptied ==
  ASSUME NEW bufs \in [Index -> Buffer], NEW iss \in Seq(Id), NEW b,
         RecentOf(bufs, iss, b), NEW n \in Index
  PROVE  RecentOf([bufs EXCEPT ![n].buffer = None], iss, b)
<1> DEFINE bufs2 == [bufs EXCEPT ![n].buffer = None]
<1>1. \A i \in Index : bufs2[i].buffer \in {None, bufs[i].buffer}
  BY EmptiedBuffer
<1>2. \A p \in 1 .. Len(iss) : iss[p].idx \in Index
  BY IdElement
<1> HIDE DEF bufs2
<1>3. RecentOf(bufs2, iss, b)
  BY <1>1, <1>2 DEF RecentOf
<1> QED BY <1>3 DEF bufs2

(* So does save_buffer.                                                     *)
LEMMA RecentWhenSaved ==
  ASSUME NEW bufs \in [Index -> Buffer], issued \in Seq(Id),
         buffer_idx \in Index, RecentOf(bufs, issued, buffer_idx), Save(bufs)
  PROVE  RecentOf(buffers', issued', buffer_idx')
<1> DEFINE n == NextIndex
           L == Len(issued)
<1>1. n \in Index /\ L \in Nat /\ buffer_idx' = n
  BY NextIndexInRange DEF Save
<1>2. PICK x, c :
        /\ issued' = Append(issued, x)
        /\ \/ /\ x = [idx |-> n, cookie |-> c]
              /\ buffers' = [bufs EXCEPT ![n] =
                   [buffer |-> L + 1, cookie |-> c, fresh |-> TRUE]]
           \/ x = NO_BUFFER /\ buffers' = bufs
  BY DEF Save, NewPacket
<1>3. /\ Len(issued') = L + 1
      /\ issued'[L + 1] = x
      /\ \A p \in 1 .. L : issued'[p] = issued[p]
  BY <1>1, <1>2
<1>i. \A p \in 1 .. L : issued[p].idx \in Index
  BY IdElement
<1>4. \A i \in Index : i # n => buffers'[i] = bufs[i]
  BY <1>1, <1>2
<1>5. x # NO_BUFFER => x.idx = n /\ buffers'[n].buffer = L + 1
  BY <1>1, <1>2
<1>6. 0 <= n /\ n - 0 = n
  BY <1>1, BuffersAssumption DEF Index
<1>7. \A p \in 1 .. L : p > L + 1 - N_PKT_BUFFERS =>
        /\ Behind(n, L + 1 - p) = Behind(buffer_idx, L - p)
        /\ Behind(n, L + 1 - p) # n
  <2> SUFFICES ASSUME NEW p \in 1 .. L, p > L + 1 - N_PKT_BUFFERS
               PROVE  /\ Behind(n, L + 1 - p) = Behind(buffer_idx, L - p)
                      /\ Behind(n, L + 1 - p) # n
    OBVIOUS
  <2>1. L - p \in Nat /\ L - p < N_PKT_BUFFERS - 1 /\ L + 1 - p = (L - p) + 1
    BY <1>1, BuffersAssumption
  <2> QED BY <2>1, NextIndexIsBehindAll
<1> SUFFICES ASSUME NEW p \in 1 .. Len(issued'),
                    p > Len(issued') - N_PKT_BUFFERS, issued'[p] # NO_BUFFER
             PROVE  /\ issued'[p].idx = Behind(n, Len(issued') - p)
                    /\ buffers'[issued'[p].idx].buffer \in {None, p}
  BY <1>1 DEF RecentOf
<1> HIDE DEF n
<1>8. CASE p = L + 1
  BY <1>1, <1>3, <1>5, <1>6, <1>8 DEF Behind
<1>9. CASE p # L + 1
  <2>1. p \in 1 .. L /\ p > L + 1 - N_PKT_BUFFERS /\ p > L - N_PKT_BUFFERS
    BY <1>1, <1>3, <1>9, BuffersAssumption
  <2>2. /\ issued[p].idx = Behind(buffer_idx, L - p)
        /\ bufs[issued[p].idx].buffer \in {None, p}
    BY <1>3, <2>1 DEF RecentOf
  <2>3. issued'[p] = issued[p] /\ issued[p].idx \in Index
    BY <1>3, <1>i, <2>1
  <2>4. /\ Behind(n, L + 1 - p) = issued[p].idx
        /\ issued[p].idx # n
    BY <1>7, <2>1, <2>2
  <2>5. buffers'[issued[p].idx] = bufs[issued[p].idx]
    BY <1>4, <2>3, <2>4
  <2>6. Len(issued') - p = L + 1 - p
    BY <1>3
  <2>7. issued'[p].idx = Behind(n, Len(issued') - p)
    BY <2>3, <2>4, <2>6
  <2>8. buffers'[issued'[p].idx].buffer \in {None, p}
    BY <2>2, <2>3, <2>5
  <2> QED BY <2>7, <2>8
<1> QED BY <1>8, <1>9

(* Every operation keeps the last packets in their places.                  *)
LEMMA RecentStep == Inv /\ Recent /\ [Next]_vars => Recent'
<1> SUFFICES ASSUME Inv, Recent, [Next]_vars
             PROVE  RecentOf(buffers', issued', buffer_idx')
  BY DEF Recent, RecentOf
<1>0. /\ buffers \in [Index -> Buffer] /\ buffer_idx \in Index
      /\ issued \in Seq(Id) /\ RecentOf(buffers, issued, buffer_idx)
  BY DEF Inv, TypeOK, Recent
<1>1. ASSUME NEW id \in Id
      PROVE  /\ Emptied(id) \in [Index -> Buffer]
             /\ RecentOf(Emptied(id), issued, buffer_idx)
  BY <1>0, EmptiedBuffer, RecentWhenEmptied DEF Emptied, Id
<1>2. CASE PacketIn
  BY <1>0, <1>2, RecentWhenSaved DEF PacketIn
<1>3. CASE FlowModReleases
  <2>1. PICK id \in Id \ {NO_BUFFER} :
          \/ buffers' = Emptied(id) /\ UNCHANGED <<buffer_idx, issued>>
          \/ Save(Emptied(id))
    BY <1>3 DEF FlowModReleases
  <2> QED BY <1>0, <1>1, <2>1, RecentWhenSaved
<1>4. CASE FlowModFindsNothing
  BY <1>0, <1>4 DEF FlowModFindsNothing, vars
<1>5. CASE FlowModDiscards
  BY <1>0, <1>1, <1>5 DEF FlowModDiscards
<1>6. CASE SecondPasses
  <2>1. \A i \in Index : buffers'[i].buffer = buffers[i].buffer
    <3>1. \A i \in Index : buffers'[i] = [buffers[i] EXCEPT !.fresh = FALSE]
      BY <1>6 DEF SecondPasses
    <3> QED BY <1>0, <3>1 DEF Buffer
  <2>2. \A p \in 1 .. Len(issued) : issued[p].idx \in Index
    BY <1>0, IdElement
  <2> QED BY <1>0, <1>6, <2>1, <2>2 DEF RecentOf, SecondPasses
<1>7. CASE UNCHANGED vars
  BY <1>0, <1>7 DEF vars
<1> QED BY <1>2, <1>3, <1>4, <1>5, <1>6, <1>7 DEF Next

(* For every number of buffers and however the clock runs, none of the last *)
(* N_PKT_BUFFERS packets loses its buffer to another packet.                *)
THEOREM RecentPacketsAreKept == Spec => []RecentPacketsStay
<1>1. Init => Recent
  BY DEF Init, Recent, RecentOf
<1>2. Recent => RecentPacketsStay
  BY DEF Recent, RecentOf, RecentPacketsStay
<1> QED BY <1>1, <1>2, RecentStep, Invariant, PTL DEF Spec
=============================================================================
