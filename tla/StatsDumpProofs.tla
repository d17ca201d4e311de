-------------------------- MODULE StatsDumpProofs --------------------------
(***************************************************************************)
(* Proofs about StatsDump, for any number of flows, buckets and flows per  *)
(* message, any hash functions and any width of unsigned long.             *)
(*                                                                         *)
(* The properties speak of the end of the reply and say nothing of where   *)
(* the dump stands.  The invariant splits the entries at the position that *)
(* the next message starts from: an entry behind it has been reported, if  *)
(* the request asked for it, and an entry ahead of it has not, as long as  *)
(* the position has not wrapped.  Insertions and removals between two      *)
(* messages keep this, because an entry that stays keeps its bucket or its *)
(* serial.                                                                 *)
(***************************************************************************)
EXTENDS StatsDump, TLAPS

-----------------------------------------------------------------------------
(* The tables: a flow is in the bucket that its hash value names, and every *)
(* flow of the linear table has a serial of its own.                        *)
BucketsOK ==
  /\ buckets \in [0 .. 1 -> [Buckets -> ExactFlows \cup {NoFlow}]]
  /\ \A t \in 0 .. 1, b \in Buckets :
       buckets[t][b] # NoFlow => b = Hash(t, buckets[t][b])

LinearOK ==
  /\ DOMAIN linear \subseteq Flows
  /\ next_serial \in Nat
  /\ \A f \in DOMAIN linear :
       linear[f] \in Nat /\ linear[f] < next_serial /\ linear[f] <= MAX_SERIAL
  /\ \A f, g \in DOMAIN linear : linear[f] = linear[g] => f = g

StayedOK == stayed \subseteq Present

(* Where the loop of the iterate function is, or will start.                *)
Pos == IF pc = "between" THEN StartOf(table_idx, private) ELSE cur

PositionOK ==
  /\ pc \in {"none", "between", "filling"}
  /\ table_id \in {ALL_TABLES, 0, 1} /\ key \in {NoFlow} \cup ExactFlows
  /\ table_idx \in 0 .. 2
  /\ private \in (0 .. ULONG_MAX) \X (0 .. 2)
  /\ cur \in Int
  /\ fill \in 0 .. PAGE
  /\ pc = "filling" => fill < PAGE
  /\ reported \in [Entry -> 0 .. 2]
  /\ wrapped \in BOOLEAN
  /\ pc # "none" /\ table_id = 1 => table_idx # 0
  /\ pc # "none" /\ table_idx = 0 => Pos \in 0 .. ULONG_MAX
  /\ pc # "none" /\ table_idx = 0 /\ key # NoFlow => Pos \in {0, ULONG_MAX}

DumpTypes == BucketsOK /\ LinearOK /\ StayedOK /\ PositionOK

(* The entries the dump has still to come to.                               *)
HashAhead(t, b) == table_idx = 0 /\ (Sub < t \/ (Sub = t /\ Pos <= b))
LinearAhead(f)  == table_idx = 0 \/ (table_idx = 1 /\ linear[f] <= Pos)
Ahead(e) == IF e[1] = LINEAR THEN LinearAhead(e[2])
            ELSE HashAhead(e[1], Hash(e[1], e[2]))

(* What is behind the position has been reported.                           *)
BehindReported ==
  pc # "none" => \A e \in stayed : Asked(e) /\ ~Ahead(e) => reported[e] >= 1

(* What is ahead of it has not.                                             *)
AheadUnreported ==
  pc # "none" /\ ~wrapped => \A e \in stayed : Ahead(e) => reported[e] = 0

(* What an entry is.                                                        *)
LEMMA Entries ==
  ASSUME NEW e \in Entry
  PROVE  /\ e[1] \in 0 .. 2 /\ e[2] \in Flows /\ e = <<e[1], e[2]>>
         /\ e[1] # LINEAR => e[1] \in 0 .. 1
         /\ \A t, f : e = <<t, f>> <=> e[1] = t /\ e[2] = f
BY DEF Entry, LINEAR

(* An entry that stayed is in its place.                                    *)
LEMMA StayedEntry ==
  ASSUME DumpTypes, NEW e \in stayed
  PROVE  /\ e \in Entry
         /\ e[1] = LINEAR => /\ e[2] \in DOMAIN linear /\ linear[e[2]] \in Nat
                             /\ linear[e[2]] <= ULONG_MAX
         /\ e[1] # LINEAR => /\ e[1] \in 0 .. 1 /\ e[2] \in ExactFlows
                             /\ Hash(e[1], e[2]) \in Buckets
                             /\ buckets[e[1]][Hash(e[1], e[2])] = e[2]
                             /\ e[2] # NoFlow
<1>1. e \in Entry /\ HasEntry(e)
  BY DEF DumpTypes, StayedOK, Present
<1>2. e[1] # LINEAR => e[1] \in 0 .. 1 /\ e[2] \in ExactFlows
  BY <1>1, Entries DEF HasEntry
<1>3. e[2] \in ExactFlows /\ e[1] \in 0 .. 1
        => Hash(e[1], e[2]) \in Buckets /\ e[2] # NoFlow
  BY DumpAssumption DEF Buckets, Flows
<1>4. e[1] = LINEAR => /\ e[2] \in DOMAIN linear /\ linear[e[2]] \in Nat
                       /\ linear[e[2]] <= ULONG_MAX
  BY <1>1, DumpAssumption DEF HasEntry, DumpTypes, LinearOK
<1> QED
  BY <1>1, <1>2, <1>3, <1>4 DEF HasEntry

-----------------------------------------------------------------------------
(* The tables change between two messages.                                  *)

(* A change that leaves the entries that stay in their places.              *)
KeepsPlaces ==
  /\ stayed' \subseteq stayed
  /\ \A e \in stayed' : e[1] = LINEAR => linear'[e[2]] = linear[e[2]]
  /\ UNCHANGED Unchanged

(* Such a change keeps what the invariant says of the dump.                 *)
LEMMA ChangeKeeps ==
  ASSUME KeepsPlaces
  PROVE  /\ PositionOK => PositionOK'
         /\ BehindReported => BehindReported'
         /\ AheadUnreported => AheadUnreported'
         /\ NoFlowTwice => NoFlowTwice'
<1>1. PositionOK => PositionOK'
  BY DEF KeepsPlaces, Unchanged, req, PositionOK, Pos, StartOf
<1>2. ASSUME NEW e \in stayed'
      PROVE  /\ Ahead(e)' <=> Ahead(e)
             /\ Asked(e)' <=> Asked(e)
  <2>1. \A t, b : HashAhead(t, b)' <=> HashAhead(t, b)
    BY DEF KeepsPlaces, Unchanged, HashAhead, Sub, Pos, StartOf
  <2>2. e[1] = LINEAR => (LinearAhead(e[2])' <=> LinearAhead(e[2]))
    BY <1>2 DEF KeepsPlaces, Unchanged, LinearAhead, Pos, StartOf
  <2>3. Asked(e)' <=> Asked(e)
    BY DEF KeepsPlaces, Unchanged, req, Asked, Matches
  <2> QED
    BY <2>1, <2>2, <2>3 DEF Ahead
<1>3. UNCHANGED <<pc, reported, wrapped>> /\ stayed' \subseteq stayed
  BY DEF KeepsPlaces, Unchanged
<1>4. BehindReported => BehindReported'
  BY <1>2, <1>3 DEF BehindReported
<1>5. AheadUnreported => AheadUnreported'
  BY <1>2, <1>3 DEF AheadUnreported
<1>6. NoFlowTwice => NoFlowTwice'
  BY <1>3 DEF NoFlowTwice
<1> QED
  BY <1>1, <1>4, <1>5, <1>6

(* A new entry takes a free bucket, or the next serial; a flow that         *)
(* replaces itself changes nothing.                                         *)
LEMMA InsertKeeps ==
  ASSUME DumpTypes, InsertFlow
  PROVE  KeepsPlaces /\ BucketsOK' /\ LinearOK' /\ StayedOK'
<1> USE DEF DumpTypes
<1>0. PICK f \in Flows :
        \/ \E t \in 0 .. 1 :
             /\ f \in ExactFlows /\ buckets[t][Hash(t, f)] \in {NoFlow, f}
             /\ buckets' = [buckets EXCEPT ![t][Hash(t, f)] = f]
             /\ UNCHANGED <<linear, next_serial>>
        \/ /\ f \notin DOMAIN linear /\ next_serial <= MAX_SERIAL
           /\ linear' = [g \in DOMAIN linear \cup {f} |->
                           IF g = f THEN next_serial ELSE linear[g]]
           /\ next_serial' = NextSerial
           /\ UNCHANGED buckets
  BY DEF InsertFlow, Takes
<1>1. UNCHANGED Unchanged /\ stayed' = stayed
  BY DEF InsertFlow
<1>2. CASE \E t \in 0 .. 1 :
             /\ f \in ExactFlows /\ buckets[t][Hash(t, f)] \in {NoFlow, f}
             /\ buckets' = [buckets EXCEPT ![t][Hash(t, f)] = f]
             /\ UNCHANGED <<linear, next_serial>>
  <2>1. PICK t \in 0 .. 1 :
          /\ f \in ExactFlows /\ buckets[t][Hash(t, f)] \in {NoFlow, f}
          /\ buckets' = [buckets EXCEPT ![t][Hash(t, f)] = f]
          /\ UNCHANGED <<linear, next_serial>>
    BY <1>2
  <2>2. Hash(t, f) \in Buckets
    BY <2>1, DumpAssumption DEF Buckets
  <2>3. buckets' \in [0 .. 1 -> [Buckets -> ExactFlows \cup {NoFlow}]]
    BY <2>1, <2>2 DEF BucketsOK
  <2>4. \A u \in 0 .. 1, c \in Buckets :
          buckets'[u][c] = IF u = t /\ c = Hash(t, f) THEN f ELSE buckets[u][c]
    BY <2>1, <2>2 DEF BucketsOK
  <2>5. BucketsOK'
    BY <2>3, <2>4 DEF BucketsOK
  <2>6. LinearOK'
    BY <2>1 DEF LinearOK
  <2>7. KeepsPlaces
    BY <2>1, <1>1 DEF KeepsPlaces
  <2>8. \A u \in 0 .. 1, c \in Buckets :
          buckets[u][c] # NoFlow => buckets'[u][c] = buckets[u][c]
    BY <2>1, <2>4
  <2>9. StayedOK'
    <3> SUFFICES ASSUME NEW e \in stayed PROVE e \in Entry /\ HasEntry(e)'
      BY <1>1 DEF StayedOK, Present
    <3>1. linear' = linear
      BY <2>1
    <3>2. CASE e[1] = LINEAR
      BY <3>1, <3>2, StayedEntry DEF HasEntry
    <3>3. CASE e[1] # LINEAR
      BY <3>3, <2>8, StayedEntry DEF HasEntry
    <3> QED
      BY <3>2, <3>3
  <2> QED
    BY <2>5, <2>6, <2>7, <2>9
<1>3. CASE /\ f \notin DOMAIN linear /\ next_serial <= MAX_SERIAL
           /\ linear' = [g \in DOMAIN linear \cup {f} |->
                           IF g = f THEN next_serial ELSE linear[g]]
           /\ next_serial' = NextSerial
           /\ UNCHANGED buckets
  <2>1. /\ DOMAIN linear' = DOMAIN linear \cup {f}
        /\ linear'[f] = next_serial
        /\ \A g \in DOMAIN linear : linear'[g] = linear[g]
    BY <1>3
  <2>2. BucketsOK'
    BY <1>3 DEF BucketsOK
  <2>3. LinearOK'
    <3>1. DOMAIN linear' \subseteq Flows
      BY <2>1 DEF LinearOK
    <3>2. next_serial' = next_serial + 1 /\ next_serial \in Nat
      BY <1>3 DEF LinearOK, NextSerial
    <3>3. \A g \in DOMAIN linear' :
            /\ linear'[g] \in Nat
            /\ linear'[g] < next_serial' /\ linear'[g] <= MAX_SERIAL
      BY <1>3, <2>1, <3>2, DumpAssumption DEF LinearOK
    <3>4. \A g, h \in DOMAIN linear' : linear'[g] = linear'[h] => g = h
      BY <2>1, <3>2 DEF LinearOK
    <3> QED
      BY <3>1, <3>2, <3>3, <3>4 DEF LinearOK
  <2>4. KeepsPlaces
    BY <2>1, <1>1, StayedEntry DEF KeepsPlaces
  <2>5. StayedOK'
    <3> SUFFICES ASSUME NEW e \in stayed PROVE e \in Entry /\ HasEntry(e)'
      BY <1>1 DEF StayedOK, Present
    <3> QED
      BY <1>3, <2>1, StayedEntry DEF HasEntry
  <2> QED
    BY <2>2, <2>3, <2>4, <2>5
<1> QED
  BY <1>0, <1>2, <1>3

(* An entry that is taken away is no longer one that stayed.                *)
LEMMA RemoveKeeps ==
  ASSUME DumpTypes, RemoveFlow
  PROVE  KeepsPlaces /\ BucketsOK' /\ LinearOK' /\ StayedOK'
<1> USE DEF DumpTypes
<1>1. PICK gone \in SUBSET Present \ {{}} :
        /\ buckets' = [t \in 0 .. 1 |-> [b \in Buckets |->
             IF <<t, buckets[t][b]>> \in gone THEN NoFlow ELSE buckets[t][b]]]
        /\ linear' = [f \in {g \in DOMAIN linear : <<LINEAR, g>> \notin gone}
                        |-> linear[f]]
        /\ stayed' = stayed \ gone
  BY DEF RemoveFlow
<1>2. UNCHANGED <<next_serial, Unchanged>>
  BY DEF RemoveFlow
<1>3. \A t \in 0 .. 1, b \in Buckets :
        buckets'[t][b] = IF <<t, buckets[t][b]>> \in gone THEN NoFlow
                         ELSE buckets[t][b]
  BY <1>1
<1>4. /\ DOMAIN linear' = {g \in DOMAIN linear : <<LINEAR, g>> \notin gone}
      /\ \A g \in DOMAIN linear' : linear'[g] = linear[g]
  BY <1>1
<1>5. BucketsOK'
  <2>1. buckets' \in [0 .. 1 -> [Buckets -> ExactFlows \cup {NoFlow}]]
    BY <1>1 DEF BucketsOK
  <2> QED
    BY <2>1, <1>3 DEF BucketsOK
<1>6. LinearOK'
  BY <1>2, <1>4 DEF LinearOK
<1>7. ASSUME NEW e \in stayed'
      PROVE  /\ e \in Entry /\ HasEntry(e)'
             /\ e[1] = LINEAR => linear'[e[2]] = linear[e[2]]
  <2>1. e \in stayed /\ e \notin gone
    BY <1>1
  <2>2. e \in Entry /\ e = <<e[1], e[2]>>
    BY <2>1, StayedEntry, Entries
  <2>3. CASE e[1] = LINEAR
    <3>1. e[2] \in DOMAIN linear' /\ linear'[e[2]] = linear[e[2]]
      BY <2>1, <2>2, <2>3, <1>4, StayedEntry
    <3> QED
      BY <2>2, <2>3, <3>1 DEF HasEntry
  <2>4. CASE e[1] # LINEAR
    <3>1. /\ e[1] \in 0 .. 1 /\ Hash(e[1], e[2]) \in Buckets
          /\ buckets[e[1]][Hash(e[1], e[2])] = e[2] /\ e[2] \in ExactFlows
      BY <2>1, <2>4, StayedEntry
    <3>2. buckets'[e[1]][Hash(e[1], e[2])] = e[2]
      BY <3>1, <2>1, <2>2, <1>3
    <3> QED
      BY <2>2, <2>4, <3>1, <3>2 DEF HasEntry
  <2> QED
    BY <2>3, <2>4
<1>8. KeepsPlaces
  BY <1>1, <1>2, <1>7 DEF KeepsPlaces
<1>9. StayedOK'
  BY <1>7 DEF StayedOK, Present
<1> QED
  BY <1>5, <1>6, <1>8, <1>9

-----------------------------------------------------------------------------
(* The steps of the dump leave the tables alone.                            *)

(* What the position of a table that is about to be read is.                *)
LEMMA WordFacts ==
  /\ StartOf(0, <<0, 0>>) = 0 /\ StartOf(1, <<0, 0>>) = ULONG_MAX
  /\ StartOf(2, <<0, 0>>) = 0
  /\ \A x \in 0 .. ULONG_MAX : \A y : StartOf(0, <<x, y>>) = x
  /\ \A s \in 0 .. ULONG_MAX :
       /\ NotWord(MinusOne(s)) \in 0 .. ULONG_MAX
       /\ \A y : s # 0 => StartOf(1, <<NotWord(MinusOne(s)), y>>) = s - 1
       /\ \A y : s = 0 => StartOf(1, <<NotWord(MinusOne(s)), y>>) = ULONG_MAX
BY DumpAssumption DEF StartOf, NotWord, MinusOne

(* The unchanged tables keep their part of the invariant.                   *)
LEMMA TabsUnchanged ==
  ASSUME DumpTypes, UNCHANGED tabs
  PROVE  /\ BucketsOK' /\ LinearOK' /\ Present' = Present
         /\ UNCHANGED stayed => StayedOK'
<1>1. BucketsOK'
  BY DEF DumpTypes, BucketsOK, tabs
<1>2. LinearOK'
  BY DEF DumpTypes, LinearOK, tabs
<1>3. Present' = Present
  BY DEF Present, HasEntry, tabs
<1> QED
  BY <1>1, <1>2, <1>3 DEF DumpTypes, StayedOK

(* The request: everything is ahead, or in a table it does not ask for.     *)
LEMMA StartKeeps ==
  ASSUME DumpTypes, StartDump
  PROVE  DumpTypes' /\ BehindReported' /\ AheadUnreported' /\ NoFlowTwice'
<1>1. /\ UNCHANGED tabs /\ pc' = "between" /\ private' = <<0, 0>>
      /\ reported' = [e \in Entry |-> 0] /\ stayed' = Present
      /\ wrapped' = FALSE
      /\ table_id' \in {ALL_TABLES, 0, 1} /\ key' \in {NoFlow} \cup ExactFlows
      /\ table_idx' = (IF table_id' = ALL_TABLES THEN 0 ELSE table_id')
      /\ cur' = 0 /\ fill' = 0
  BY DEF StartDump
<1>2. /\ table_idx' \in {0, 1} /\ (table_idx' = 1 <=> table_id' = 1)
      /\ Pos' = (IF table_idx' = 0 THEN 0 ELSE ULONG_MAX)
  BY <1>1, WordFacts DEF ALL_TABLES, Pos
<1>3. StayedOK' /\ BucketsOK' /\ LinearOK'
  BY <1>1, TabsUnchanged DEF StayedOK
<1>4. \A e \in stayed' : reported'[e] = 0
  BY <1>1 DEF Present
<1>5. PositionOK'
  <2>1. private' \in (0 .. ULONG_MAX) \X (0 .. 2)
    BY <1>1, DumpAssumption
  <2>2. reported' \in [Entry -> 0 .. 2]
    BY <1>1
  <2>3. wrapped' \in BOOLEAN
    BY <1>1
  <2> QED
    BY <1>1, <1>2, <2>1, <2>2, <2>3, DumpAssumption DEF PositionOK
<1>6. NoFlowTwice' /\ AheadUnreported'
  BY <1>4 DEF NoFlowTwice, AheadUnreported
<1>7. ASSUME NEW e \in stayed', Asked(e)'
      PROVE  Ahead(e)'
  <2>1. e \in Entry /\ HasEntry(e)
    BY <1>1 DEF Present
  <2>2. CASE e[1] = LINEAR
    <3>1. linear'[e[2]] \in Nat /\ linear'[e[2]] <= ULONG_MAX
      BY <2>1, <2>2, <1>1, DumpAssumption
      DEF HasEntry, DumpTypes, LinearOK, tabs
    <3> QED
      BY <2>2, <3>1, <1>2 DEF Ahead, LinearAhead
  <2>3. CASE e[1] # LINEAR
    <3>1. table_id' \in {ALL_TABLES, 0}
      BY <2>3, <1>7 DEF Asked
    <3>2. table_idx' = 0 /\ Pos' = 0 /\ Sub' = 0
      BY <3>1, <1>1, <1>2 DEF Sub, ALL_TABLES
    <3>3. e[1] \in 0 .. 1 /\ e[2] \in ExactFlows
      BY <2>1, <2>3, Entries DEF HasEntry
    <3>4. Hash(e[1], e[2]) \in Nat
      BY <3>3, DumpAssumption
    <3> QED
      BY <2>3, <3>2, <3>3, <3>4 DEF Ahead, HashAhead
  <2> QED
    BY <2>2, <2>3
<1>8. BehindReported'
  BY <1>7 DEF BehindReported
<1> QED
  BY <1>3, <1>5, <1>6, <1>8 DEF DumpTypes

(* A step that only moves the position: nothing that was asked for is       *)
(* passed, and nothing comes up again.                                      *)
LEMMA MoveKeeps ==
  ASSUME UNCHANGED <<tabs, req, reported, stayed, wrapped>>, pc # "none",
         \A e \in stayed : Asked(e) /\ Ahead(e) => Ahead(e)',
         \A e \in stayed : Ahead(e)' => Ahead(e)
  PROVE  /\ BehindReported => BehindReported'
         /\ AheadUnreported => AheadUnreported'
         /\ NoFlowTwice => NoFlowTwice'
<1>1. ASSUME NEW e PROVE Asked(e)' <=> Asked(e)
  BY DEF Asked, Matches, tabs, req
<1>2. BehindReported => BehindReported'
  BY <1>1 DEF BehindReported
<1>3. AheadUnreported => AheadUnreported'
  BY DEF AheadUnreported
<1>4. NoFlowTwice => NoFlowTwice'
  BY DEF NoFlowTwice
<1> QED
  BY <1>2, <1>3, <1>4

(* The next message starts from the position that was kept.                 *)
LEMMA BeginKeeps ==
  ASSUME DumpTypes, BeginMessage
  PROVE  /\ DumpTypes'
         /\ BehindReported => BehindReported'
         /\ AheadUnreported => AheadUnreported'
         /\ NoFlowTwice => NoFlowTwice'
<1>1. /\ pc = "between" /\ pc' = "filling" /\ fill' = 0
      /\ cur' = StartOf(table_idx, private)
      /\ UNCHANGED <<tabs, req, table_idx, private, reported, stayed, wrapped>>
  BY DEF BeginMessage
<1>2. Pos' = Pos
  BY <1>1 DEF Pos
<1>3. cur' \in Int
  BY <1>1, DumpAssumption DEF DumpTypes, PositionOK, StartOf, NotWord
<1>4. PositionOK'
  BY <1>1, <1>2, <1>3, DumpAssumption DEF DumpTypes, PositionOK, req
<1>5. \A e : Ahead(e)' <=> Ahead(e)
  <2>1. \A t, b : HashAhead(t, b)' <=> HashAhead(t, b)
    BY <1>1, <1>2 DEF HashAhead, Sub
  <2>2. \A f : LinearAhead(f)' <=> LinearAhead(f)
    BY <1>1, <1>2 DEF LinearAhead, tabs
  <2> QED
    BY <2>1, <2>2 DEF Ahead
<1>6. UNCHANGED <<tabs, req, reported, stayed, wrapped>> /\ pc # "none"
  BY <1>1
<1> QED
  BY <1>1, <1>4, <1>5, <1>6, MoveKeeps, TabsUnchanged DEF DumpTypes

(* The subtable has no flow left at or after the position, so the dump goes *)
(* on; the linear table then starts with all of its flows ahead.            *)
LEMMA HashDoneKeeps ==
  ASSUME DumpTypes, HashDone
  PROVE  /\ DumpTypes'
         /\ BehindReported => BehindReported'
         /\ AheadUnreported => AheadUnreported'
         /\ NoFlowTwice => NoFlowTwice'
<1>1. /\ pc = "filling" /\ table_idx = 0 /\ (Sub < 2 => HashLeft = {})
      /\ UNCHANGED <<tabs, req, pc, fill, reported, stayed, wrapped>>
  BY DEF HashDone, InTable
<1>2. Pos = cur /\ Pos' = cur' /\ Sub \in 0 .. 2 /\ cur \in 0 .. ULONG_MAX
  BY <1>1 DEF Pos, Sub, DumpTypes, PositionOK
<1>3. \/ Sub < 2 /\ private' = <<0, Sub + 1>> /\ cur' = 0 /\ table_idx' = 0
      \/ Sub = 2 /\ private' = <<0, 0>> /\ cur' = ULONG_MAX /\ table_idx' = 1
  BY <1>1, <1>2, WordFacts DEF HashDone, NextTable
<1>4. PositionOK'
  <2>1. private' \in (0 .. ULONG_MAX) \X (0 .. 2)
    BY <1>2, <1>3, DumpAssumption
  <2> QED
    BY <1>1, <1>2, <1>3, <2>1, DumpAssumption DEF DumpTypes, PositionOK, req
<1>5. ASSUME NEW t \in 0 .. 1, NEW b \in Buckets, HashAhead(t, b)'
      PROVE  HashAhead(t, b)
  <2>1. Sub < 2 /\ private'[2] = Sub + 1 /\ Sub + 1 <= t
    BY <1>2, <1>3, <1>5 DEF HashAhead, Sub
  <2> QED
    BY <2>1, <1>1, <1>2 DEF HashAhead
<1>6. ASSUME NEW e \in stayed, e[1] # LINEAR, Asked(e), Ahead(e)
      PROVE  Ahead(e)'
  <2> DEFINE t == e[1]
             b == Hash(t, e[2])
  <2>0. /\ t \in 0 .. 1 /\ b \in Buckets /\ buckets[t][b] = e[2]
        /\ e[2] # NoFlow /\ HashAhead(t, b)
    BY <1>6, StayedEntry DEF Ahead
  <2>1. Sub < 2 /\ private' = <<0, Sub + 1>> /\ cur' = 0 /\ table_idx' = 0
    BY <2>0, <1>2, <1>3 DEF HashAhead
  <2>2. CASE Sub < t
    <3> HIDE DEF t, b
    <3>1. HashAhead(t, b)'
      BY <2>0, <2>1, <2>2, <1>2 DEF HashAhead, Sub, Buckets
    <3> QED
      BY <3>1, <1>6 DEF Ahead, t, b
  <2>3. CASE Sub = t /\ cur <= b
    <3>1. key # NoFlow => e[2] = key
      BY <1>6 DEF Asked, Matches
    <3>2. cur < N_BUCKETS
      BY <2>0, <2>3, <1>2, DumpAssumption DEF Buckets
    <3>3. b \in HashLeft
      BY <2>0, <2>3, <3>1, <3>2 DEF HashLeft
    <3> QED
      BY <3>3, <2>1, <1>1
  <2> QED
    BY <2>0, <2>2, <2>3, <1>2 DEF HashAhead
<1>7. ASSUME NEW e \in stayed, e[1] = LINEAR
      PROVE  Ahead(e) /\ Ahead(e)'
  <2>1. /\ linear' = linear /\ linear[e[2]] \in Nat /\ linear[e[2]] <= ULONG_MAX
    BY <1>1, <1>7, StayedEntry DEF tabs
  <2> QED
    BY <2>1, <1>1, <1>2, <1>3, <1>7 DEF Ahead, LinearAhead
<1>8. ASSUME NEW e \in stayed, e[1] # LINEAR, Ahead(e)'
      PROVE  Ahead(e)
  BY <1>5, <1>8, StayedEntry DEF Ahead
<1>9. UNCHANGED <<tabs, req, reported, stayed, wrapped>> /\ pc # "none"
  BY <1>1
<1> QED
  BY <1>4, <1>6, <1>7, <1>8, <1>9, MoveKeeps, TabsUnchanged DEF DumpTypes

(* The linear table has no flow left that the request asks for.             *)
LEMMA LinearDoneKeeps ==
  ASSUME DumpTypes, LinearDone
  PROVE  /\ DumpTypes'
         /\ BehindReported => BehindReported'
         /\ AheadUnreported => AheadUnreported'
         /\ NoFlowTwice => NoFlowTwice'
<1>1. /\ pc = "filling" /\ table_idx = 1 /\ LinearLeft = {}
      /\ private' = <<0, 0>> /\ table_idx' = 2
      /\ UNCHANGED <<tabs, req, pc, fill, reported, stayed, wrapped>>
  BY DEF LinearDone, InTable, NextTable
<1>2. cur' = 0
  BY <1>1, WordFacts DEF LinearDone, NextTable
<1>3. PositionOK'
  <2>1. private' \in (0 .. ULONG_MAX) \X (0 .. 2)
    BY <1>1, DumpAssumption
  <2> QED
    BY <1>1, <1>2, <2>1, DumpAssumption DEF DumpTypes, PositionOK, req
<1>4. \A e : ~Ahead(e)'
  BY <1>1 DEF Ahead, HashAhead, LinearAhead
<1>5. ASSUME NEW e \in stayed, Asked(e) PROVE ~Ahead(e)
  <2>1. CASE e[1] = LINEAR
    BY <2>1, <1>1, <1>5, StayedEntry DEF Ahead, LinearAhead, LinearLeft, Asked, Pos
  <2>2. CASE e[1] # LINEAR
    BY <2>2, <1>1 DEF Ahead, HashAhead
  <2> QED
    BY <2>1, <2>2
<1>6. UNCHANGED <<tabs, req, reported, stayed, wrapped>> /\ pc # "none"
  BY <1>1
<1> QED
  BY <1>3, <1>4, <1>5, <1>6, MoveKeeps, TabsUnchanged DEF DumpTypes

(* The state of the dump as it is while there is none.                      *)
LEMMA NoDump ==
  ASSUME BucketsOK, LinearOK,
         pc = "none" /\ table_id = ALL_TABLES /\ key = NoFlow,
         table_idx = 0 /\ private = <<0, 0>> /\ cur = 0 /\ fill = 0,
         reported = [e \in Entry |-> 0] /\ stayed = {} /\ wrapped = FALSE
  PROVE  DumpTypes /\ BehindReported /\ AheadUnreported /\ NoFlowTwice
<1>1. private \in (0 .. ULONG_MAX) \X (0 .. 2)
  BY DumpAssumption
<1>2. reported \in [Entry -> 0 .. 2]
  OBVIOUS
<1>b. wrapped \in BOOLEAN
  OBVIOUS
<1>3. PositionOK
  BY <1>1, <1>2, <1>b, DumpAssumption DEF PositionOK
<1> QED
  BY <1>3 DEF DumpTypes, StayedOK, BehindReported, AheadUnreported, NoFlowTwice

(* The reply ends.                                                          *)
LEMMA EndKeeps ==
  ASSUME DumpTypes, DumpDone
  PROVE  DumpTypes' /\ BehindReported' /\ AheadUnreported' /\ NoFlowTwice'
<1>1. BucketsOK' /\ LinearOK'
  BY TabsUnchanged DEF DumpDone
<1>2. private' \in (0 .. ULONG_MAX) \X (0 .. 2)
  BY DumpAssumption DEF DumpDone
<1>3. reported' \in [Entry -> 0 .. 2]
  BY DEF DumpDone
<1>b. wrapped' \in BOOLEAN
  BY DEF DumpDone
<1>4. PositionOK'
  BY <1>2, <1>3, <1>b, DumpAssumption DEF PositionOK, DumpDone
<1> QED
  BY <1>1, <1>4
  DEF DumpDone, DumpTypes, StayedOK, BehindReported, AheadUnreported, NoFlowTwice

-----------------------------------------------------------------------------
(* An entry is reported, and the position moves past it.                    *)

(* The callback's effects.                                                  *)
LEMMA ReportEffect ==
  ASSUME DumpTypes, pc = "filling", NEW g \in Entry, NEW stop, NEW next,
         Report(g, stop, next)
  PROVE  /\ UNCHANGED <<tabs, req, table_idx, stayed>>
         /\ reported' \in [Entry -> 0 .. 2]
         /\ reported'[g] = (IF reported[g] < 2 THEN reported[g] + 1 ELSE 2)
         /\ \A e \in Entry : e # g => reported'[e] = reported[e]
         /\ fill' \in 0 .. PAGE
         /\ \/ pc' = "between" /\ private' = stop /\ cur' = 0
               /\ Pos' = StartOf(table_idx, stop)
            \/ pc' = "filling" /\ private' = private /\ cur' = next
               /\ Pos' = next /\ fill' < PAGE
<1>1. /\ UNCHANGED <<tabs, req, table_idx, stayed>>
      /\ reported' = [reported EXCEPT ![g] = IF @ < 2 THEN @ + 1 ELSE 2]
      /\ fill' = fill + 1
      /\ \/ fill + 1 >= PAGE /\ pc' = "between" /\ private' = stop /\ cur' = 0
         \/ fill + 1 < PAGE /\ cur' = next /\ UNCHANGED <<pc, private>>
  BY DEF Report
<1>2. reported \in [Entry -> 0 .. 2] /\ fill \in 0 .. PAGE /\ fill < PAGE
  BY DEF DumpTypes, PositionOK
<1>3. /\ reported' \in [Entry -> 0 .. 2]
      /\ reported'[g] = (IF reported[g] < 2 THEN reported[g] + 1 ELSE 2)
      /\ \A e \in Entry : e # g => reported'[e] = reported[e]
  BY <1>1, <1>2
<1>4. fill' \in 0 .. PAGE
  BY <1>1, <1>2, DumpAssumption
<1>5. \/ pc' = "between" /\ private' = stop /\ cur' = 0
         /\ Pos' = StartOf(table_idx, stop)
      \/ pc' = "filling" /\ private' = private /\ cur' = next
         /\ Pos' = next /\ fill' < PAGE
  BY <1>1 DEF Pos
<1> QED
  BY <1>1, <1>3, <1>4, <1>5

(* Nothing but the reported entry is passed.                                *)
LEMMA ReportBehind ==
  ASSUME DumpTypes, BehindReported, pc = "filling", NEW g \in Entry,
         NEW stop, NEW next, Report(g, stop, next),
         \A e \in stayed : e # g /\ Asked(e) /\ Ahead(e) => Ahead(e)'
  PROVE  BehindReported'
<1>1. /\ UNCHANGED <<tabs, req, stayed>>
      /\ \A e \in Entry : e # g => reported'[e] = reported[e]
      /\ reported \in [Entry -> 0 .. 2]
      /\ reported'[g] = (IF reported[g] < 2 THEN reported[g] + 1 ELSE 2)
  BY ReportEffect DEF DumpTypes, PositionOK
<1>2. reported'[g] >= 1
  BY <1>1
<1>3. ASSUME NEW e PROVE Asked(e)' <=> Asked(e)
  BY <1>1 DEF Asked, Matches, req
<1>4. ASSUME NEW e \in stayed', Asked(e)', ~Ahead(e)', e # g
      PROVE  reported'[e] >= 1
  <2>1. e \in stayed /\ e \in Entry
    BY <1>1, StayedEntry
  <2>2. reported[e] >= 1
    BY <2>1, <1>3, <1>4 DEF BehindReported
  <2> QED
    BY <2>1, <2>2, <1>1, <1>4
<1> QED
  BY <1>2, <1>4 DEF BehindReported

(* The reported entry was ahead of the position and is behind it now.       *)
LEMMA ReportAhead ==
  ASSUME DumpTypes, AheadUnreported, NoFlowTwice, pc = "filling", ~wrapped,
         NEW g \in Entry, NEW stop, NEW next, Report(g, stop, next),
         g \in stayed => Ahead(g),
         \A e \in stayed : Ahead(e)' => Ahead(e) /\ e # g
  PROVE  AheadUnreported' /\ NoFlowTwice'
<1>1. /\ stayed' = stayed
      /\ \A e \in Entry : e # g => reported'[e] = reported[e]
      /\ reported'[g] = (IF reported[g] < 2 THEN reported[g] + 1 ELSE 2)
  BY ReportEffect
<1>2. stayed \subseteq Entry
  BY StayedEntry
<1>3. g \in stayed => reported[g] = 0
  BY DEF AheadUnreported
<1>4. NoFlowTwice'
  BY <1>1, <1>2, <1>3 DEF NoFlowTwice
<1>5. AheadUnreported'
  BY <1>1, <1>2 DEF AheadUnreported
<1> QED
  BY <1>4, <1>5

(* The first flow left of the subtable: the position moves past its bucket. *)
LEMMA HashFlowKeeps ==
  ASSUME DumpTypes, HashFlow
  PROVE  /\ DumpTypes'
         /\ BehindReported => BehindReported'
         /\ AheadUnreported /\ NoFlowTwice => AheadUnreported' /\ NoFlowTwice'
<1>1. /\ pc = "filling" /\ table_idx = 0 /\ Sub < 2 /\ wrapped' = wrapped
  BY DEF HashFlow, InTable
<1>2. PICK b \in HashLeft :
        /\ \A c \in HashLeft : b <= c
        /\ Report(<<Sub, buckets[Sub][b]>>, <<AfterBucket(b), Sub>>,
                  AfterBucket(b))
  BY DEF HashFlow
<1> DEFINE f == buckets[Sub][b]
           g == <<Sub, f>>
           a == AfterBucket(b)
<1>3. Sub \in 0 .. 1 /\ Pos = cur /\ cur \in 0 .. ULONG_MAX
  BY <1>1 DEF Pos, Sub, DumpTypes, PositionOK
<1>4. /\ b \in Buckets /\ f # NoFlow /\ cur <= b
      /\ key # NoFlow => f = key
  <2>1. key # NoFlow => cur \in {0, ULONG_MAX}
    BY <1>1, <1>3 DEF DumpTypes, PositionOK
  <2> QED
    BY <2>1, <1>3, DumpAssumption DEF HashLeft, Buckets
<1>5. f \in ExactFlows /\ b = Hash(Sub, f)
  BY <1>3, <1>4 DEF DumpTypes, BucketsOK
<1>6. /\ a \in 0 .. ULONG_MAX /\ b < a /\ cur < a
      /\ key # NoFlow => a = ULONG_MAX
      /\ key = NoFlow => a = b + 1
  BY <1>3, <1>4, DumpAssumption DEF AfterBucket, Buckets
<1>7. g \in Entry /\ g[1] = Sub /\ g[2] = f /\ Report(g, <<a, Sub>>, a)
  BY <1>2, <1>3, <1>5 DEF Entry, Flows
<1> HIDE DEF f, g, a
<1>8. /\ UNCHANGED <<tabs, req, table_idx, stayed>>
      /\ reported' \in [Entry -> 0 .. 2]
      /\ fill' \in 0 .. PAGE
      /\ \/ pc' = "between" /\ private' = <<a, Sub>> /\ cur' = 0
            /\ Pos' = StartOf(table_idx, <<a, Sub>>)
         \/ pc' = "filling" /\ private' = private /\ cur' = a
            /\ Pos' = a /\ fill' < PAGE
  BY <1>1, <1>7, ReportEffect
<1>9. Pos' = a /\ Sub' = Sub /\ table_idx' = 0
  BY <1>1, <1>6, <1>8, WordFacts DEF Sub
<1>10. PositionOK'
  <2>1. private' \in (0 .. ULONG_MAX) \X (0 .. 2)
    <3>1. private \in (0 .. ULONG_MAX) \X (0 .. 2)
      BY DEF DumpTypes, PositionOK
    <3> QED
      BY <3>1, <1>3, <1>6, <1>8
  <2>2. cur' \in Int /\ pc' \in {"between", "filling"}
        /\ (pc' = "filling" => fill' < PAGE)
    BY <1>6, <1>8
  <2>3. key' = key /\ table_id' = table_id
    BY <1>8 DEF req
  <2>4. key' # NoFlow => Pos' = ULONG_MAX
    BY <2>3, <1>6, <1>9
  <2>5. table_id # 1
    BY <1>1 DEF DumpTypes, PositionOK
  <2> QED
    BY <1>1, <1>6, <1>8, <1>9, <2>1, <2>2, <2>3, <2>4, <2>5
    DEF DumpTypes, PositionOK
<1>11. DumpTypes'
  BY <1>8, <1>10, TabsUnchanged DEF DumpTypes
<1>12. ASSUME NEW e \in stayed, e[1] = LINEAR
       PROVE  Ahead(e) /\ Ahead(e)' /\ e # g
  BY <1>1, <1>3, <1>7, <1>9, <1>12 DEF Ahead, LinearAhead, LINEAR
<1>13. ASSUME NEW e \in stayed, e[1] # LINEAR, Ahead(e)'
       PROVE  Ahead(e) /\ e # g
  <2>1. /\ e[1] \in 0 .. 1 /\ Hash(e[1], e[2]) \in Buckets
    BY <1>13, StayedEntry
  <2>2. Sub < e[1] \/ (Sub = e[1] /\ a <= Hash(e[1], e[2]))
    BY <1>9, <1>13 DEF Ahead, HashAhead
  <2>3. HashAhead(e[1], Hash(e[1], e[2]))
    BY <2>1, <2>2, <1>1, <1>3, <1>6 DEF HashAhead, Buckets
  <2>4. e = g => Hash(e[1], e[2]) = b /\ Sub = e[1]
    BY <1>5, <1>7
  <2>5. e # g
    BY <2>1, <2>2, <2>4, <1>3, <1>4, <1>6 DEF Buckets
  <2> QED
    BY <2>3, <2>5, <1>13 DEF Ahead
<1>14. ASSUME NEW e \in stayed, e[1] # LINEAR, e # g, Asked(e), Ahead(e)
       PROVE  Ahead(e)'
  <2> DEFINE c == Hash(e[1], e[2])
  <2>1. /\ e[1] \in 0 .. 1 /\ c \in Buckets /\ buckets[e[1]][c] = e[2]
        /\ e[2] # NoFlow /\ e \in Entry
    BY <1>14, StayedEntry
  <2>2. Sub < e[1] \/ (Sub = e[1] /\ cur <= c)
    BY <1>3, <1>14 DEF Ahead, HashAhead
  <2>3. CASE Sub < e[1]
    BY <2>3, <1>9, <1>14 DEF Ahead, HashAhead
  <2>4. CASE Sub = e[1] /\ cur <= c
    <3>1. e[2] # f
      BY <2>1, <2>4, <1>7, <1>14, Entries DEF g
    <3>2. key = NoFlow
      BY <3>1, <1>4, <1>14 DEF Asked, Matches
    <3>3. c \in HashLeft /\ c # b
      BY <2>1, <2>4, <3>1, <3>2 DEF HashLeft, f
    <3>4. b <= c
      BY <3>3, <1>2
    <3> HIDE DEF c
    <3>5. a <= c
      BY <3>2, <3>3, <3>4, <2>1, <1>4, <1>6 DEF Buckets
    <3> QED
      BY <3>5, <2>4, <1>9, <1>14 DEF Ahead, HashAhead, c
  <2> QED
    BY <2>2, <2>3, <2>4
<1>15. BehindReported => BehindReported'
  BY <1>1, <1>7, <1>12, <1>14, ReportBehind
<1>16. g \in stayed => Ahead(g)
  BY <1>1, <1>3, <1>4, <1>5, <1>7 DEF Ahead, HashAhead, LINEAR
<1>17. AheadUnreported /\ NoFlowTwice => AheadUnreported' /\ NoFlowTwice'
  <2>1. CASE wrapped
    BY <2>1, <1>1 DEF AheadUnreported, NoFlowTwice
  <2>2. CASE ~wrapped
    BY <2>2, <1>1, <1>7, <1>12, <1>13, <1>16, ReportAhead
  <2> QED
    BY <2>1, <2>2
<1> QED
  BY <1>11, <1>15, <1>17

(* The newest flow left of the linear table: the position moves below its   *)
(* serial.  Serial 0 has nothing below it; the position then wraps, if the  *)
(* message is full.                                                         *)
LEMMA LinearFlowKeeps ==
  ASSUME DumpTypes, LinearFlow
  PROVE  /\ DumpTypes'
         /\ BehindReported => BehindReported'
         /\ AheadUnreported /\ NoFlowTwice => AheadUnreported' /\ NoFlowTwice'
<1>1. /\ pc = "filling" /\ table_idx = 1
  BY DEF LinearFlow, InTable
<1>2. PICK f \in LinearLeft :
        /\ \A h \in LinearLeft : linear[h] <= linear[f]
        /\ Report(<<LINEAR, f>>, LinearStop(f), linear[f] - 1)
        /\ wrapped' = (wrapped \/ (linear[f] = 0 /\ pc' = "between"))
  BY DEF LinearFlow
<1> DEFINE s == linear[f]
           g == <<LINEAR, f>>
<1>3. /\ f \in DOMAIN linear /\ f \in Flows /\ s \in Nat /\ s <= cur
      /\ s \in 0 .. ULONG_MAX
      /\ Pos = cur /\ cur \in Int
  BY <1>1, <1>2, DumpAssumption
  DEF LinearLeft, DumpTypes, LinearOK, PositionOK, Pos
<1>4. /\ g \in Entry /\ g[1] = LINEAR /\ g[2] = f
      /\ Report(g, <<NotWord(MinusOne(s)), 0>>, s - 1)
  BY <1>2, <1>3 DEF LinearStop, Entry, LINEAR
<1> HIDE DEF s, g
<1>5. /\ UNCHANGED <<tabs, req, table_idx, stayed>>
      /\ reported' \in [Entry -> 0 .. 2]
      /\ fill' \in 0 .. PAGE
      /\ \/ pc' = "between" /\ private' = <<NotWord(MinusOne(s)), 0>> /\ cur' = 0
            /\ Pos' = StartOf(table_idx, <<NotWord(MinusOne(s)), 0>>)
         \/ pc' = "filling" /\ private' = private /\ cur' = s - 1
            /\ Pos' = s - 1 /\ fill' < PAGE
  BY <1>1, <1>4, ReportEffect
<1>6. /\ table_idx' = 1 /\ linear' = linear
      /\ Pos' = s - 1 \/ (s = 0 /\ Pos' = ULONG_MAX /\ pc' = "between")
  BY <1>1, <1>3, <1>5, WordFacts DEF tabs
<1>7. PositionOK'
  <2>1. private' \in (0 .. ULONG_MAX) \X (0 .. 2)
    <3>1. private \in (0 .. ULONG_MAX) \X (0 .. 2)
      BY DEF DumpTypes, PositionOK
    <3>2. NotWord(MinusOne(s)) \in 0 .. ULONG_MAX
      BY <1>3, WordFacts
    <3> QED
      BY <3>1, <3>2, <1>5
  <2>2. cur' \in Int /\ pc' \in {"between", "filling"}
        /\ (pc' = "filling" => fill' < PAGE)
    BY <1>3, <1>5
  <2>3. key' = key /\ table_id' = table_id
    BY <1>5 DEF req
  <2>4. wrapped' \in BOOLEAN
    BY <1>2
  <2> QED
    BY <1>5, <1>6, <2>1, <2>2, <2>3, <2>4 DEF DumpTypes, PositionOK
<1>8. DumpTypes'
  BY <1>5, <1>7, TabsUnchanged DEF DumpTypes
<1>9. \A e : e[1] # LINEAR => ~Ahead(e) /\ ~Ahead(e)'
  BY <1>1, <1>6 DEF Ahead, HashAhead
<1>10. ASSUME NEW e \in stayed, e[1] = LINEAR, e # g, Asked(e), Ahead(e)
       PROVE  Ahead(e)'
  <2>1. e[2] \in DOMAIN linear /\ e[2] # f
    BY <1>4, <1>10, StayedEntry, Entries DEF g
  <2>2. e[2] \in LinearLeft
    BY <2>1, <1>1, <1>3, <1>10 DEF Ahead, LinearAhead, LinearLeft, Asked
  <2>3. /\ linear[e[2]] \in Nat /\ linear[e[2]] # s
        /\ linear[e[2]] <= ULONG_MAX
    BY <2>1, <1>3, DumpAssumption DEF DumpTypes, LinearOK, s
  <2>4. linear[e[2]] <= s
    BY <2>2, <1>2 DEF s
  <2>5. linear[e[2]] <= Pos'
    BY <2>3, <2>4, <1>3, <1>6
  <2> QED
    BY <2>5, <1>6, <1>10 DEF Ahead, LinearAhead
<1>11. BehindReported => BehindReported'
  BY <1>1, <1>4, <1>9, <1>10, ReportBehind
<1>12. ASSUME Pos' = s - 1, NEW e \in stayed, e[1] = LINEAR, Ahead(e)'
       PROVE  Ahead(e) /\ e # g
  <2>1. linear[e[2]] \in Nat /\ linear[e[2]] <= s - 1
    BY <1>6, <1>12, StayedEntry DEF Ahead, LinearAhead
  <2>2. linear[e[2]] <= Pos /\ linear[e[2]] # s
    BY <2>1, <1>3
  <2>3. e # g
    BY <2>2, <1>4 DEF s
  <2> QED
    BY <2>2, <2>3, <1>1, <1>12 DEF Ahead, LinearAhead
<1>13. Ahead(g)
  BY <1>1, <1>3, <1>4 DEF Ahead, LinearAhead, s
<1>14. AheadUnreported /\ NoFlowTwice => AheadUnreported' /\ NoFlowTwice'
  <2>1. CASE wrapped'
    BY <2>1 DEF AheadUnreported, NoFlowTwice
  <2>2. CASE ~wrapped'
    <3>1. ~wrapped /\ Pos' = s - 1
      BY <2>2, <1>2, <1>6 DEF s
    <3> QED
      BY <3>1, <1>1, <1>4, <1>9, <1>12, <1>13, ReportAhead
  <2> QED
    BY <2>1, <2>2
<1> QED
  BY <1>8, <1>11, <1>14

-----------------------------------------------------------------------------
(* The invariant of the specification.                                      *)
DumpInv == DumpTypes /\ BehindReported

OnceInv == AheadUnreported /\ NoFlowTwice

LEMMA DumpInit == Init => DumpInv /\ OnceInv
<1> SUFFICES ASSUME Init PROVE DumpInv /\ OnceInv
  OBVIOUS
<1>1. BucketsOK
  BY DEF Init, BucketsOK
<1>2. LinearOK
  BY DEF Init, LinearOK
<1> QED
  BY <1>1, <1>2, NoDump DEF Init, DumpInv, OnceInv

(* Every step keeps it.                                                     *)
LEMMA DumpStep ==
  ASSUME DumpInv, [Next]_vars
  PROVE  DumpInv' /\ (OnceInv => OnceInv')
<1> USE DEF DumpInv, OnceInv
<1>1. CASE InsertFlow
  BY <1>1, InsertKeeps, ChangeKeeps DEF DumpTypes
<1>2. CASE RemoveFlow
  BY <1>2, RemoveKeeps, ChangeKeeps DEF DumpTypes
<1>3. CASE StartDump
  BY <1>3, StartKeeps
<1>4. CASE BeginMessage
  BY <1>4, BeginKeeps
<1>5. CASE HashFlow
  BY <1>5, HashFlowKeeps
<1>6. CASE HashDone
  BY <1>6, HashDoneKeeps
<1>7. CASE LinearFlow
  BY <1>7, LinearFlowKeeps
<1>8. CASE LinearDone
  BY <1>8, LinearDoneKeeps
<1>9. CASE DumpDone
  BY <1>9, EndKeeps
<1>10. CASE UNCHANGED vars
  <2>1. UNCHANGED <<tabs, Unchanged, stayed>>
    BY <1>10 DEF vars, Unchanged
  <2>2. KeepsPlaces
    BY <2>1 DEF KeepsPlaces, tabs
  <2> QED
    BY <2>1, <2>2, ChangeKeeps, TabsUnchanged DEF DumpTypes
<1> QED
  BY <1>1, <1>2, <1>3, <1>4, <1>5, <1>6, <1>7, <1>8, <1>9, <1>10
  DEF Next, Dump

(* The types of the variables, as the invariant has them.                   *)
LEMMA DumpTypeOK == DumpInv => TypeOK
<1> SUFFICES ASSUME DumpInv PROVE TypeOK
  OBVIOUS
<1>1. \A f \in DOMAIN linear : linear[f] \in 0 .. next_serial - 1
  BY DEF DumpInv, DumpTypes, LinearOK
<1> QED
  BY <1>1 DEF DumpInv, DumpTypes, BucketsOK, LinearOK, PositionOK, TypeOK

(* The variables keep their types.                                          *)
THEOREM TypeCorrect == Spec => []TypeOK
<1>1. Init => DumpInv
  BY DumpInit
<1>2. DumpInv /\ [Next]_vars => DumpInv'
  BY DumpStep
<1>3. DumpInv => TypeOK
  BY DumpTypeOK
<1> QED
  BY <1>1, <1>2, <1>3, PTL DEF Spec

(* "resume iteration later with the following flow": every entry that is in *)
(* the tables from the request to the end of the reply, and that the        *)
(* request asks for, is in the reply, however large the tables and whatever *)
(* was inserted and removed between its messages.                           *)
THEOREM DumpIsComplete == Spec => []NoFlowMissed
<1>1. Init => DumpInv
  BY DumpInit
<1>2. DumpInv /\ [Next]_vars => DumpInv'
  BY DumpStep
<1>3. DumpInv => NoFlowMissed
  <2> SUFFICES ASSUME DumpInv, pc = "filling", ~Wanted(table_idx),
                      NEW e \in stayed, Asked(e)
               PROVE  reported[e] >= 1
    BY DEF NoFlowMissed
  <2>1. /\ table_idx \in 0 .. 2 /\ table_id \in {ALL_TABLES, 0, 1}
        /\ table_id = 1 => table_idx # 0
    BY DEF DumpInv, DumpTypes, PositionOK
  <2>2. \/ table_idx = 2
        \/ table_idx = 1 /\ table_id = 0
    BY <2>1 DEF Wanted, ALL_TABLES
  <2>3. CASE e[1] = LINEAR
    <3>1. table_idx = 2
      BY <2>2, <2>3 DEF Asked, ALL_TABLES
    <3>2. ~Ahead(e)
      BY <3>1, <2>3 DEF Ahead, LinearAhead
    <3> QED
      BY <3>2 DEF DumpInv, BehindReported
  <2>4. CASE e[1] # LINEAR
    <3>1. ~Ahead(e)
      BY <2>2, <2>4 DEF Ahead, HashAhead
    <3> QED
      BY <3>1 DEF DumpInv, BehindReported
  <2> QED
    BY <2>3, <2>4
<1> QED
  BY <1>1, <1>2, <1>3, PTL DEF Spec

(* No entry that stays is reported twice in one reply before the flow with  *)
(* serial 0 has filled a message of it: for that flow the position that     *)
(* should resume after it is the one that starts the table again.           *)
THEOREM DumpRepeatsNothing == Spec => []NoFlowTwice
<1>1. Init => DumpInv /\ OnceInv
  BY DumpInit
<1>2. (DumpInv /\ OnceInv) /\ [Next]_vars => (DumpInv /\ OnceInv)'
  BY DumpStep
<1>3. OnceInv => NoFlowTwice
  BY DEF OnceInv
<1> QED
  BY <1>1, <1>2, <1>3, PTL DEF Spec
=============================================================================
