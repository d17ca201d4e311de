----------------------------- MODULE VconnProofs -----------------------------
(***************************************************************************)
(* Messages over a vconn arrive whole, in order and without a gap, and     *)
(* both ends of a connection agree on its version, for versions, sizes of  *)
(* headers and sockets of any kind, whatever the peer sends early.         *)
(***************************************************************************)
EXTENDS Vconn, TLAPS

-----------------------------------------------------------------------------
(* What is on the way from an end to its peer: units of messages, in three  *)
(* buffers.                                                                 *)
Types == {"HELLO", "ERROR", "DATA", "REPLY"}
Msg   == [type : Types, version : Nat, number : Nat]
Unit  == Msg \X Nat
Flow(e) == rxbuf[Peer(e)] \o (wire[e] \o txbuf[e])

Numbered(m) == m.type \in {"DATA", "REPLY"}

(* Every message in s starts with its first unit and goes on with the next; *)
(* after its last unit comes another message.                               *)
Cut(s) ==
  /\ s # <<>> => s[1][2] = 1
  /\ \A i \in 1 .. Len(s) : s[i][2] >= 1 /\ s[i][2] <= Length(s[i][1])
  /\ \A i, j \in 1 .. Len(s) :
       i <= j /\ s[i][2] + (j - i) <= Length(s[i][1]) =>
         s[j][1] = s[i][1] /\ s[j][2] = s[i][2] + (j - i)
  /\ \A i, j \in 1 .. Len(s) : j = i + 1 /\ s[i][2] = Length(s[i][1]) => s[j][2] = 1

(* The numbers in s follow n0 without a gap, up to n at most.               *)
Before(x, y) == x[1].number < y[1].number \/ (x[1].number = y[1].number /\ x[2] < y[2])
Ordered(s, n0, n) ==
  /\ \A i \in 1 .. Len(s) : Numbered(s[i][1]) => s[i][1].number <= n
  /\ \A i, j \in 1 .. Len(s) :
       i < j /\ Numbered(s[i][1]) /\ Numbered(s[j][1]) => Before(s[i], s[j])
  /\ \A i \in 1 .. Len(s) : Numbered(s[i][1]) =>
       \/ s[i][1].number = n0 + 1
       \/ \E j \in 1 .. Len(s) :
            j < i /\ Numbered(s[j][1]) /\ s[j][1].number = s[i][1].number - 1

(* A peer sends answers before its HELLO only.                              *)
AnswersFirst(s) ==
  \A i, j \in 1 .. Len(s) : i < j /\ s[i][1].type = "HELLO" => s[j][1].type # "REPLY"

Stream(s, n0, n, v) ==
  /\ s \in Seq(Unit) /\ Cut(s) /\ Ordered(s, n0, n) /\ AnswersFirst(s)
  /\ \A i \in 1 .. Len(s) : s[i][1].version = v

(* Nothing at the end of s is missing.                                      *)
Complete(s, n0, n) ==
  /\ s # <<>> => s[Len(s)][2] = Length(s[Len(s)][1])
  /\ n = n0 \/ \E j \in 1 .. Len(s) : Numbered(s[j][1]) /\ s[j][1].number = n

Free(s, type) == \A i \in 1 .. Len(s) : s[i][1].type # type

Early   == {"CONNECTING", "LISTENING", "SEND_HELLO"}
Reading == Early \cup {"RECV_HELLO", "CONNECTED"}
Count(e) == Len(got[e]) + ignored[e]

(* The direction from e to r.                                               *)
StreamInv(e, r) ==
  /\ state[r] \in Reading =>
       /\ Stream(Flow(e), Count(r), sent[e], build[e].OFP_VERSION)
       /\ state[e] # "NONE" => Complete(Flow(e), Count(r), sent[e])
       /\ state[e] \in Early => Free(Flow(e), "HELLO")
       /\ rxbuf[r] # <<>> => Len(rxbuf[r]) < Length(rxbuf[r][1][1])
  /\ state[e] \in Early => state[r] # "CONNECTED"
  /\ state[r] = "CONNECTED" =>
       /\ Free(Flow(e), "REPLY")
       /\ version[r] = Least(build[r].OFP_VERSION, build[e].OFP_VERSION)
       /\ version[r] >= build[r].min_version

EndInv(e) ==
  /\ state[e] = "NONE" => txbuf[e] = <<>> /\ rxbuf[e] = <<>>
  /\ state[e] \in Early \cup {"RECV_HELLO"} => got[e] = <<>>
  /\ \A k \in 1 .. Len(got[e]) : got[e][k] = ignored[e] + k

VconnInv == \A e \in Ends : StreamInv(e, Peer(e)) /\ EndInv(e)

-----------------------------------------------------------------------------
(* A message has a unit at least.                                           *)
LEMMA LengthIsNat == \A m : Length(m) \in Nat /\ Length(m) >= 1 /\ Length(m) >= HEADER
BY VconnAssumption DEF Length

(* The end of a stream is lost.                                             *)
LEMMA StreamPrefix ==
  ASSUME NEW a \in Seq(Unit), NEW b \in Seq(Unit), NEW n0, NEW n, NEW v,
         Stream(a \o b, n0, n, v)
  PROVE  Stream(a, n0, n, v)
<1> DEFINE s == a \o b
<1>1. /\ Len(s) = Len(a) + Len(b) /\ Len(a) \in Nat /\ Len(b) \in Nat
      /\ \A i \in 1 .. Len(a) : s[i] = a[i] /\ i \in 1 .. Len(s)
  OBVIOUS
<1>2. a # <<>> => 1 \in 1 .. Len(a) /\ s # <<>>
  OBVIOUS
<1> HIDE DEF s
<1>3. Cut(a)
  <2>1. Cut(s)
    BY DEF Stream, s
  <2>2. a # <<>> => a[1][2] = 1
    BY <1>1, <1>2, <2>1 DEF Cut
  <2>3. \A i \in 1 .. Len(a) : a[i][2] >= 1 /\ a[i][2] <= Length(a[i][1])
    BY <1>1, <2>1 DEF Cut
  <2>4. ASSUME NEW i \in 1 .. Len(a), NEW j \in 1 .. Len(a), i <= j,
               a[i][2] + (j - i) <= Length(a[i][1])
        PROVE  a[j][1] = a[i][1] /\ a[j][2] = a[i][2] + (j - i)
    <3>1. s[i] = a[i] /\ s[j] = a[j] /\ i \in 1 .. Len(s) /\ j \in 1 .. Len(s)
      BY <1>1
    <3> QED BY <2>1, <2>4, <3>1 DEF Cut
  <2>5. ASSUME NEW i \in 1 .. Len(a), NEW j \in 1 .. Len(a), j = i + 1, a[i][2] = Length(a[i][1])
        PROVE  a[j][2] = 1
    <3>1. s[i] = a[i] /\ s[j] = a[j] /\ i \in 1 .. Len(s) /\ j \in 1 .. Len(s)
      BY <1>1
    <3> QED BY <2>1, <2>5, <3>1 DEF Cut
  <2> QED BY <2>2, <2>3, <2>4, <2>5 DEF Cut
<1>4. Ordered(a, n0, n)
  <2>1. Ordered(s, n0, n)
    BY DEF Stream, s
  <2>2. \A i \in 1 .. Len(a) : Numbered(a[i][1]) => a[i][1].number <= n
    BY <1>1, <2>1 DEF Ordered
  <2>3. \A i, j \in 1 .. Len(a) :
          i < j /\ Numbered(a[i][1]) /\ Numbered(a[j][1]) => Before(a[i], a[j])
    BY <1>1, <2>1 DEF Ordered
  <2>4. ASSUME NEW i \in 1 .. Len(a), Numbered(a[i][1]), a[i][1].number # n0 + 1
        PROVE  \E j \in 1 .. Len(a) :
                 j < i /\ Numbered(a[j][1]) /\ a[j][1].number = a[i][1].number - 1
    <3>1. PICK j \in 1 .. Len(s) :
            j < i /\ Numbered(s[j][1]) /\ s[j][1].number = s[i][1].number - 1
      BY <1>1, <2>1, <2>4 DEF Ordered
    <3>2. j \in 1 .. Len(a)
      BY <1>1, <3>1
    <3> QED BY <1>1, <3>1, <3>2
  <2> QED BY <2>2, <2>3, <2>4 DEF Ordered
<1>5. AnswersFirst(a) /\ \A i \in 1 .. Len(a) : a[i][1].version = v
  BY <1>1 DEF Stream, AnswersFirst, s
<1> QED BY <1>3, <1>4, <1>5 DEF Stream

(* The first message of a stream is taken.                                  *)
LEMMA StreamHead ==
  ASSUME NEW s \in Seq(Unit), NEW n0 \in Nat, NEW n \in Nat, NEW v, Stream(s, n0, n, v),
         s # <<>>, NEW L, L = Length(s[1][1]), L <= Len(s)
  PROVE  /\ s[1][1] \in Msg /\ s[1][1].version = v
         /\ \A k \in 1 .. L : s[k] = <<s[1][1], k>>
         /\ Numbered(s[1][1]) => s[1][1].number = n0 + 1
<1>1. L \in Nat /\ L >= 1 /\ 1 \in 1 .. Len(s) /\ s[1][2] = 1 /\ s[1] \in Unit
  BY LengthIsNat DEF Stream, Cut
<1>2. s[1][1] \in Msg /\ s[1][1].version = v
  BY <1>1 DEF Stream, Unit
<1>3. ASSUME NEW k \in 1 .. L PROVE s[k] = <<s[1][1], k>>
  <2>1. k \in 1 .. Len(s) /\ s[k] \in Unit /\ 1 + (k - 1) = k
    BY <1>1
  <2>2. s[k][1] = s[1][1] /\ s[k][2] = k
    BY <1>1, <2>1 DEF Stream, Cut
  <2>3. s[k] = <<s[k][1], s[k][2]>>
    BY <2>1 DEF Unit
  <2> QED BY <2>2, <2>3
<1>4. Numbered(s[1][1]) => s[1][1].number = n0 + 1
  BY <1>1 DEF Stream, Ordered
<1> QED BY <1>2, <1>3, <1>4

LEMMA StreamTail ==
  ASSUME NEW s \in Seq(Unit), NEW n0 \in Nat, NEW n \in Nat, NEW v, Stream(s, n0, n, v),
         s # <<>>, NEW L, L = Length(s[1][1]), L <= Len(s),
         NEW n1, n1 = (IF Numbered(s[1][1]) THEN n0 + 1 ELSE n0)
  PROVE  LET t == SubSeq(s, L + 1, Len(s))
         IN  /\ t \in Seq(Unit) /\ Stream(t, n1, n, v)
             /\ Complete(s, n0, n) => Complete(t, n1, n)
             /\ \A type : Free(s, type) => Free(t, type)
             /\ s[1][1].type = "HELLO" => Free(t, "REPLY")
<1> DEFINE t == SubSeq(s, L + 1, Len(s))
           m == s[1][1]
<1>1. L \in Nat /\ L >= 1 /\ Len(s) \in Nat /\ n1 \in Nat
  BY LengthIsNat
<1>2. t \in Seq(Unit) /\ Len(t) = Len(s) - L
  BY <1>1
<1>3. \A i \in 1 .. Len(t) : t[i] = s[i + L] /\ i + L \in 1 .. Len(s)
  BY <1>1
<1>4. \A k \in 1 .. L : k \in 1 .. Len(s) /\ s[k][1] = m /\ s[k][2] = k
  <2>1. \A k \in 1 .. L : s[k] = <<m, k>>
    BY StreamHead
  <2> QED BY <1>1, <2>1
<1>5. Numbered(m) => m.number = n0 + 1
  BY StreamHead
<1>a. \A i \in 1 .. Len(s) : i \notin 1 .. L => i - L \in 1 .. Len(t) /\ t[i - L] = s[i]
  <2> SUFFICES ASSUME NEW i \in 1 .. Len(s), i \notin 1 .. L
               PROVE  i - L \in 1 .. Len(t) /\ t[i - L] = s[i]
    OBVIOUS
  <2>a. i - L \in 1 .. Len(s) - L /\ (i - L) + L = i
    BY <1>1
  <2>1. i - L \in 1 .. Len(t) /\ (i - L) + L = i
    BY <1>2, <2>a
  <2> QED BY <1>3, <2>1
<1>b. \A i \in 1 .. Len(s) : s[i][1] \in Msg /\ s[i][1].number \in Nat /\ s[i][2] \in Nat
  BY DEF Unit, Msg
<1>c. Cut(s) /\ Ordered(s, n0, n) /\ AnswersFirst(s) /\ \A i \in 1 .. Len(s) : s[i][1].version = v
  BY DEF Stream
<1> HIDE DEF t, m
<1>6. Cut(t)
  <2>1. t # <<>> => t[1][2] = 1
    <3> SUFFICES ASSUME t # <<>> PROVE t[1][2] = 1
      OBVIOUS
    <3>1. 1 \in 1 .. Len(t)
      BY <1>2
    <3>2. L \in 1 .. L /\ L + 1 = 1 + L /\ L + 1 \in 1 .. Len(s) /\ t[1] = s[L + 1]
      BY <1>1, <1>3, <3>1
    <3>3. s[L][1] = m /\ s[L][2] = L /\ L = Length(m)
      BY <1>4, <3>2 DEF m
    <3>4. L \in 1 .. Len(s)
      BY <1>4, <3>2
    <3> QED BY <1>c, <3>2, <3>3, <3>4 DEF Cut
  <2>2. \A i \in 1 .. Len(t) : t[i][2] >= 1 /\ t[i][2] <= Length(t[i][1])
    BY <1>3, <1>c DEF Cut
  <2>3. ASSUME NEW i \in 1 .. Len(t), NEW j \in 1 .. Len(t), i <= j,
               t[i][2] + (j - i) <= Length(t[i][1])
        PROVE  t[j][1] = t[i][1] /\ t[j][2] = t[i][2] + (j - i)
    <3> DEFINE p == i + L
               q == j + L
    <3>1. p \in 1 .. Len(s) /\ q \in 1 .. Len(s) /\ t[i] = s[p] /\ t[j] = s[q]
      BY <1>3
    <3>2. q - p = j - i /\ p <= q
      BY <1>1, <1>2, <2>3
    <3> HIDE DEF p, q
    <3>3. s[p][2] + (q - p) <= Length(s[p][1])
      BY <2>3, <3>1, <3>2
    <3>4. s[q][1] = s[p][1] /\ s[q][2] = s[p][2] + (q - p)
      <4>1. \A x, y \in 1 .. Len(s) :
              x <= y /\ s[x][2] + (y - x) <= Length(s[x][1]) =>
                s[y][1] = s[x][1] /\ s[y][2] = s[x][2] + (y - x)
        BY <1>c DEF Cut
      <4> QED BY <3>1, <3>2, <3>3, <4>1
    <3> QED BY <3>1, <3>2, <3>4
  <2>4. ASSUME NEW i \in 1 .. Len(t), NEW j \in 1 .. Len(t), j = i + 1, t[i][2] = Length(t[i][1])
        PROVE  t[j][2] = 1
    <3> DEFINE p == i + L
               q == j + L
    <3>1. p \in 1 .. Len(s) /\ q \in 1 .. Len(s) /\ t[i] = s[p] /\ t[j] = s[q]
      BY <1>3
    <3>2. q = p + 1
      BY <1>1, <1>2, <2>4
    <3> HIDE DEF p, q
    <3> QED BY <1>c, <2>4, <3>1, <3>2 DEF Cut
  <2> QED BY <2>1, <2>2, <2>3, <2>4 DEF Cut
<1>7. ASSUME NEW i \in 1 .. Len(s), i \notin 1 .. L, Numbered(m), Numbered(s[i][1])
      PROVE  s[i][1].number > n0 + 1
  <2>1. L \in 1 .. L /\ L < i /\ L \in 1 .. Len(s) /\ s[L][1] = m /\ s[L][2] = L
    BY <1>1, <1>4, <1>7
  <2>2. Before(s[L], s[i])
    BY <1>c, <1>7, <2>1 DEF Ordered
  <2>3. s[i][1].number >= n0 + 1 /\ (s[i][1].number = n0 + 1 => L < s[i][2])
    BY <1>5, <1>7, <1>b, <2>1, <2>2 DEF Before
  <2>4. s[i][1].number # n0 + 1
    <3> SUFFICES ASSUME s[i][1].number = n0 + 1 PROVE FALSE
      OBVIOUS
    <3>1. s[i][2] > L
      BY <1>1, <1>b, <2>3
    <3>2. L = HEADER + 1 /\ Length(s[i][1]) = HEADER + 1
      BY <1>7 DEF Length, Numbered, m
    <3>3. s[i][2] <= Length(s[i][1])
      BY <1>c DEF Cut
    <3> QED BY <1>1, <1>b, <3>1, <3>2, <3>3
  <2> QED BY <1>b, <2>3, <2>4
<1>8. Ordered(t, n1, n)
  <2>1. \A i \in 1 .. Len(t) : Numbered(t[i][1]) => t[i][1].number <= n
    BY <1>3, <1>c DEF Ordered
  <2>2. ASSUME NEW i \in 1 .. Len(t), NEW j \in 1 .. Len(t), i < j,
               Numbered(t[i][1]), Numbered(t[j][1])
        PROVE  Before(t[i], t[j])
    <3>1. i + L < j + L
      BY <1>1, <1>2, <2>2
    <3> QED BY <1>3, <1>c, <2>2, <3>1 DEF Ordered
  <2>3. ASSUME NEW i \in 1 .. Len(t), Numbered(t[i][1]), t[i][1].number # n1 + 1
        PROVE  \E j \in 1 .. Len(t) :
                 j < i /\ Numbered(t[j][1]) /\ t[j][1].number = t[i][1].number - 1
    <3>1. i + L \in 1 .. Len(s) /\ t[i] = s[i + L] /\ i + L \notin 1 .. L
      BY <1>1, <1>2, <1>3
    <3>2. s[i + L][1].number # n0 + 1
      <4>1. CASE Numbered(m)
        <5>1. s[i + L][1].number > n0 + 1 /\ s[i + L][1].number \in Nat
          BY <1>7, <1>b, <2>3, <3>1, <4>1
        <5> QED BY <5>1
      <4>2. CASE ~Numbered(m)
        BY <2>3, <3>1, <4>2 DEF m
      <4> QED BY <4>1, <4>2
    <3>3. PICK j \in 1 .. Len(s) :
            j < i + L /\ Numbered(s[j][1]) /\ s[j][1].number = s[i + L][1].number - 1
      BY <1>c, <2>3, <3>1, <3>2 DEF Ordered
    <3>4. j \notin 1 .. L
      <4> SUFFICES ASSUME j \in 1 .. L PROVE FALSE
        OBVIOUS
      <4>1. Numbered(m) /\ m.number = n0 + 1 /\ s[j][1] = m
        BY <1>4, <1>5, <3>3
      <4>2. s[i + L][1].number = n1 + 1
        BY <1>b, <3>1, <3>3, <4>1 DEF m
      <4> QED BY <2>3, <3>1, <4>2
    <3>5. j - L \in 1 .. Len(t) /\ t[j - L] = s[j] /\ j - L < i
      BY <1>1, <1>2, <1>a, <3>3, <3>4
    <3> QED BY <3>1, <3>3, <3>5
  <2> QED BY <2>1, <2>2, <2>3 DEF Ordered
<1>9. AnswersFirst(t) /\ \A i \in 1 .. Len(t) : t[i][1].version = v
  <2>1. ASSUME NEW i \in 1 .. Len(t), NEW j \in 1 .. Len(t), i < j, t[i][1].type = "HELLO"
        PROVE  t[j][1].type # "REPLY"
    <3>1. i + L < j + L
      BY <1>1, <1>2, <2>1
    <3> QED BY <1>3, <1>c, <2>1, <3>1 DEF AnswersFirst
  <2> QED BY <1>3, <1>c, <2>1 DEF AnswersFirst
<1>10. ASSUME Complete(s, n0, n) PROVE Complete(t, n1, n)
  <2>1. ASSUME t # <<>> PROVE t[Len(t)][2] = Length(t[Len(t)][1])
    <3>1. Len(t) \in 1 .. Len(t) /\ Len(t) + L = Len(s)
      BY <1>1, <1>2, <2>1
    <3>2. t[Len(t)] = s[Len(s)]
      BY <1>3, <3>1
    <3> QED BY <1>10, <3>2 DEF Complete
  <2>2. ASSUME n # n1
        PROVE  \E j \in 1 .. Len(t) : Numbered(t[j][1]) /\ t[j][1].number = n
    <3>1. n # n0
      <4>1. CASE Numbered(m)
        <5>1. m.number <= n /\ m.number = n0 + 1
          <6>1. 1 \in 1 .. Len(s) /\ s[1][1] = m
            BY <1>1 DEF m
          <6> QED BY <1>5, <1>c, <4>1, <6>1 DEF Ordered
        <5> QED BY <5>1
      <4>2. CASE ~Numbered(m)
        BY <2>2, <4>2 DEF m
      <4> QED BY <4>1, <4>2
    <3>2. PICK j \in 1 .. Len(s) : Numbered(s[j][1]) /\ s[j][1].number = n
      BY <1>10, <3>1 DEF Complete
    <3>3. j \notin 1 .. L
      <4> SUFFICES ASSUME j \in 1 .. L PROVE FALSE
        OBVIOUS
      <4>1. s[j][1] = m
        BY <1>4
      <4>2. Numbered(m) /\ n = n0 + 1 /\ n1 = n0 + 1
        BY <1>5, <3>2, <4>1 DEF m
      <4> QED BY <2>2, <4>2
    <3> QED BY <1>a, <3>2, <3>3
  <2> QED BY <2>1, <2>2 DEF Complete
<1>11. \A type : Free(s, type) => Free(t, type)
  BY <1>3 DEF Free
<1>12. ASSUME m.type = "HELLO" PROVE Free(t, "REPLY")
  <2>1. \A i \in 1 .. Len(t) : 1 \in 1 .. Len(s) /\ 1 < i + L /\ s[1][1] = m
    BY <1>1, <1>2 DEF m
  <2> QED BY <1>3, <1>c, <1>12, <2>1 DEF AnswersFirst, Free
<1>13. Stream(t, n1, n, v)
  BY <1>2, <1>6, <1>8, <1>9 DEF Stream
<1> QED BY <1>2, <1>10, <1>11, <1>12, <1>13 DEF t, m

(* The units of one message.                                                *)
LEMMA UnitsParts ==
  ASSUME NEW m \in Msg
  PROVE  /\ Units(m) \in Seq(Unit) /\ Len(Units(m)) = Length(m)
         /\ \A k \in 1 .. Length(m) : Units(m)[k] = <<m, k>>
<1>1. Length(m) \in Nat
  BY LengthIsNat
<1>2. \A k \in 1 .. Length(m) : <<m, k>> \in Unit
  BY <1>1 DEF Unit
<1> QED BY <1>1, <1>2 DEF Units

(* A message joins a stream that nothing is missing of.                     *)
LEMMA StreamAppend ==
  ASSUME NEW s \in Seq(Unit), NEW n0 \in Nat, NEW n \in Nat, NEW v, Stream(s, n0, n, v),
         Complete(s, n0, n), NEW m \in Msg, m.version = v,
         Numbered(m) => m.number = n + 1, m.type = "REPLY" => Free(s, "HELLO"),
         NEW n1, n1 = (IF Numbered(m) THEN n + 1 ELSE n)
  PROVE  LET t == s \o Units(m)
         IN  /\ Stream(t, n0, n1, v) /\ Complete(t, n0, n1)
             /\ \A type : Free(s, type) /\ m.type # type => Free(t, type)
<1> DEFINE t == s \o Units(m)
           S == Len(s)
           L == Length(m)
<1>1. /\ S \in Nat /\ L \in Nat /\ L >= 1 /\ n1 \in Nat
      /\ Units(m) \in Seq(Unit) /\ Len(Units(m)) = L
      /\ \A k \in 1 .. L : Units(m)[k] = <<m, k>>
  BY LengthIsNat, UnitsParts
<1>2. t \in Seq(Unit) /\ Len(t) = S + L
  <2> DEFINE u == Units(m)
  <2>1. u \in Seq(Unit) /\ Len(u) = L
    BY <1>1
  <2> HIDE DEF u, L
  <2>2. s \o u \in Seq(Unit) /\ Len(s \o u) = Len(s) + Len(u)
    BY <2>1
  <2> QED BY <2>1, <2>2 DEF u
<1>3. \A i \in 1 .. S : t[i] = s[i] /\ i \in 1 .. Len(t)
  BY <1>1
<1>4. \A i \in 1 .. Len(t) : i \notin 1 .. S =>
        i - S \in 1 .. L /\ t[i][1] = m /\ t[i][2] = i - S
  <2> SUFFICES ASSUME NEW i \in 1 .. Len(t), i \notin 1 .. S
               PROVE  i - S \in 1 .. L /\ t[i][1] = m /\ t[i][2] = i - S
    OBVIOUS
  <2>1. i - S \in 1 .. L
    BY <1>1, <1>2
  <2>2. t[i] = Units(m)[i - S]
    BY <1>1, <1>2
  <2>3. t[i] = <<m, i - S>>
    BY <1>1, <2>1, <2>2
  <2> QED BY <2>1, <2>3
<1>c. Cut(s) /\ Ordered(s, n0, n) /\ AnswersFirst(s) /\ \A i \in 1 .. S : s[i][1].version = v
  BY DEF Stream
<1>b. \A i \in 1 .. S : s[i][1] \in Msg /\ s[i][1].number \in Nat /\ s[i][2] \in Nat
  BY DEF Unit, Msg
<1>d. \A i \in 1 .. S : Length(s[i][1]) \in Nat
  BY LengthIsNat
<1>e. s # <<>> => S \in 1 .. S /\ s[S][2] = Length(s[S][1])
  BY DEF Complete
<1>f. s = <<>> <=> S = 0
  OBVIOUS
<1>g. L = Length(m)
  OBVIOUS
<1> HIDE DEF t, S, L
<1>h. S + L \in 1 .. Len(t) /\ S + L \notin 1 .. S /\ 1 \in 1 .. Len(t)
  BY <1>1, <1>2
<1>i. \A i \in 1 .. Len(t) : i \notin 1 .. S => i > S
  BY <1>1, <1>2
<1>5. Cut(t)
  <2>1. t[1][2] = 1
    <3>1. CASE S = 0
      <4>1. 1 \notin 1 .. S /\ 1 - S = 1
        BY <3>1
      <4> QED BY <1>4, <1>h, <4>1
    <3>2. CASE S # 0
      <4>1. 1 \in 1 .. S
        BY <1>1, <3>2
      <4> QED BY <1>3, <1>c, <1>f, <3>2, <4>1 DEF Cut
    <3> QED BY <3>1, <3>2
  <2>2. ASSUME NEW i \in 1 .. Len(t) PROVE t[i][2] >= 1 /\ t[i][2] <= Length(t[i][1])
    <3>1. CASE i \in 1 .. S
      BY <1>3, <1>c, <3>1 DEF Cut, S
    <3>2. CASE i \notin 1 .. S
      BY <1>1, <1>4, <1>g, <3>2
    <3> QED BY <3>1, <3>2
  <2>3. ASSUME NEW i \in 1 .. Len(t), NEW j \in 1 .. Len(t), i <= j,
               t[i][2] + (j - i) <= Length(t[i][1])
        PROVE  t[j][1] = t[i][1] /\ t[j][2] = t[i][2] + (j - i)
    <3>0. \A x, y \in 1 .. S :
            x <= y /\ s[x][2] + (y - x) <= Length(s[x][1]) =>
              s[y][1] = s[x][1] /\ s[y][2] = s[x][2] + (y - x)
      BY <1>c DEF Cut, S
    <3>1. CASE i \in 1 .. S /\ j \in 1 .. S
      <4>1. t[i] = s[i] /\ t[j] = s[j]
        BY <1>3, <3>1
      <4> QED BY <2>3, <3>0, <3>1, <4>1
    <3>2. CASE i \in 1 .. S /\ j \notin 1 .. S
      <4>1. t[i] = s[i] /\ j > S /\ S \in 1 .. S /\ i <= S /\ s[i][2] \in Nat /\ Length(s[i][1]) \in Nat
        BY <1>1, <1>3, <1>b, <1>d, <1>i, <3>2
      <4>2. s[i][2] + (S - i) < Length(s[i][1])
        BY <1>1, <2>3, <4>1
      <4>3. s[S][1] = s[i][1] /\ s[S][2] = s[i][2] + (S - i)
        <5>1. s[i][2] + (S - i) <= Length(s[i][1])
          BY <1>1, <4>1, <4>2
        <5>2. i \in 1 .. S
          BY <3>2
        <5> QED BY <3>0, <4>1, <5>1, <5>2
      <4>4. s[S][2] = Length(s[S][1])
        BY <1>e, <1>f, <4>1
      <4> QED BY <1>1, <4>1, <4>2, <4>3, <4>4
    <3>3. CASE i \notin 1 .. S
      <4>1. j \notin 1 .. S
        BY <1>1, <1>i, <2>3, <3>3
      <4>2. t[i][1] = m /\ t[j][1] = m /\ t[i][2] = i - S /\ t[j][2] = j - S
        BY <1>4, <3>3, <4>1
      <4> QED BY <1>1, <4>2
    <3> QED BY <3>1, <3>2, <3>3
  <2>4. ASSUME NEW i \in 1 .. Len(t), NEW j \in 1 .. Len(t), j = i + 1, t[i][2] = Length(t[i][1])
        PROVE  t[j][2] = 1
    <3>1. CASE j \in 1 .. S
      <4>1. i \in 1 .. S
        BY <1>1, <2>4, <3>1
      <4>2. t[i] = s[i] /\ t[j] = s[j]
        BY <1>3, <3>1, <4>1
      <4> QED BY <1>c, <2>4, <3>1, <4>1, <4>2 DEF Cut, S
    <3>2. CASE j \notin 1 .. S /\ i \in 1 .. S
      <4>1. j = S + 1
        BY <1>1, <1>i, <2>4, <3>2
      <4>2. t[j][2] = j - S
        BY <1>4, <3>2
      <4> QED BY <1>1, <4>1, <4>2
    <3>3. CASE j \notin 1 .. S /\ i \notin 1 .. S
      <4>1. t[i][1] = m /\ t[i][2] = i - S /\ j - S \in 1 .. L
        BY <1>4, <3>3
      <4> QED BY <1>1, <1>2, <1>g, <2>4, <4>1
    <3> QED BY <3>1, <3>2, <3>3
  <2> QED BY <2>1, <2>2, <2>3, <2>4 DEF Cut
<1>6. Ordered(t, n0, n1)
  <2>0. /\ \A i \in 1 .. S : Numbered(s[i][1]) => s[i][1].number <= n
        /\ n <= n1
    BY <1>c DEF Ordered, S
  <2>1. ASSUME NEW i \in 1 .. Len(t), Numbered(t[i][1]) PROVE t[i][1].number <= n1
    <3>1. CASE i \in 1 .. S
      <4>1. t[i] = s[i] /\ s[i][1].number <= n /\ s[i][1].number \in Nat
        BY <1>3, <1>b, <2>0, <2>1, <3>1
      <4> QED BY <1>1, <2>0, <4>1
    <3>2. CASE i \notin 1 .. S
      BY <1>4, <2>1, <3>2
    <3> QED BY <3>1, <3>2
  <2>2. ASSUME NEW i \in 1 .. Len(t), NEW j \in 1 .. Len(t), i < j,
               Numbered(t[i][1]), Numbered(t[j][1])
        PROVE  Before(t[i], t[j])
    <3>1. CASE i \in 1 .. S /\ j \in 1 .. S
      <4>1. t[i] = s[i] /\ t[j] = s[j]
        BY <1>3, <3>1
      <4> QED BY <1>c, <2>2, <3>1, <4>1 DEF Ordered, S
    <3>2. CASE i \in 1 .. S /\ j \notin 1 .. S
      <4>1. t[i] = s[i] /\ s[i][1].number <= n /\ s[i][1].number \in Nat
        BY <1>3, <1>b, <2>0, <2>2, <3>2
      <4>2. t[j][1].number = n + 1
        BY <1>4, <2>2, <3>2
      <4> QED BY <4>1, <4>2 DEF Before
    <3>3. CASE i \notin 1 .. S
      <4>1. j \notin 1 .. S
        BY <1>1, <1>i, <2>2, <3>3
      <4>2. t[i][1] = m /\ t[j][1] = m /\ t[i][2] = i - S /\ t[j][2] = j - S
        BY <1>4, <3>3, <4>1
      <4>3. i - S < j - S
        BY <1>1, <2>2
      <4> QED BY <4>2, <4>3 DEF Before
    <3> QED BY <3>1, <3>2, <3>3
  <2>3. ASSUME NEW i \in 1 .. Len(t), Numbered(t[i][1]), t[i][1].number # n0 + 1
        PROVE  \E j \in 1 .. Len(t) :
                 j < i /\ Numbered(t[j][1]) /\ t[j][1].number = t[i][1].number - 1
    <3>1. CASE i \in 1 .. S
      <4>1. t[i] = s[i]
        BY <1>3, <3>1
      <4>2. PICK j \in 1 .. S :
              j < i /\ Numbered(s[j][1]) /\ s[j][1].number = s[i][1].number - 1
        BY <1>c, <2>3, <3>1, <4>1 DEF Ordered, S
      <4> QED BY <1>3, <4>1, <4>2
    <3>2. CASE i \notin 1 .. S
      <4>1. t[i][1] = m /\ m.number = n + 1 /\ i > S
        BY <1>4, <1>i, <2>3, <3>2
      <4>2. PICK j \in 1 .. S : Numbered(s[j][1]) /\ s[j][1].number = n
        BY <2>3, <4>1 DEF Complete, S
      <4>3. j < i /\ t[j] = s[j] /\ j \in 1 .. Len(t)
        BY <1>1, <1>3, <4>1, <4>2
      <4>4. t[j][1].number = t[i][1].number - 1
        BY <4>1, <4>2, <4>3
      <4> QED BY <4>2, <4>3, <4>4
    <3> QED BY <3>1, <3>2
  <2> QED BY <2>1, <2>2, <2>3 DEF Ordered
<1>7. AnswersFirst(t)
  <2> SUFFICES ASSUME NEW i \in 1 .. Len(t), NEW j \in 1 .. Len(t), i < j, t[i][1].type = "HELLO"
               PROVE  t[j][1].type # "REPLY"
    BY DEF AnswersFirst
  <2>1. CASE i \in 1 .. S /\ j \in 1 .. S
    BY <1>3, <1>c, <2>1 DEF AnswersFirst, S
  <2>2. CASE i \in 1 .. S /\ j \notin 1 .. S
    BY <1>3, <1>4, <2>2 DEF Free, S
  <2>3. CASE i \notin 1 .. S
    <3>1. j \notin 1 .. S
      BY <1>1, <1>i, <2>3
    <3> QED BY <1>4, <2>3, <3>1
  <2> QED BY <2>1, <2>2, <2>3
<1>8. \A i \in 1 .. Len(t) : t[i][1].version = v
  BY <1>3, <1>4, <1>c
<1>9. Complete(t, n0, n1)
  <2>1. t[Len(t)][2] = Length(t[Len(t)][1])
    <3>1. t[S + L][1] = m /\ t[S + L][2] = (S + L) - S
      BY <1>4, <1>h
    <3> QED BY <1>1, <1>2, <1>g, <3>1
  <2>2. n1 = n0 \/ \E j \in 1 .. Len(t) : Numbered(t[j][1]) /\ t[j][1].number = n1
    <3>1. CASE Numbered(m)
      BY <1>4, <1>h, <3>1
    <3>2. CASE ~Numbered(m) /\ n # n0
      <4>1. PICK j \in 1 .. S : Numbered(s[j][1]) /\ s[j][1].number = n
        BY <3>2 DEF Complete, S
      <4> QED BY <1>3, <3>2, <4>1
    <3>3. CASE ~Numbered(m) /\ n = n0
      BY <3>3
    <3> QED BY <3>1, <3>2, <3>3
  <2> QED BY <2>1, <2>2 DEF Complete
<1>10. \A type : Free(s, type) /\ m.type # type => Free(t, type)
  BY <1>3, <1>4 DEF Free, S
<1>11. Stream(t, n0, n1, v)
  BY <1>2, <1>5, <1>6, <1>7, <1>8 DEF Stream
<1> QED BY <1>9, <1>10, <1>11 DEF t

-----------------------------------------------------------------------------
(* Sequences of units.                                                      *)
LEMMA UnitsConcat ==
  ASSUME NEW a \in Seq(Unit), NEW b \in Seq(Unit), NEW c \in Seq(Unit)
  PROVE  /\ a \o b \in Seq(Unit) /\ a \o <<>> = a /\ <<>> \o a = a
         /\ (a \o b) \o c = a \o (b \o c) /\ Len(a \o b) = Len(a) + Len(b)
         /\ <<>> \in Seq(Unit)
OBVIOUS

LEMMA UnitsAssoc == \A a, b, c \in Seq(Unit) : (a \o b) \o c = a \o (b \o c)
BY UnitsConcat

LEMMA UnitsSplit ==
  ASSUME NEW u \in Seq(Unit), NEW k \in 0 .. Len(u)
  PROVE  /\ SubSeq(u, 1, k) \in Seq(Unit) /\ SubSeq(u, k + 1, Len(u)) \in Seq(Unit)
         /\ Len(SubSeq(u, 1, k)) = k
         /\ SubSeq(u, 1, k) \o SubSeq(u, k + 1, Len(u)) = u
<1> DEFINE a == SubSeq(u, 1, k)
           b == SubSeq(u, k + 1, Len(u))
<1>1. a \in Seq(Unit) /\ Len(a) = k /\ \A i \in 1 .. k : a[i] = u[i]
  OBVIOUS
<1>2. b \in Seq(Unit) /\ Len(b) = Len(u) - k /\ \A i \in 1 .. Len(u) - k : b[i] = u[k + i]
  OBVIOUS
<1> HIDE DEF a, b
<1>0. k \in Nat /\ Len(u) \in Nat /\ k <= Len(u)
  OBVIOUS
<1>3. a \o b \in Seq(Unit) /\ Len(a \o b) = Len(u)
  <2>1. a \o b \in Seq(Unit) /\ Len(a \o b) = Len(a) + Len(b)
    BY <1>1, <1>2, UnitsConcat
  <2> QED BY <1>0, <1>1, <1>2, <2>1
<1>4. \A i \in 1 .. Len(u) : (a \o b)[i] = u[i]
  <2> TAKE i \in 1 .. Len(u)
  <2>1. CASE i <= k
    BY <1>1, <1>2, <2>1
  <2>2. CASE ~(i <= k)
    <3>1. (a \o b)[i] = b[i - k] /\ i - k \in 1 .. Len(u) - k /\ k + (i - k) = i
      BY <1>1, <1>2, <2>2
    <3> QED BY <1>2, <3>1
  <2> QED BY <2>1, <2>2
<1>5. a \o b = u
  <2> DEFINE c == a \o b
  <2>1. c \in Seq(Unit) /\ Len(c) = Len(u) /\ \A i \in 1 .. Len(u) : c[i] = u[i]
    BY <1>3, <1>4
  <2> HIDE DEF c
  <2>2. c = u
    BY <2>1
  <2> QED BY <2>2 DEF c
<1> QED BY <1>1, <1>2, <1>5 DEF a, b

-----------------------------------------------------------------------------
States == Reading \cup {"SEND_ERROR", "DISCONNECTED", "NONE"}
Build  == [min_version : Nat, OFP_VERSION : Nat, early : SUBSET {"DATA", "REPLY"}]

VconnTypeOK ==
  /\ state \in [Ends -> States] /\ version \in [Ends -> Int] /\ build \in [Ends -> Build]
  /\ txbuf \in [Ends -> Seq(Unit)] /\ rxbuf \in [Ends -> Seq(Unit)]
  /\ wire \in [Ends -> Seq(Unit)] /\ \A e \in Ends : Len(wire[e]) <= SOCKET
  /\ sent \in [Ends -> Nat] /\ ignored \in [Ends -> Nat] /\ got \in [Ends -> Seq(Nat)]

(* The two ends.                                                            *)
LEMMA Peers ==
  ASSUME NEW e \in Ends
  PROVE  Peer(e) \in Ends /\ Peer(e) # e /\ Peer(Peer(e)) = e /\ Ends = {e, Peer(e)}
BY DEF Peer, Ends

(* A message an end makes.                                                  *)
LEMMA MessageTyped ==
  ASSUME VconnTypeOK, NEW e \in Ends, NEW type \in Types, NEW n \in Nat
  PROVE  /\ Message(type, e, n) \in Msg /\ Message(type, e, n).type = type
         /\ Message(type, e, n).version = build[e].OFP_VERSION
         /\ Message(type, e, n).number = n /\ build[e].OFP_VERSION \in Nat
BY DEF Message, Msg, VconnTypeOK, Build

(* A write to the socket keeps what is on the way, in order.                *)
LEMMA WriteKeeps ==
  ASSUME VconnTypeOK, NEW e \in Ends, NEW u \in Seq(Unit), wire' = Written(e, u),
         txbuf' = [txbuf EXCEPT ![e] = Rest(e, u)]
  PROVE  /\ wire' \in [Ends -> Seq(Unit)] /\ \A d \in Ends : Len(wire'[d]) <= SOCKET
         /\ txbuf' \in [Ends -> Seq(Unit)]
         /\ wire'[Peer(e)] = wire[Peer(e)] /\ txbuf'[Peer(e)] = txbuf[Peer(e)]
         /\ state[Peer(e)] # "NONE" => wire'[e] \o txbuf'[e] = wire[e] \o u
<1> DEFINE k == Fits(e, u)
           w == wire[e]
           a == SubSeq(u, 1, k)
           b == SubSeq(u, k + 1, Len(u))
<1>1. /\ w \in Seq(Unit) /\ Len(w) <= SOCKET /\ Peer(e) \in Ends /\ Peer(e) # e
      /\ wire \in [Ends -> Seq(Unit)] /\ txbuf \in [Ends -> Seq(Unit)] /\ <<>> \in Seq(Unit)
  BY Peers DEF VconnTypeOK
<1>2. k \in 0 .. Len(u) /\ Len(w) + k <= SOCKET
  BY <1>1, VconnAssumption DEF Fits, Least
<1>3. CASE state[Peer(e)] = "NONE"
  <2>1. wire' = wire /\ txbuf' = [txbuf EXCEPT ![e] = <<>>]
    BY <1>3 DEF Written, Rest
  <2> QED BY <1>1, <1>3, <2>1 DEF VconnTypeOK
<1>4. CASE state[Peer(e)] # "NONE"
  <2>1. wire' = [wire EXCEPT ![e] = w \o a] /\ txbuf' = [txbuf EXCEPT ![e] = b]
    BY <1>4 DEF Written, Rest
  <2>2. a \in Seq(Unit) /\ b \in Seq(Unit) /\ Len(a) = k /\ a \o b = u
    BY <1>2, UnitsSplit
  <2> HIDE DEF k, a, b, w
  <2>3. w \o a \in Seq(Unit) /\ Len(w \o a) <= SOCKET /\ (w \o a) \o b = w \o u
    <3>1. w \o a \in Seq(Unit) /\ Len(w \o a) = Len(w) + Len(a)
      BY <1>1, <2>2, UnitsConcat
    <3>2. (w \o a) \o b = w \o (a \o b)
      <4>1. w \in Seq(Unit) /\ a \in Seq(Unit) /\ b \in Seq(Unit)
        BY <1>1, <2>2
      <4> QED BY <4>1, UnitsAssoc, Zenon
    <3> QED BY <1>2, <2>2, <3>1, <3>2
  <2>4. wire'[e] = w \o a /\ txbuf'[e] = b
    BY <1>1, <2>1
  <2>5. \A d \in Ends : Len(wire'[d]) <= SOCKET
    BY <1>1, <2>1, <2>3 DEF VconnTypeOK
  <2> QED BY <1>1, <2>1, <2>2, <2>3, <2>4, <2>5 DEF w
<1> QED BY <1>3, <1>4

(* A read takes the next units, never beyond the end of a message.          *)
LEMMA ReadTakes ==
  ASSUME VconnTypeOK, NEW r \in Ends, NEW e \in Ends, e = Peer(r), wire[e] # <<>>,
         rxbuf[r] # <<>> => Len(rxbuf[r]) < Length(rxbuf[r][1][1])
  PROVE  LET R == NowRead(r)
             rest == SubSeq(wire[e], Taken(r) + 1, Len(wire[e]))
         IN  /\ R \in Seq(Unit) /\ rest \in Seq(Unit) /\ Len(rest) <= SOCKET
             /\ R # <<>> /\ Len(R) <= Length(R[1][1]) /\ (Whole(R) <=> Len(R) = Length(R[1][1]))
             /\ R \o (rest \o txbuf[e]) = Flow(e)
<1> DEFINE x == rxbuf[r]
           w == wire[e]
           k == Taken(r)
           a == SubSeq(w, 1, k)
           b == SubSeq(w, k + 1, Len(w))
           R == x \o a
<1>1. /\ x \in Seq(Unit) /\ w \in Seq(Unit) /\ w # <<>> /\ Len(w) >= 1 /\ Len(w) <= SOCKET
      /\ Len(w) \in Nat /\ Len(x) \in Nat /\ HEADER \in Nat /\ HEADER >= 1 /\ SOCKET \in Nat
      /\ txbuf[e] \in Seq(Unit) /\ Available(r) = w /\ Peer(e) = r
  BY Peers, VconnAssumption DEF VconnTypeOK, Available
<1>2. Length(x[1][1]) \in Nat /\ Length(x[1][1]) >= HEADER
  BY LengthIsNat
<1>3. /\ Wanted(x) \in Nat /\ Wanted(x) >= 1
      /\ \/ Len(x) < HEADER /\ Len(x) + Wanted(x) = HEADER
         \/ x # <<>> /\ Len(x) + Wanted(x) = Length(x[1][1])
  <2>1. CASE Len(x) < HEADER
    BY <1>1, <2>1 DEF Wanted
  <2>2. CASE ~(Len(x) < HEADER)
    <3>1. x # <<>>
      BY <1>1, <2>2
    <3>2. Len(x) < Length(x[1][1])
      BY <3>1
    <3> QED BY <1>1, <1>2, <2>2, <3>1, <3>2 DEF Wanted
  <2> QED BY <2>1, <2>2
<1>4. k \in 1 .. Len(w) /\ k <= Wanted(x)
  BY <1>1, <1>3 DEF Taken, Least
<1>5. a \in Seq(Unit) /\ b \in Seq(Unit) /\ Len(a) = k /\ a \o b = w /\ k \in 0 .. Len(w)
  <2>1. w \in Seq(Unit) /\ k \in 0 .. Len(w)
    BY <1>1, <1>4
  <2> HIDE DEF w, k
  <2> QED BY <2>1, UnitsSplit
<1>6. R = NowRead(r)
  BY <1>1 DEF NowRead
<1> HIDE DEF x, w, k, a, b
<1>7. R \in Seq(Unit) /\ Len(R) = Len(x) + k
  BY <1>1, <1>5, UnitsConcat
<1>8. R # <<>> /\ Len(R) >= 1
  BY <1>1, <1>4, <1>7
<1>9. x # <<>> => R[1] = x[1]
  BY <1>1, <1>5
<1> HIDE DEF R
<1>10. Length(R[1][1]) \in Nat /\ Length(R[1][1]) >= HEADER
  BY LengthIsNat
<1>11. Len(R) <= Length(R[1][1])
  <2>1. CASE Len(x) + Wanted(x) = HEADER
    BY <1>1, <1>3, <1>4, <1>7, <1>10, <2>1
  <2>2. CASE x # <<>> /\ Len(x) + Wanted(x) = Length(x[1][1])
    BY <1>1, <1>3, <1>4, <1>7, <1>9, <1>10, <2>2
  <2> QED BY <1>3, <2>1, <2>2
<1>12. Whole(R) <=> Len(R) = Length(R[1][1])
  <2>1. Len(R) \in Nat
    BY <1>7
  <2> QED BY <1>10, <1>11, <2>1, VconnAssumption DEF Whole
<1>13. R \o (b \o txbuf[e]) = Flow(e)
  <2> DEFINE y == txbuf[e]
  <2>1. y \in Seq(Unit) /\ b \o y \in Seq(Unit)
    BY <1>1, <1>5, UnitsConcat
  <2> HIDE DEF y
  <2>2. R \o (b \o y) = x \o (a \o (b \o y))
    <3>1. x \in Seq(Unit) /\ a \in Seq(Unit) /\ b \o y \in Seq(Unit)
      BY <1>1, <1>5, <2>1
    <3> QED BY <3>1, UnitsAssoc, Zenon DEF R
  <2>3. a \o (b \o y) = (a \o b) \o y
    BY <1>5, <2>1, UnitsAssoc, Zenon
  <2>4. R \o (b \o y) = x \o (w \o y)
    BY <1>5, <2>2, <2>3
  <2> QED BY <1>1, <2>4 DEF Flow, x, w, y
<1>14. Len(b) <= SOCKET
  <2>1. Len(w) = Len(a) + Len(b) /\ Len(b) \in Nat
    BY <1>5, UnitsConcat
  <2> QED BY <1>1, <1>4, <1>5, <2>1
<1> QED BY <1>5, <1>6, <1>7, <1>8, <1>11, <1>12, <1>13, <1>14 DEF b, w, k

-----------------------------------------------------------------------------
(* The direction from e to r: a step that leaves alone what is on the way,  *)
LEMMA DirectionKept ==
  ASSUME NEW e, NEW r, StreamInv(e, r), Flow(e)' = Flow(e), rxbuf'[r] = rxbuf[r],
         build' = build, sent'[e] = sent[e], got'[r] = got[r], ignored'[r] = ignored[r],
         version'[r] = version[r], state'[e] \in Early => state[e] \in Early,
         state[e] = "NONE" => state'[e] = "NONE",
         state'[r] \in Reading => state[r] \in Reading,
         state'[r] = "CONNECTED" => state[r] = "CONNECTED"
  PROVE  StreamInv(e, r)'
<1>1. Count(r)' = Count(r)
  BY DEF Count
<1>2. CASE state'[r] \in Reading
  BY <1>1, <1>2 DEF StreamInv
<1>3. CASE state'[r] \notin Reading
  <2>1. state'[r] # "CONNECTED"
    BY <1>3 DEF Reading
  <2> QED BY <1>3, <2>1 DEF StreamInv
<1> QED BY <1>2, <1>3

(* one after which nobody reads at r any more,                              *)
LEMMA DirectionEnds ==
  ASSUME NEW e, NEW r, state'[r] \notin Reading
  PROVE  StreamInv(e, r)'
<1>1. state'[r] # "CONNECTED"
  BY DEF Reading
<1> QED BY <1>1 DEF StreamInv

(* a message that e sends,                                                  *)
LEMMA DirectionSends ==
  ASSUME VconnTypeOK, NEW e \in Ends, NEW r \in Ends, r = Peer(e), StreamInv(e, r),
         NEW m \in Msg, StreamSends(e, m), m.version = build[e].OFP_VERSION,
         Numbered(m) => m.number = sent[e] + 1,
         sent'[e] = (IF Numbered(m) THEN sent[e] + 1 ELSE sent[e]),
         UNCHANGED <<rxbuf, got, ignored, version, build>>, state'[r] = state[r],
         state[e] # "NONE", state'[e] \in Early => state[e] \in Early /\ m.type # "HELLO",
         m.type = "REPLY" => state[e] \in Early
  PROVE  StreamInv(e, r)'
<1>1. CASE state[r] \notin Reading
  BY <1>1, DirectionEnds
<1>2. CASE state[r] \in Reading
  <2> DEFINE s == Flow(e)
             u == Units(m)
             n0 == Count(r)
             n == sent[e]
             n1 == sent'[e]
             v == build[e].OFP_VERSION
  <2>1. /\ txbuf[e] = <<>> /\ u \in Seq(Unit) /\ state[r] # "NONE"
        /\ wire[e] \in Seq(Unit) /\ rxbuf[r] \in Seq(Unit)
    BY <1>2, UnitsParts DEF StreamSends, Reading, Early, VconnTypeOK
  <2>2. wire'[e] \o txbuf'[e] = wire[e] \o u
    BY <2>1, WriteKeeps DEF StreamSends
  <2>3. Flow(e)' = s \o u /\ s \in Seq(Unit)
    <3>1. Flow(e)' = rxbuf[r] \o (wire[e] \o u)
      BY <2>2 DEF Flow
    <3>2. s = rxbuf[r] \o wire[e]
      BY <2>1, UnitsConcat DEF Flow
    <3> HIDE DEF u, s
    <3>3. (rxbuf[r] \o wire[e]) \o u = rxbuf[r] \o (wire[e] \o u) /\ rxbuf[r] \o wire[e] \in Seq(Unit)
      <4>1. rxbuf[r] \in Seq(Unit) /\ wire[e] \in Seq(Unit) /\ u \in Seq(Unit)
        BY <2>1
      <4> DEFINE x == rxbuf[r]
                 w == wire[e]
      <4> HIDE DEF x, w
      <4>2. x \in Seq(Unit) /\ w \in Seq(Unit)
        BY <4>1 DEF x, w
      <4>3. (x \o w) \o u = x \o (w \o u) /\ x \o w \in Seq(Unit)
        BY <4>1, <4>2, UnitsConcat
      <4> QED BY <4>3 DEF x, w
    <3> QED BY <3>1, <3>2, <3>3
  <2>4. n0 \in Nat /\ n \in Nat /\ Count(r)' = n0
    BY DEF VconnTypeOK, Count
  <2>5. Stream(s, n0, n, v) /\ Complete(s, n0, n) /\ (state[e] \in Early => Free(s, "HELLO"))
    BY <1>2 DEF StreamInv
  <2> HIDE DEF s, u, n0, n, n1, v
  <2>6. /\ Stream(s \o u, n0, n1, v) /\ Complete(s \o u, n0, n1)
        /\ \A type : Free(s, type) /\ m.type # type => Free(s \o u, type)
    BY <2>3, <2>4, <2>5, StreamAppend DEF u, n1, n, v
  <2>7. state'[e] \in Early => Free(s \o u, "HELLO") /\ state[r] # "CONNECTED"
    BY <2>5, <2>6 DEF StreamInv
  <2>8. state[r] = "CONNECTED" => Free(s \o u, "REPLY")
    <3> SUFFICES ASSUME state[r] = "CONNECTED" PROVE Free(s \o u, "REPLY")
      OBVIOUS
    <3>1. Free(s, "REPLY") /\ m.type # "REPLY"
      BY DEF StreamInv, s
    <3> QED BY <2>6, <3>1
  <2>9. Stream(Flow(e)', Count(r)', sent'[e], build'[e].OFP_VERSION) /\ Complete(Flow(e)', Count(r)', sent'[e])
    BY <2>3, <2>4, <2>6 DEF n1, v
  <2> QED BY <1>2, <2>3, <2>7, <2>8, <2>9 DEF StreamInv
<1> QED BY <1>1, <1>2

(* the end of e,                                                            *)
LEMMA DirectionCloses ==
  ASSUME VconnTypeOK, NEW e \in Ends, NEW r \in Ends, r = Peer(e), StreamInv(e, r), Close(e)
  PROVE  StreamInv(e, r)'
<1>1. /\ state' = [state EXCEPT ![e] = "NONE"] /\ version' = [version EXCEPT ![e] = -1]
      /\ txbuf' = [txbuf EXCEPT ![e] = <<>>] /\ rxbuf' = [rxbuf EXCEPT ![e] = <<>>]
      /\ UNCHANGED <<sent, got, ignored, build>>
  BY DEF Close, Becomes, seen
<1>2. /\ r # e /\ state'[r] = state[r] /\ state'[e] = "NONE" /\ version'[r] = version[r]
      /\ txbuf'[e] = <<>> /\ rxbuf'[r] = rxbuf[r] /\ Count(r)' = Count(r)
  BY <1>1, Peers DEF VconnTypeOK, Count
<1>3. CASE state[r] \notin Reading
  BY <1>2, <1>3, DirectionEnds
<1>4. CASE state[r] \in Reading
  <2>1. PICK left \in {wire[e], <<>>} : wire' = [wire EXCEPT ![e] = left, ![Peer(e)] = <<>>]
    BY DEF Close
  <2>2. /\ wire'[e] = left /\ wire[e] \in Seq(Unit) /\ rxbuf[r] \in Seq(Unit)
        /\ txbuf[e] \in Seq(Unit) /\ <<>> \in Seq(Unit)
    BY <1>2, <2>1 DEF VconnTypeOK
  <2> DEFINE x == rxbuf[r]
             w == wire[e]
             y == txbuf[e]
             a == x \o left
  <2>3. a \in Seq(Unit) /\ Flow(e)' = a
    <3>1. left \in Seq(Unit)
      BY <2>2
    <3>2. left \o <<>> = left /\ x \o left \in Seq(Unit)
      BY <2>2, <3>1, UnitsConcat
    <3> QED BY <1>2, <2>2, <3>2 DEF Flow
  <2>4. \E b \in Seq(Unit) : Flow(e) = a \o b
    <3>1. CASE left = wire[e]
      <4>1. (x \o w) \o y = x \o (w \o y)
        BY <2>2, UnitsAssoc, Zenon
      <4> QED BY <2>2, <3>1, <4>1 DEF Flow
    <3>2. CASE left = <<>>
      <4>1. a = x /\ w \o y \in Seq(Unit)
        BY <2>2, <3>2, UnitsConcat
      <4>2. Flow(e) = a \o (w \o y)
        BY <4>1 DEF Flow
      <4> QED BY <4>1, <4>2
    <3> QED BY <3>1, <3>2
  <2>5. PICK b \in Seq(Unit) : Flow(e) = a \o b
    BY <2>4
  <2> HIDE DEF a
  <2>6. Stream(a, Count(r), sent[e], build[e].OFP_VERSION)
    BY <1>4, <2>3, <2>5, StreamPrefix DEF StreamInv
  <2>7. Free(Flow(e), "REPLY") => Free(a, "REPLY")
    <3>1. \A i \in 1 .. Len(a) : (a \o b)[i] = a[i] /\ i \in 1 .. Len(a \o b)
      BY <2>3
    <3> QED BY <2>5, <3>1 DEF Free
  <2> QED BY <1>1, <1>2, <1>4, <2>3, <2>6, <2>7 DEF StreamInv, Early
<1> QED BY <1>3, <1>4

(* and what r reads: a part,                                                *)
LEMMA DirectionReadsPart ==
  ASSUME VconnTypeOK, NEW e \in Ends, NEW r \in Ends, e = Peer(r), StreamInv(e, r), ReadPart(r)
  PROVE  /\ StreamInv(e, r)' /\ rxbuf' \in [Ends -> Seq(Unit)]
         /\ wire' \in [Ends -> Seq(Unit)] /\ \A d \in Ends : Len(wire'[d]) <= SOCKET
<1> DEFINE R == NowRead(r)
           rest == SubSeq(wire[e], Taken(r) + 1, Len(wire[e]))
<1>1. /\ state[r] \in Reading /\ wire[e] # <<>> /\ Completed(r) = {}
      /\ wire' = [wire EXCEPT ![e] = rest] /\ rxbuf' = [rxbuf EXCEPT ![r] = R]
      /\ UNCHANGED <<state, version, txbuf, sent, got, ignored, build>>
  BY DEF ReadPart, StreamReads, Available, Reading, end, tx, seen
<1>2. /\ R \in Seq(Unit) /\ rest \in Seq(Unit) /\ Len(rest) <= SOCKET
      /\ R # <<>> /\ Len(R) <= Length(R[1][1]) /\ (Whole(R) <=> Len(R) = Length(R[1][1]))
      /\ R \o (rest \o txbuf[e]) = Flow(e)
  BY <1>1, ReadTakes DEF StreamInv
<1>3. ~Whole(R)
  BY <1>1 DEF Completed, Available
<1> HIDE DEF R, rest
<1>4. rxbuf'[r] = R /\ wire'[e] = rest /\ Peer(e) = r /\ e # r
  BY <1>1, Peers DEF VconnTypeOK
<1>5. Flow(e)' = Flow(e)
  BY <1>1, <1>2, <1>4 DEF Flow
<1>6. Len(R) < Length(R[1][1])
  <2>1. Len(R) \in Nat /\ Length(R[1][1]) \in Nat
    BY <1>2, LengthIsNat
  <2> QED BY <1>2, <1>3, <2>1
<1>7. Count(r)' = Count(r)
  BY <1>1 DEF Count
<1>8. StreamInv(e, r)'
  BY <1>1, <1>4, <1>5, <1>6, <1>7 DEF StreamInv
<1>9. \A d \in Ends : Len(wire'[d]) <= SOCKET
  BY <1>1, <1>2 DEF VconnTypeOK
<1> QED BY <1>1, <1>2, <1>8, <1>9 DEF VconnTypeOK

(* or the first message, of which it is the whole.                          *)
LEMMA ReadsFirst ==
  ASSUME VconnTypeOK, NEW e \in Ends, NEW r \in Ends, e = Peer(r), StreamInv(e, r),
         state[r] \in Reading, NEW m \in Completed(r), StreamReceives(r), txbuf' = txbuf,
         NEW n1, n1 = (IF Numbered(m) THEN Count(r) + 1 ELSE Count(r))
  PROVE  /\ m \in Msg /\ m.version = build[e].OFP_VERSION
         /\ Numbered(m) => m.number = Count(r) + 1
         /\ \A type : Free(Flow(e), type) => m.type # type
         /\ \A type : Free(Flow(e), type) => Free(Flow(e)', type)
         /\ m.type = "HELLO" => Free(Flow(e)', "REPLY")
         /\ Stream(Flow(e)', n1, sent[e], build[e].OFP_VERSION)
         /\ state[e] # "NONE" => Complete(Flow(e)', n1, sent[e])
         /\ rxbuf' = [rxbuf EXCEPT ![r] = <<>>] /\ rxbuf' \in [Ends -> Seq(Unit)]
         /\ wire' \in [Ends -> Seq(Unit)] /\ wire'[r] = wire[r]
         /\ \A d \in Ends : Len(wire'[d]) <= SOCKET
<1> DEFINE R == NowRead(r)
           rest == SubSeq(wire[e], Taken(r) + 1, Len(wire[e]))
           s == Flow(e)
           t == rest \o txbuf[e]
           L == Length(s[1][1])
<1>1. /\ wire[e] # <<>> /\ wire' = [wire EXCEPT ![e] = rest]
      /\ rxbuf' = [rxbuf EXCEPT ![r] = <<>>] /\ Whole(R) /\ m = Parsed(R)
  BY DEF StreamReceives, StreamReads, Completed, Available
<1>2. /\ R \in Seq(Unit) /\ rest \in Seq(Unit) /\ Len(rest) <= SOCKET
      /\ R # <<>> /\ Len(R) = Length(R[1][1]) /\ R \o t = s /\ txbuf[e] \in Seq(Unit)
  BY <1>1, ReadTakes DEF StreamInv, VconnTypeOK
<1>3. Peer(e) = r /\ e # r
  BY Peers
<1>4. rxbuf'[r] = <<>> /\ wire'[e] = rest /\ wire'[r] = wire[r] /\ <<>> \in Seq(Unit)
  <2> HIDE DEF R, rest
  <2>1. <<>> \in Seq(Unit)
    OBVIOUS
  <2> QED BY <1>1, <1>3, <2>1 DEF VconnTypeOK
<1>5. Flow(e)' = t /\ t \in Seq(Unit)
  <2>1. rest \o txbuf[e] \in Seq(Unit)
    BY <1>2, UnitsConcat
  <2>2. <<>> \o (rest \o txbuf[e]) = rest \o txbuf[e]
    BY <2>1, UnitsConcat
  <2> QED BY <1>3, <1>4, <2>1, <2>2 DEF Flow
<1> HIDE DEF R, rest, s, t
<1>6. /\ s \in Seq(Unit) /\ s # <<>> /\ Len(s) = Len(R) + Len(t) /\ s[1] = R[1]
      /\ \A i \in 1 .. Len(R) : s[i] = R[i] /\ i \in 1 .. Len(s)
  <2>1. /\ R \o t \in Seq(Unit) /\ Len(R \o t) = Len(R) + Len(t)
        /\ Len(R) \in Nat /\ Len(R) >= 1 /\ Len(t) \in Nat
    <3>1. R \o t \in Seq(Unit) /\ Len(R \o t) = Len(R) + Len(t)
      BY <1>2, <1>5, UnitsConcat
    <3>2. Len(R) \in Nat /\ Len(R) >= 1 /\ Len(t) \in Nat
      BY <1>2, <1>5
    <3> QED BY <3>1, <3>2
  <2>2. \A i \in 1 .. Len(R) : (R \o t)[i] = R[i] /\ i \in 1 .. Len(R \o t)
    BY <1>2, <1>5
  <2>3. s \in Seq(Unit) /\ Len(s) = Len(R) + Len(t) /\ s # <<>>
    BY <1>2, <2>1
  <2>4. \A i \in 1 .. Len(R) : s[i] = R[i] /\ i \in 1 .. Len(s)
    BY <1>2, <2>2
  <2> QED BY <2>1, <2>3, <2>4
<1>7. L \in Nat /\ L = Len(R) /\ L <= Len(s) /\ L >= 1
  BY <1>2, <1>5, <1>6, LengthIsNat
<1> HIDE DEF L
<1>8. t = SubSeq(s, L + 1, Len(s))
  BY <1>2, <1>5, <1>7
<1>9. /\ Count(r) \in Nat /\ sent[e] \in Nat
      /\ Stream(s, Count(r), sent[e], build[e].OFP_VERSION)
      /\ state[e] # "NONE" => Complete(s, Count(r), sent[e])
  BY DEF VconnTypeOK, Count, StreamInv, s
<1>10. /\ s[1][1] \in Msg /\ s[1][1].version = build[e].OFP_VERSION
       /\ \A k \in 1 .. L : s[k] = <<s[1][1], k>>
       /\ Numbered(s[1][1]) => s[1][1].number = Count(r) + 1
  BY <1>6, <1>7, <1>9, StreamHead DEF L
<1>11. m = s[1][1]
  <2> DEFINE f == s[1][1]
  <2>1. f \in Msg /\ L = Length(f) /\ R[1][1] = f /\ \A k \in 1 .. L : R[k] = <<f, k>>
    BY <1>6, <1>7, <1>10 DEF L
  <2> HIDE DEF f
  <2>2. Units(f) \in Seq(Unit) /\ Len(Units(f)) = L /\ \A k \in 1 .. L : Units(f)[k] = <<f, k>>
    BY <2>1, UnitsParts
  <2>3. R = Units(f)
    <3> DEFINE g == Units(f)
    <3>1. g \in Seq(Unit) /\ Len(g) = L /\ \A k \in 1 .. L : g[k] = R[k]
      BY <2>1, <2>2
    <3> HIDE DEF g
    <3>2. R = g
      BY <1>2, <1>7, <3>1
    <3> QED BY <3>2 DEF g
  <2> QED BY <1>1, <2>1, <2>3 DEF Parsed, f
<1>12. /\ Stream(t, n1, sent[e], build[e].OFP_VERSION)
       /\ Complete(s, Count(r), sent[e]) => Complete(t, n1, sent[e])
       /\ \A type : Free(s, type) => Free(t, type)
       /\ s[1][1].type = "HELLO" => Free(t, "REPLY")
  BY <1>6, <1>7, <1>8, <1>9, <1>11, StreamTail DEF L
<1>13. \A type : Free(s, type) => m.type # type
  BY <1>6, <1>7, <1>11 DEF Free
<1>14. \A d \in Ends : Len(wire'[d]) <= SOCKET
  BY <1>1, <1>2 DEF VconnTypeOK
<1>15. rxbuf' \in [Ends -> Seq(Unit)] /\ wire' \in [Ends -> Seq(Unit)]
  BY <1>1, <1>2, <1>4 DEF VconnTypeOK
<1> QED BY <1>1, <1>4, <1>5, <1>9, <1>10, <1>11, <1>12, <1>13, <1>14, <1>15 DEF s

-----------------------------------------------------------------------------
(* An end whose owner neither received nor lost a message.                  *)
LEMMA EndKept ==
  ASSUME NEW e, EndInv(e), got'[e] = got[e], ignored'[e] = ignored[e],
         state'[e] \in Early \cup {"RECV_HELLO"} => state[e] \in Early \cup {"RECV_HELLO"},
         state'[e] = "NONE" => txbuf'[e] = <<>> /\ rxbuf'[e] = <<>>
  PROVE  EndInv(e)'
BY DEF EndInv

(* The steps of x, for both directions between x and its peer y.            *)
Both(x, y) ==
  /\ VconnTypeOK /\ StreamInv(x, y) /\ StreamInv(y, x) /\ EndInv(x) /\ EndInv(y)

LEMMA SendsKeep ==
  ASSUME NEW x \in Ends, NEW y \in Ends, y = Peer(x), Both(x, y), NEW type \in Types,
         NEW n \in Nat, StreamSends(x, Message(type, x, n)),
         type \in {"DATA", "REPLY"} => n = sent[x] + 1,
         sent' = (IF type \in {"DATA", "REPLY"} THEN [sent EXCEPT ![x] = @ + 1] ELSE sent),
         NEW to \in States, state' = [state EXCEPT ![x] = to],
         UNCHANGED <<version, rxbuf, got, ignored, build>>,
         state[x] # "NONE", to # "NONE", to \in Early => state[x] \in Early /\ type # "HELLO",
         type = "REPLY" => state[x] \in Early,
         to = "RECV_HELLO" => state[x] \in Early, to = "CONNECTED" => state[x] = "CONNECTED",
         to \in Reading => state[x] \in Reading
  PROVE  Both(x, y)'
<1> DEFINE m == Message(type, x, n)
<1>1. /\ x # y /\ Peer(y) = x /\ VconnTypeOK /\ StreamInv(x, y) /\ StreamInv(y, x)
      /\ EndInv(x) /\ EndInv(y)
  BY Peers DEF Both
<1>2. /\ m \in Msg /\ m.type = type /\ m.version = build[x].OFP_VERSION /\ m.number = n
  BY <1>1, MessageTyped
<1>3. Numbered(m) <=> type \in {"DATA", "REPLY"}
  BY <1>2 DEF Numbered
<1> HIDE DEF m
<1>4. StreamSends(x, m)
  BY DEF m
<1>5. /\ sent'[x] = (IF Numbered(m) THEN sent[x] + 1 ELSE sent[x]) /\ sent'[y] = sent[y]
      /\ sent' \in [Ends -> Nat]
  BY <1>1, <1>3 DEF VconnTypeOK
<1>6. state'[x] = to /\ state'[y] = state[y] /\ state' \in [Ends -> States]
  BY <1>1 DEF VconnTypeOK
<1>7. StreamInv(x, y)'
  BY <1>1, <1>2, <1>3, <1>4, <1>5, <1>6, DirectionSends
<1>8. /\ wire' \in [Ends -> Seq(Unit)] /\ \A d \in Ends : Len(wire'[d]) <= SOCKET
      /\ txbuf' \in [Ends -> Seq(Unit)] /\ wire'[y] = wire[y] /\ txbuf'[y] = txbuf[y]
  BY <1>1, <1>2, <1>4, UnitsParts, WriteKeeps DEF StreamSends
<1>9. Flow(y)' = Flow(y)
  BY <1>1, <1>8 DEF Flow
<1>10. StreamInv(y, x)'
  BY <1>1, <1>5, <1>6, <1>9, DirectionKept
<1>11. EndInv(x)' /\ EndInv(y)'
  <2>1. EndInv(x)'
    BY <1>1, <1>6, EndKept
  <2>2. state'[y] = "NONE" => txbuf'[y] = <<>> /\ rxbuf'[y] = <<>>
    BY <1>1, <1>6, <1>8 DEF EndInv
  <2>3. EndInv(y)'
    BY <1>1, <1>6, <2>2, EndKept
  <2> QED BY <2>1, <2>3
<1>12. VconnTypeOK'
  BY <1>1, <1>5, <1>6, <1>8 DEF VconnTypeOK
<1> QED BY <1>7, <1>10, <1>11, <1>12 DEF Both

LEMMA CloseKeeps ==
  ASSUME NEW x \in Ends, NEW y \in Ends, y = Peer(x), Both(x, y), Close(x)
  PROVE  Both(x, y)'
<1>1. /\ x # y /\ Peer(y) = x /\ VconnTypeOK /\ StreamInv(x, y) /\ StreamInv(y, x)
      /\ EndInv(x) /\ EndInv(y)
  BY Peers DEF Both
<1>2. /\ state' = [state EXCEPT ![x] = "NONE"] /\ version' = [version EXCEPT ![x] = -1]
      /\ txbuf' = [txbuf EXCEPT ![x] = <<>>] /\ rxbuf' = [rxbuf EXCEPT ![x] = <<>>]
      /\ UNCHANGED <<sent, got, ignored, build>>
      /\ \E left \in {wire[x], <<>>} : wire' = [wire EXCEPT ![x] = left, ![Peer(x)] = <<>>]
  BY DEF Close, Becomes, seen
<1>3. <<>> \in Seq(Unit) /\ Len(<<>>) <= SOCKET /\ "NONE" \in States /\ -1 \in Int
  BY VconnAssumption DEF States
<1>4. /\ wire' \in [Ends -> Seq(Unit)] /\ \A d \in Ends : Len(wire'[d]) <= SOCKET
  <2>1. PICK left \in {wire[x], <<>>} : wire' = [wire EXCEPT ![x] = left, ![y] = <<>>]
    BY <1>2
  <2>2. left \in Seq(Unit) /\ Len(left) <= SOCKET
    BY <1>1, <1>3 DEF VconnTypeOK
  <2> QED BY <1>1, <1>3, <2>1, <2>2 DEF VconnTypeOK
<1>5. VconnTypeOK'
  BY <1>1, <1>2, <1>3, <1>4 DEF VconnTypeOK
<1>6. StreamInv(x, y)'
  BY <1>1, DirectionCloses
<1>7. state'[x] = "NONE" /\ state'[y] = state[y] /\ txbuf'[y] = txbuf[y] /\ rxbuf'[y] = rxbuf[y]
      /\ txbuf'[x] = <<>> /\ rxbuf'[x] = <<>>
  BY <1>1, <1>2 DEF VconnTypeOK
<1>8. StreamInv(y, x)'
  BY <1>7, DirectionEnds DEF Reading, Early
<1>9. EndInv(x)'
  BY <1>1, <1>2, <1>7, EndKept DEF Early
<1>10. EndInv(y)'
  <2>1. state'[y] = "NONE" => txbuf'[y] = <<>> /\ rxbuf'[y] = <<>>
    BY <1>1, <1>7 DEF EndInv
  <2> QED BY <1>1, <1>2, <1>7, <2>1, EndKept
<1> QED BY <1>5, <1>6, <1>8, <1>9, <1>10 DEF Both

(* The end becomes another state and touches nothing else.                  *)
LEMMA BecomesKeeps ==
  ASSUME NEW x \in Ends, NEW y \in Ends, y = Peer(x), Both(x, y), NEW to \in States,
         state' = [state EXCEPT ![x] = to],
         UNCHANGED <<version, txbuf, rxbuf, wire, sent, got, ignored, build>>,
         state[x] # "NONE", to # "NONE", to \in Early \cup {"RECV_HELLO"} => state[x] \in Early,
         to # "CONNECTED"
  PROVE  Both(x, y)'
<1>1. /\ x # y /\ Peer(y) = x /\ VconnTypeOK /\ StreamInv(x, y) /\ StreamInv(y, x)
      /\ EndInv(x) /\ EndInv(y)
  BY Peers DEF Both
<1>2. state'[x] = to /\ state'[y] = state[y]
  BY <1>1 DEF VconnTypeOK
<1>3. VconnTypeOK'
  BY <1>1 DEF VconnTypeOK
<1>4. Flow(x)' = Flow(x) /\ Flow(y)' = Flow(y)
  BY DEF Flow
<1>5. to \in Early => state[x] \in Early
  OBVIOUS
<1>6. to \in Reading => state[x] \in Reading
  BY DEF Reading, Early
<1>7. StreamInv(x, y)'
  BY <1>1, <1>2, <1>4, <1>5, DirectionKept
<1>8. StreamInv(y, x)'
  BY <1>1, <1>2, <1>4, <1>6, DirectionKept
<1>9. EndInv(x)'
  BY <1>1, <1>2, EndKept
<1>10. EndInv(y)'
  BY <1>1, <1>2 DEF EndInv
<1> QED BY <1>3, <1>7, <1>8, <1>9, <1>10 DEF Both

(* A message is received: by vcs_recv_hello or by the owner.                *)
LEMMA ReceiveKeeps ==
  ASSUME NEW x \in Ends, NEW y \in Ends, y = Peer(x), Both(x, y), NEW m \in Completed(x),
         StreamReceives(x), state[x] \in {"RECV_HELLO", "CONNECTED"},
         NEW to \in {"RECV_HELLO", "CONNECTED", "SEND_ERROR", "DISCONNECTED"},
         state' = [state EXCEPT ![x] = to], UNCHANGED <<txbuf, sent, build>>,
         version' \in [Ends -> Int], version'[y] = version[y],
         got' \in [Ends -> Seq(Nat)], got'[y] = got[y],
         ignored' \in [Ends -> Nat], ignored'[y] = ignored[y],
         to \in Reading => Count(x)' = (IF Numbered(m) THEN Count(x) + 1 ELSE Count(x)),
         to = "CONNECTED" => \/ state[x] = "CONNECTED" /\ version'[x] = version[x]
                             \/ /\ m.type = "HELLO" /\ version'[x] = Negotiated(x, m)
                                /\ version'[x] >= build[x].min_version,
         EndInv(x)'
  PROVE  Both(x, y)'
<1> DEFINE n1 == IF Numbered(m) THEN Count(x) + 1 ELSE Count(x)
<1>1. /\ x # y /\ Peer(y) = x /\ VconnTypeOK /\ StreamInv(x, y) /\ StreamInv(y, x)
      /\ EndInv(x) /\ EndInv(y) /\ state[x] \in Reading
  BY Peers DEF Both, Reading
<1>2. /\ m \in Msg /\ m.version = build[y].OFP_VERSION
      /\ \A type : Free(Flow(y), type) => m.type # type
      /\ \A type : Free(Flow(y), type) => Free(Flow(y)', type)
      /\ m.type = "HELLO" => Free(Flow(y)', "REPLY")
      /\ Stream(Flow(y)', n1, sent[y], build[y].OFP_VERSION)
      /\ state[y] # "NONE" => Complete(Flow(y)', n1, sent[y])
      /\ rxbuf' = [rxbuf EXCEPT ![x] = <<>>] /\ rxbuf' \in [Ends -> Seq(Unit)]
      /\ wire' \in [Ends -> Seq(Unit)] /\ wire'[x] = wire[x]
      /\ \A d \in Ends : Len(wire'[d]) <= SOCKET
  BY <1>1, ReadsFirst
<1> HIDE DEF n1
<1>3. /\ state'[x] = to /\ state'[y] = state[y] /\ rxbuf'[x] = <<>> /\ rxbuf'[y] = rxbuf[y]
      /\ to \in States /\ to # "NONE" /\ to \notin Early /\ state[x] # "NONE" /\ state[x] \notin Early
  BY <1>1, <1>2 DEF VconnTypeOK, States, Reading, Early
<1>4. Flow(x)' = Flow(x)
  BY <1>2, <1>3 DEF Flow
<1>5. StreamInv(x, y)'
  BY <1>1, <1>3, <1>4, DirectionKept
<1>6. StreamInv(y, x)'
  <2>1. CASE to \notin Reading
    BY <1>3, <2>1, DirectionEnds
  <2>2. CASE to \in Reading
    <3>1. Count(x)' = n1
      BY <2>2 DEF n1
    <3>2. state[y] \in Early => Free(Flow(y), "HELLO") /\ state[x] # "CONNECTED"
      BY <1>1 DEF StreamInv
    <3>3. state[y] \in Early => Free(Flow(y)', "HELLO") /\ to # "CONNECTED"
      BY <1>2, <3>2
    <3>4. ASSUME to = "CONNECTED"
          PROVE  /\ Free(Flow(y)', "REPLY")
                 /\ version'[x] = Least(build[x].OFP_VERSION, build[y].OFP_VERSION)
                 /\ version'[x] >= build[x].min_version
      <4>1. CASE state[x] = "CONNECTED" /\ version'[x] = version[x]
        BY <1>1, <1>2, <4>1 DEF StreamInv
      <4>2. CASE /\ m.type = "HELLO" /\ version'[x] = Negotiated(x, m)
                 /\ version'[x] >= build[x].min_version
        BY <1>2, <4>2 DEF Negotiated
      <4> QED BY <3>4, <4>1, <4>2
    <3> QED BY <1>2, <1>3, <2>2, <3>1, <3>3, <3>4 DEF StreamInv
  <2> QED BY <2>1, <2>2
<1>7. EndInv(y)'
  <2>1. state'[y] = "NONE" => txbuf'[y] = <<>> /\ rxbuf'[y] = <<>>
    BY <1>1, <1>3 DEF EndInv
  <2> QED BY <1>1, <1>3, <2>1, EndKept
<1>8. VconnTypeOK'
  BY <1>1, <1>2, <1>3 DEF VconnTypeOK
<1> QED BY <1>5, <1>6, <1>7, <1>8 DEF Both

(* Every step of an end.                                                    *)
LEMMA RunStep ==
  ASSUME NEW x \in Ends, NEW y \in Ends, y = Peer(x), Both(x, y), Run(x) \/ CloseOwn(x)
  PROVE  Both(x, y)'
<1>1. /\ x # y /\ Peer(y) = x /\ VconnTypeOK /\ StreamInv(x, y) /\ StreamInv(y, x)
      /\ EndInv(x) /\ EndInv(y)
  BY Peers DEF Both
<1> USE DEF end, tx, seen, Becomes
<1>2. CASE vcs_connecting(x)
  <2>1. PICK to \in {"SEND_HELLO", "DISCONNECTED"} : state' = [state EXCEPT ![x] = to]
    BY <1>2 DEF vcs_connecting
  <2> QED BY <1>1, <1>2, <2>1, BecomesKeeps DEF vcs_connecting, States, Reading, Early
<1>3. CASE Accept(x)
  BY <1>1, <1>3, BecomesKeeps DEF Accept, States, Reading, Early
<1>4. CASE vcs_send_hello(x)
  <2>1. /\ state[x] = "SEND_HELLO" /\ UNCHANGED <<version, rxbuf, sent, got, ignored, build>>
    BY <1>4 DEF vcs_send_hello
  <2>2. CASE StreamSends(x, Message("HELLO", x, 0)) /\ state' = [state EXCEPT ![x] = "RECV_HELLO"]
    BY <1>1, <2>1, <2>2, SendsKeep DEF Types, States, Reading, Early
  <2>3. CASE state' = [state EXCEPT ![x] = "DISCONNECTED"] /\ UNCHANGED <<txbuf, wire>>
    BY <1>1, <2>1, <2>3, BecomesKeeps DEF States, Reading, Early
  <2> QED BY <1>4, <2>2, <2>3 DEF vcs_send_hello
<1>5. CASE vcs_recv_hello(x)
  <2>1. state[x] = "RECV_HELLO" /\ UNCHANGED <<txbuf, sent, got, build>> /\ got[x] = <<>>
    BY <1>1, <1>5 DEF vcs_recv_hello, EndInv
  <2>2. ASSUME NEW m \in Completed(x), StreamReceives(x), RecvHello(x, m) PROVE Both(x, y)'
    <3>1. PICK to \in {"SEND_ERROR", "CONNECTED"} :
            /\ state' = [state EXCEPT ![x] = to]
            /\ to = "CONNECTED" => ~(Negotiated(x, m) < build[x].min_version)
      BY <2>2 DEF RecvHello
    <3>2. m.type = "HELLO" /\ version' = [version EXCEPT ![x] = Negotiated(x, m)] /\ UNCHANGED ignored
      BY <2>2 DEF RecvHello
    <3>3. Negotiated(x, m) \in Nat /\ build[x].min_version \in Nat
      <4>1. m \in Msg /\ build[x].OFP_VERSION \in Nat /\ build[x].min_version \in Nat
        BY <1>1, <2>1, <2>2, ReadsFirst DEF VconnTypeOK, Build, Reading
      <4> QED BY <4>1 DEF Negotiated, Least, Msg
    <3>4. version' \in [Ends -> Int] /\ version'[x] = Negotiated(x, m) /\ version'[y] = version[y]
      BY <1>1, <3>2, <3>3 DEF VconnTypeOK
    <3>5. Count(x)' = Count(x) /\ ~Numbered(m) /\ state'[x] = to
      BY <1>1, <2>1, <3>1, <3>2 DEF Count, Numbered, VconnTypeOK
    <3>6. EndInv(x)'
      BY <1>1, <2>1, <3>2, <3>5, EndKept DEF Early
    <3>7. got' \in [Ends -> Seq(Nat)] /\ ignored' \in [Ends -> Nat]
      BY <1>1, <2>1, <3>2 DEF VconnTypeOK
    <3>8. to = "CONNECTED" => version'[x] >= build[x].min_version
      BY <3>1, <3>3, <3>4
    <3> QED BY <1>1, <2>1, <2>2, <3>1, <3>2, <3>4, <3>5, <3>6, <3>7, <3>8, ReceiveKeeps
  <2>3. ASSUME NEW m \in Completed(x), StreamReceives(x), Ignore(x, m) PROVE Both(x, y)'
    <3>1. /\ m.type = "DATA" /\ ignored' = [ignored EXCEPT ![x] = @ + 1]
          /\ UNCHANGED <<state, version>>
      BY <2>3 DEF Ignore
    <3>2. ignored' \in [Ends -> Nat] /\ ignored'[x] = ignored[x] + 1 /\ ignored'[y] = ignored[y]
      BY <1>1, <3>1 DEF VconnTypeOK
    <3>3. Count(x)' = Count(x) + 1 /\ Numbered(m)
      BY <1>1, <2>1, <3>1, <3>2 DEF Count, Numbered, VconnTypeOK
    <3>4. EndInv(x)'
      BY <2>1, <3>1 DEF EndInv
    <3>5. state' = [state EXCEPT ![x] = "RECV_HELLO"]
      BY <1>1, <2>1, <3>1 DEF VconnTypeOK
    <3> QED BY <1>1, <2>1, <2>3, <3>1, <3>2, <3>3, <3>4, <3>5, ReceiveKeeps DEF VconnTypeOK
  <2>4. ASSUME NEW m \in Completed(x), StreamReceives(x), UNCHANGED <<version, ignored>>,
               state' = [state EXCEPT ![x] = "DISCONNECTED"]
        PROVE  Both(x, y)'
    <3>1. state'[x] = "DISCONNECTED"
      BY <1>1, <2>4 DEF VconnTypeOK
    <3>2. EndInv(x)'
      BY <1>1, <2>1, <2>4, <3>1, EndKept DEF Early
    <3> QED BY <1>1, <2>1, <2>4, <3>2, ReceiveKeeps DEF VconnTypeOK, Reading, Early
  <2>5. CASE UNCHANGED <<version, rxbuf, wire, ignored>> /\ state' = [state EXCEPT ![x] = "DISCONNECTED"]
    BY <1>1, <2>1, <2>5, BecomesKeeps DEF States, Reading, Early
  <2> QED BY <1>5, <2>2, <2>3, <2>4, <2>5 DEF vcs_recv_hello
<1>6. CASE vcs_send_error(x)
  <2>1. /\ state[x] = "SEND_ERROR" /\ UNCHANGED <<version, rxbuf, sent, got, ignored, build>>
        /\ state' = [state EXCEPT ![x] = "DISCONNECTED"]
    BY <1>6 DEF vcs_send_error
  <2>2. CASE StreamSends(x, Message("ERROR", x, 0))
    BY <1>1, <2>1, <2>2, SendsKeep DEF Types, States, Reading, Early
  <2>3. CASE UNCHANGED <<txbuf, wire>>
    BY <1>1, <2>1, <2>3, BecomesKeeps DEF States, Reading, Early
  <2> QED BY <1>6, <2>2, <2>3 DEF vcs_send_error
<1>7. CASE CloseFailed(x) \/ CloseOwn(x) \/ RecvFails(x) \/ SendFails(x)
  BY <1>7, CloseKeeps DEF CloseFailed, CloseOwn, RecvFails, SendFails
<1>8. CASE stream_do_tx(x)
  <2>1. /\ wire' = Written(x, txbuf[x]) /\ txbuf' = [txbuf EXCEPT ![x] = Rest(x, txbuf[x])]
        /\ UNCHANGED <<state, version, rxbuf, sent, got, ignored, build>>
    BY <1>8 DEF stream_do_tx
  <2>2. txbuf[x] \in Seq(Unit)
    BY <1>1 DEF VconnTypeOK
  <2>3. /\ wire' \in [Ends -> Seq(Unit)] /\ \A d \in Ends : Len(wire'[d]) <= SOCKET
        /\ txbuf' \in [Ends -> Seq(Unit)] /\ wire'[y] = wire[y] /\ txbuf'[y] = txbuf[y]
        /\ state[y] # "NONE" => wire'[x] \o txbuf'[x] = wire[x] \o txbuf[x]
    BY <1>1, <2>1, <2>2, WriteKeeps
  <2>4. VconnTypeOK'
    BY <1>1, <2>1, <2>3 DEF VconnTypeOK
  <2>5. Flow(y)' = Flow(y)
    BY <1>1, <2>1, <2>3 DEF Flow
  <2>6. StreamInv(y, x)'
    BY <1>1, <2>1, <2>5, DirectionKept
  <2>7. StreamInv(x, y)'
    <3>1. CASE state[y] = "NONE"
      BY <2>1, <3>1, DirectionEnds DEF Reading, Early
    <3>2. CASE state[y] # "NONE"
      <4>1. Flow(x)' = Flow(x)
        BY <2>1, <2>3, <3>2 DEF Flow
      <4> QED BY <1>1, <2>1, <4>1, DirectionKept
    <3> QED BY <3>1, <3>2
  <2>8. txbuf[x] = <<>> => txbuf'[x] = <<>>
    <3> SUFFICES ASSUME txbuf[x] = <<>> PROVE txbuf'[x] = <<>>
      OBVIOUS
    <3>1. wire[x] \in Seq(Unit) /\ Len(wire[x]) <= SOCKET
      BY <1>1 DEF VconnTypeOK
    <3>2. Fits(x, <<>>) = 0
      BY <3>1, VconnAssumption DEF Fits, Least
    <3>3. Rest(x, <<>>) = <<>>
      BY <3>2 DEF Rest
    <3> QED BY <1>1, <2>1, <3>3 DEF VconnTypeOK
  <2>9. EndInv(x)' /\ EndInv(y)'
    BY <1>1, <2>1, <2>3, <2>8 DEF EndInv
  <2> QED BY <2>4, <2>6, <2>7, <2>9 DEF Both
<1>9. CASE ReadPart(x)
  <2>1. /\ StreamInv(y, x)' /\ rxbuf' \in [Ends -> Seq(Unit)]
        /\ wire' \in [Ends -> Seq(Unit)] /\ \A d \in Ends : Len(wire'[d]) <= SOCKET
    BY <1>1, <1>9, DirectionReadsPart
  <2>2. /\ UNCHANGED <<state, version, txbuf, sent, got, ignored, build>>
        /\ state[x] \in {"RECV_HELLO", "CONNECTED"}
        /\ rxbuf' = [rxbuf EXCEPT ![x] = NowRead(x)]
        /\ wire' = [wire EXCEPT ![y] = SubSeq(@, Taken(x) + 1, Len(@))]
    BY <1>9 DEF ReadPart, StreamReads
  <2>3. rxbuf'[y] = rxbuf[y] /\ wire'[x] = wire[x]
    BY <1>1, <2>2 DEF VconnTypeOK
  <2>4. Flow(x)' = Flow(x)
    BY <2>2, <2>3 DEF Flow
  <2>5. StreamInv(x, y)'
    BY <1>1, <2>2, <2>3, <2>4, DirectionKept
  <2>6. EndInv(x)' /\ EndInv(y)'
    BY <1>1, <2>2, <2>3 DEF EndInv
  <2>7. VconnTypeOK'
    BY <1>1, <2>1, <2>2 DEF VconnTypeOK
  <2> QED BY <2>1, <2>5, <2>6, <2>7 DEF Both
<1>10. CASE vconn_send(x)
  <2>1. /\ sent' = [sent EXCEPT ![x] = @ + 1] /\ sent[x] \in Nat
        /\ UNCHANGED <<state, version, rxbuf, got, ignored, build>>
    BY <1>1, <1>10 DEF vconn_send, VconnTypeOK
  <2>2. PICK type \in {"DATA", "REPLY"} :
          /\ StreamSends(x, Message(type, x, sent[x] + 1))
          /\ \/ state[x] = "CONNECTED" /\ type = "DATA"
             \/ state[x] = "SEND_HELLO"
    <3>1. build[x].early \subseteq {"DATA", "REPLY"}
      BY <1>1 DEF VconnTypeOK, Build
    <3> QED BY <1>10, <3>1 DEF vconn_send
  <2>3. state' = [state EXCEPT ![x] = state[x]] /\ state[x] \in States
    BY <1>1, <2>1 DEF VconnTypeOK
  <2>4. state[x] = "SEND_HELLO" => state[x] \in Early
    BY DEF Early
  <2>5. type \in Types /\ type # "HELLO" /\ sent[x] + 1 \in Nat
    BY <2>1 DEF Types
  <2>6. /\ state[x] # "NONE" /\ (type = "REPLY" => state[x] \in Early)
        /\ state[x] # "RECV_HELLO"
    BY <2>2, <2>4
  <2> QED BY <1>1, <2>1, <2>2, <2>3, <2>5, <2>6, SendsKeep
<1>11. CASE vconn_recv(x)
  <2>1. PICK m \in Completed(x) :
          /\ StreamReceives(x) /\ ~WrongVersion(x, m)
          /\ got' = [got EXCEPT ![x] = IF m.type = "DATA" THEN Append(@, m.number) ELSE @]
    BY <1>11 DEF vconn_recv
  <2>2. state[x] = "CONNECTED" /\ UNCHANGED <<state, version, txbuf, sent, ignored, build>>
    BY <1>11 DEF vconn_recv
  <2>3. /\ m \in Msg /\ (Numbered(m) => m.number = Count(x) + 1) /\ m.type # "REPLY"
    <3>1. Free(Flow(y), "REPLY")
      BY <1>1, <2>2 DEF StreamInv
    <3> QED BY <1>1, <2>1, <2>2, <3>1, ReadsFirst DEF Reading
  <2>4. Numbered(m) <=> m.type = "DATA"
    BY <2>3 DEF Numbered
  <2>5. got[x] \in Seq(Nat) /\ m.number \in Nat /\ ignored[x] \in Nat /\ got \in [Ends -> Seq(Nat)]
    BY <1>1, <2>3 DEF VconnTypeOK, Msg
  <2>6. got'[x] = (IF m.type = "DATA" THEN Append(got[x], m.number) ELSE got[x]) /\ got'[y] = got[y]
    BY <1>1, <2>1, <2>5
  <2>7. got' \in [Ends -> Seq(Nat)]
    BY <2>1, <2>5
  <2>8. Count(x)' = IF Numbered(m) THEN Count(x) + 1 ELSE Count(x)
    <3>1. CASE m.type = "DATA"
      <4>1. Len(got'[x]) = Len(got[x]) + 1 /\ Len(got[x]) \in Nat
        BY <2>5, <2>6, <3>1
      <4>2. Count(x)' = Len(got'[x]) + ignored[x] /\ Count(x) = Len(got[x]) + ignored[x]
        BY <2>2 DEF Count
      <4>3. Len(got'[x]) + ignored[x] = (Len(got[x]) + ignored[x]) + 1
        BY <2>5, <4>1
      <4> QED BY <2>4, <3>1, <4>2, <4>3
    <3>2. CASE m.type # "DATA"
      BY <2>2, <2>4, <2>6, <3>2 DEF Count
    <3> QED BY <3>1, <3>2
  <2>9. EndInv(x)'
    <3>1. CASE m.type = "DATA"
      <4>1. /\ got'[x] = Append(got[x], m.number) /\ m.number = (Len(got[x]) + ignored[x]) + 1
            /\ \A k \in 1 .. Len(got[x]) : got[x][k] = ignored[x] + k
        BY <1>1, <2>3, <2>4, <2>6, <3>1 DEF Count, EndInv
      <4>2. \A k \in 1 .. Len(got'[x]) : got'[x][k] = ignored[x] + k
        <5> DEFINE g == got[x]
                   h == got'[x]
        <5>1. /\ Len(h) = Len(g) + 1 /\ Len(g) \in Nat /\ h[Len(g) + 1] = m.number
              /\ \A k \in 1 .. Len(g) : h[k] = g[k]
          BY <2>5, <4>1
        <5> SUFFICES ASSUME NEW k \in 1 .. Len(h) PROVE h[k] = ignored[x] + k
          OBVIOUS
        <5>2. CASE k = Len(g) + 1
          <6>1. h[k] = (Len(g) + ignored[x]) + 1
            BY <4>1, <5>1, <5>2
          <6>2. ignored[x] \in Nat /\ Len(g) \in Nat
            BY <2>5, <5>1
          <6>3. (Len(g) + ignored[x]) + 1 = ignored[x] + (Len(g) + 1)
            BY <6>2
          <6> QED BY <5>2, <6>1, <6>3
        <5>3. CASE k # Len(g) + 1
          <6>1. k \in 1 .. Len(g)
            BY <5>1, <5>3
          <6> QED BY <4>1, <5>1, <6>1
        <5> QED BY <5>2, <5>3
      <4> QED BY <2>2, <4>2 DEF EndInv, Early
    <3>2. CASE m.type # "DATA"
      BY <1>1, <2>2, <2>6, <3>2, EndKept
    <3> QED BY <3>1, <3>2
  <2>10. state' = [state EXCEPT ![x] = "CONNECTED"]
    BY <1>1, <2>2 DEF VconnTypeOK
  <2>11. version' \in [Ends -> Int] /\ ignored' \in [Ends -> Nat]
    BY <1>1, <2>2 DEF VconnTypeOK
  <2> QED BY <1>1, <2>1, <2>2, <2>6, <2>7, <2>8, <2>9, <2>10, <2>11, ReceiveKeeps
<1> QED BY <1>2, <1>3, <1>4, <1>5, <1>6, <1>7, <1>8, <1>9, <1>10, <1>11 DEF Run

(* Nothing on the way, nothing missing.                                     *)
LEMMA EmptyStream ==
  ASSUME NEW v
  PROVE  Stream(<<>>, 0, 0, v) /\ Complete(<<>>, 0, 0) /\ Free(<<>>, "HELLO")
<1>1. <<>> \in Seq(Unit) /\ Len(<<>>) = 0
  OBVIOUS
<1> QED BY <1>1 DEF Stream, Cut, Ordered, AnswersFirst, Complete, Free

(* Every step of the two ends keeps the invariant.                          *)
LEMMA VconnStep ==
  ASSUME VconnTypeOK, VconnInv, [Next]_vars
  PROVE  VconnTypeOK' /\ VconnInv'
<1>1. ASSUME NEW x \in Ends, Run(x) \/ CloseOwn(x) PROVE VconnTypeOK' /\ VconnInv'
  <2>1. Peer(x) \in Ends /\ Peer(Peer(x)) = x /\ Ends = {x, Peer(x)}
    BY Peers
  <2>2. Both(x, Peer(x))
    BY <2>1 DEF VconnInv, Both
  <2>3. Both(x, Peer(x))'
    BY <1>1, <2>1, <2>2, RunStep
  <2> QED BY <2>1, <2>3 DEF VconnInv, Both
<1>2. CASE Reopen
  <2>1. /\ state' = Opening /\ wire' = [e \in Ends |-> <<>>] /\ sent' = [e \in Ends |-> 0]
        /\ got' = [e \in Ends |-> <<>>] /\ ignored' = [e \in Ends |-> 0]
        /\ UNCHANGED <<version, txbuf, rxbuf, build>> /\ \A e \in Ends : state[e] = "NONE"
    BY <1>2 DEF Reopen, tx
  <2>2. /\ <<>> \in Seq(Unit) /\ <<>> \in Seq(Nat) /\ Len(<<>>) <= SOCKET
        /\ Opening \in [Ends -> States]
    BY VconnAssumption DEF Opening, States, Reading, Early
  <2>3. VconnTypeOK'
    BY <2>1, <2>2 DEF VconnTypeOK
  <2>4. \A e \in Ends : txbuf[e] = <<>> /\ rxbuf[e] = <<>>
    BY <2>1 DEF VconnInv, EndInv
  <2>5. \A e \in Ends : (StreamInv(e, Peer(e)) /\ EndInv(e))'
    <3> TAKE e \in Ends
    <3>1. Peer(e) \in Ends /\ state'[e] \in Early /\ state'[Peer(e)] \in Early
      BY <2>1, Peers DEF Opening, Ends, Early
    <3>2. Flow(e)' = <<>> /\ Count(Peer(e))' = 0 /\ sent'[e] = 0 /\ rxbuf'[Peer(e)] = <<>>
          /\ txbuf'[e] = <<>> /\ rxbuf'[e] = <<>> /\ got'[e] = <<>>
      BY <2>1, <2>4, <3>1 DEF Flow, Count
    <3>3. state'[Peer(e)] # "CONNECTED" /\ Len(<<>>) = 0
      BY <3>1 DEF Early
    <3> QED BY <3>1, <3>2, <3>3, EmptyStream DEF StreamInv, EndInv
  <2> QED BY <2>3, <2>5 DEF VconnInv
<1>3. CASE UNCHANGED vars
  BY <1>3 DEF vars, end, tx, seen, VconnTypeOK, VconnInv, StreamInv, EndInv, Flow, Count
<1> QED BY <1>1, <1>2, <1>3 DEF Next

LEMMA VconnStart == Init => VconnTypeOK /\ VconnInv
<1> SUFFICES ASSUME Init PROVE VconnTypeOK /\ VconnInv
  OBVIOUS
<1>1. /\ <<>> \in Seq(Unit) /\ <<>> \in Seq(Nat) /\ Len(<<>>) <= SOCKET
      /\ Opening \in [Ends -> States] /\ -1 \in Int
  BY VconnAssumption DEF Opening, States, Reading, Early
<1>2. build \in [Ends -> Build]
  BY VconnAssumption DEF Init, Build
<1>3. VconnTypeOK
  BY <1>1, <1>2 DEF Init, VconnTypeOK
<1>4. \A e \in Ends : StreamInv(e, Peer(e)) /\ EndInv(e)
  <2> TAKE e \in Ends
  <2>1. Peer(e) \in Ends /\ state[e] \in Early /\ state[Peer(e)] \in Early
    BY Peers DEF Init, Opening, Ends, Early
  <2>2. Flow(e) = <<>> /\ Count(Peer(e)) = 0 /\ sent[e] = 0 /\ rxbuf[Peer(e)] = <<>>
        /\ txbuf[e] = <<>> /\ rxbuf[e] = <<>> /\ got[e] = <<>>
    BY <2>1 DEF Init, Flow, Count
  <2>3. state[Peer(e)] # "CONNECTED" /\ Len(<<>>) = 0
    BY <2>1 DEF Early
  <2> QED BY <2>1, <2>2, <2>3, EmptyStream DEF StreamInv, EndInv
<1> QED BY <1>3, <1>4 DEF VconnInv

(* stream_send, stream_do_tx and stream_recv hand every message on whole,   *)
(* in order and without a gap, however the socket cuts them; what do_recv   *)
(* ignores before the negotiation is left out as a whole.                   *)
THEOREM MessagesInOrder == Spec => []DataInOrder
<1>1. VconnInv => DataInOrder
  BY DEF VconnInv, EndInv, DataInOrder
<1>2. VconnTypeOK /\ VconnInv /\ [Next]_vars => VconnTypeOK' /\ VconnInv'
  BY VconnStep
<1> QED BY <1>1, <1>2, VconnStart, PTL DEF Spec

(* Two ends that vcs_recv_hello connected have negotiated the same version, *)
(* one that both support, whatever else was on the way at that time.        *)
THEOREM NegotiationAgrees == Spec => []VersionsAgree
<1>1. VconnTypeOK /\ VconnInv => VersionsAgree
  <2> SUFFICES ASSUME VconnTypeOK, VconnInv, \A e \in Ends : state[e] = "CONNECTED"
               PROVE  /\ version["active"] = version["passive"]
                      /\ \A e \in Ends : version[e] \in build[e].min_version .. build[e].OFP_VERSION
    BY DEF VersionsAgree
  <2>1. \A e \in Ends : /\ build[e].OFP_VERSION \in Nat /\ build[e].min_version \in Nat
                        /\ Peer(e) \in Ends /\ Peer(Peer(e)) = e
    BY Peers DEF VconnTypeOK, Build
  <2>2. \A e \in Ends : /\ version[e] = Least(build[e].OFP_VERSION, build[Peer(e)].OFP_VERSION)
                        /\ version[e] >= build[e].min_version
    BY <2>1 DEF VconnInv, StreamInv
  <2>3. version["active"] = version["passive"]
    BY <2>1, <2>2 DEF Ends, Peer, Least
  <2>4. \A e \in Ends : version[e] \in build[e].min_version .. build[e].OFP_VERSION
    BY <2>1, <2>2 DEF Least
  <2> QED BY <2>3, <2>4
<1>2. VconnTypeOK /\ VconnInv /\ [Next]_vars => VconnTypeOK' /\ VconnInv'
  BY VconnStep
<1> QED BY <1>1, <1>2, VconnStart, PTL DEF Spec

==============================================================================
