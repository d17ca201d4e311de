-------------------------- MODULE FlowTableProofs --------------------------
(***************************************************************************)
(* The chain of flow tables finds the flow of the highest priority, says   *)
(* which flows it loses, keeps flows apart that were added with            *)
(* CHECK_OVERLAP, and implements one set of entries, for tables and        *)
(* controllers of any size.                                                *)
(*                                                                         *)
(* The invariant is about the places of the flows: a bucket holds an exact *)
(* flow of its own hash, a linear table is ordered by priority and has no  *)
(* entry twice.                                                            *)
(***************************************************************************)
EXTENDS FlowTableRefinement, NaturalsInduction, FiniteSetTheorems, TLAPS

-----------------------------------------------------------------------------
(* Lists.                                                                   *)
LEMMA LeastNatural ==
  ASSUME NEW S \in SUBSET Nat, S # {}
  PROVE  \E m \in S : \A n \in S : m <= n
<1>1. IsWellFoundedOn(OpToRel(<, Nat), Nat)
  BY NatLessThanWellFounded
<1>2. PICK m \in S : \A n \in S : ~(<<n, m>> \in OpToRel(<, Nat))
  BY <1>1, WFMin
<1>3. \A x, y \in Nat : <<y, x>> \in OpToRel(<, Nat) <=> y < x
  BY DEF OpToRel
<1>4. \A n \in S : ~(n < m)
  BY <1>2, <1>3
<1> QED BY <1>4

(* Sets of places are finite.                                               *)
LEMMA PlacesFinite ==
  ASSUME NEW n \in Nat, NEW K \in SUBSET (1 .. n)
  PROVE  IsFiniteSet(K) /\ Cardinality(K) \in Nat
<1>1. 1 \in Int /\ n \in Int
  OBVIOUS
<1>2. IsFiniteSet(1 .. n)
  BY <1>1, FS_Interval
<1>3. IsFiniteSet(K)
  BY <1>2, FS_Subset
<1> QED BY <1>3, FS_CardinalityType

(* e lists the members of K in their order.                                 *)
Lists(e, K) ==
  /\ e \in [1 .. Cardinality(K) -> K]
  /\ \A i, j \in 1 .. Cardinality(K) : i < j => e[i] < e[j]

(* Every set of places has such a list: of the sets below a bound, the      *)
(* smallest bound without one is none.                                      *)
LEMMA ListExists ==
  ASSUME NEW n \in Nat, NEW K \in SUBSET (1 .. n)
  PROVE  \E e : Lists(e, K)
<1> DEFINE Bad == {m \in Nat : \E J \in SUBSET (1 .. m) : ~ \E e : Lists(e, J)}
<1>1. SUFFICES Bad = {}
  OBVIOUS
<1>2. SUFFICES ASSUME Bad # {} PROVE FALSE
  OBVIOUS
<1>3. PICK m \in Bad : \A k \in Bad : m <= k
  <2>1. Bad \in SUBSET Nat
    OBVIOUS
  <2> HIDE DEF Bad
  <2> QED BY <2>1, <1>2, LeastNatural
<1>4. PICK J \in SUBSET (1 .. m) : ~ \E e : Lists(e, J)
  BY <1>3
<1>5. m \in Nat /\ IsFiniteSet(J) /\ Cardinality(J) \in Nat
  <2>1. m \in Nat
    BY <1>3
  <2> HIDE DEF Bad
  <2> QED BY <2>1, PlacesFinite
<1>6. m # 0
  <2>1. SUFFICES ASSUME m = 0 PROVE FALSE
    OBVIOUS
  <2>2. J = {} /\ Cardinality(J) = 0
    <3>1. J = {}
      BY <2>1
    <3> QED BY <3>1, FS_EmptySet
  <2>3. Lists([i \in 1 .. 0 |-> 0], J)
    BY <2>2 DEF Lists
  <2> QED BY <2>3, <1>4
<1> DEFINE I == J \ {m}
<1>7. m - 1 \in Nat /\ m - 1 \notin Bad
  <2>1. m - 1 \in Nat /\ ~(m <= m - 1)
    BY <1>5, <1>6
  <2> HIDE DEF Bad
  <2> QED BY <2>1, <1>3
<1>8. PICK e : Lists(e, I)
  <2>1. I \in SUBSET (1 .. (m - 1))
    BY <1>5
  <2> QED BY <2>1, <1>7
<1>9. m \in J
  <2>1. m \notin J => I = J
    OBVIOUS
  <2> QED BY <2>1, <1>4, <1>8
<1>10. Cardinality(I) = Cardinality(J) - 1 /\ Cardinality(J) >= 1
  <2>1. Cardinality(I) = Cardinality(J) - 1
    BY <1>5, <1>9, FS_RemoveElement
  <2>2. IsFiniteSet(I) /\ Cardinality(I) \in Nat
    BY <1>5, FS_RemoveElement, FS_CardinalityType
  <2> QED BY <2>1, <2>2, <1>5
<1> DEFINE c == Cardinality(J)
           g == [i \in 1 .. c |-> IF i = c THEN m ELSE e[i]]
<1>11. \A i \in 1 .. c : i # c => i \in 1 .. Cardinality(I) /\ e[i] \in I
  <2>1. ASSUME NEW i \in 1 .. c, i # c PROVE i \in 1 .. Cardinality(I)
    <3> HIDE DEF I
    <3> QED BY <2>1, <1>10, <1>5
  <2>2. \A i \in 1 .. Cardinality(I) : e[i] \in I
    <3> HIDE DEF I
    <3> QED BY <1>8 DEF Lists
  <2> HIDE DEF I, c
  <2> QED BY <2>1, <2>2
<1>12. g \in [1 .. c -> J]
  BY <1>11, <1>9
<1>13. ASSUME NEW i \in 1 .. c, NEW j \in 1 .. c, i < j PROVE g[i] < g[j]
  <2>1. i # c
    BY <1>13, <1>5
  <2>2. i \in 1 .. Cardinality(I) /\ e[i] \in I
    BY <1>11, <2>1
  <2>3. CASE j = c
    <3>1. e[i] \in 1 .. m /\ e[i] # m
      BY <2>2
    <3>2. g[i] = e[i] /\ g[j] = m
      BY <2>1, <2>3
    <3> HIDE DEF g
    <3> QED BY <3>1, <3>2, <1>5
  <2>4. CASE j # c
    <3>1. j \in 1 .. Cardinality(I)
      BY <1>11, <2>4
    <3>2. e[i] < e[j]
      BY <2>2, <3>1, <1>13, <1>8 DEF Lists
    <3> QED BY <3>2, <2>1, <2>4
  <2> QED BY <2>3, <2>4
<1>14. Lists(g, J)
  BY <1>12, <1>13 DEF Lists
<1> QED BY <1>14, <1>4

(* And the list has every member.                                           *)
LEMMA IncreasingFacts ==
  ASSUME NEW n \in Nat, NEW K \in SUBSET (1 .. n)
  PROVE  /\ Cardinality(K) \in Nat /\ IsFiniteSet(K)
         /\ Lists(Increasing(K), K)
         /\ \A x \in K : \E i \in 1 .. Cardinality(K) : Increasing(K)[i] = x
<1> DEFINE e == Increasing(K)
           D == 1 .. Cardinality(K)
<1>1. IsFiniteSet(K) /\ Cardinality(K) \in Nat
  BY PlacesFinite
<1>2. Lists(e, K)
  <2>1. \E f \in [1 .. Cardinality(K) -> K] :
          \A i, j \in 1 .. Cardinality(K) : i < j => f[i] < f[j]
    BY ListExists DEF Lists
  <2> QED BY <2>1 DEF Increasing, Lists
<1>3. \A i, j \in D : e[i] = e[j] => i = j
  <2> SUFFICES ASSUME NEW i \in D, NEW j \in D, e[i] = e[j], i # j PROVE FALSE
    OBVIOUS
  <2>1. i < j \/ j < i
    BY <1>1
  <2>2. e[i] \in 1 .. n /\ e[j] \in 1 .. n
    BY <1>2 DEF Lists
  <2>3. e[i] < e[j] \/ e[j] < e[i]
    BY <2>1, <1>2 DEF Lists
  <2> QED BY <2>2, <2>3
<1>4. e \in Injection(D, K)
  <2>1. e \in [D -> K]
    BY <1>2 DEF Lists
  <2> HIDE DEF e, D
  <2> QED BY <2>1, <1>3 DEF Injection, IsInjective
<1>5. IsFiniteSet(D) /\ Cardinality(D) = Cardinality(K)
  <2>1. Cardinality(K) \in Int /\ 1 \in Int
    BY <1>1
  <2>2. /\ IsFiniteSet(1 .. Cardinality(K))
        /\ Cardinality(1 .. Cardinality(K))
             = IF 1 > Cardinality(K) THEN 0 ELSE Cardinality(K) - 1 + 1
    BY <2>1, FS_Interval
  <2> QED BY <2>2, <1>1
<1>6. e \in Surjection(D, K)
  <2> HIDE DEF e, D
  <2> QED BY <1>4, <1>5, <1>1, FS_Injection
<1>7. \A x \in K : \E i \in D : e[i] = x
  <2> HIDE DEF e, D
  <2> QED BY <1>6 DEF Surjection
<1> QED BY <1>1, <1>2, <1>7

(* What Without leaves: the members that are not gone, in their order.      *)
Kept(s, gone) == {i \in 1 .. Len(s) : s[i] \notin gone}

(* The list t is made of the places K of the list s.                        *)
Picked(t, s, K) ==
  \E e \in [1 .. Len(t) -> K] :
    /\ \A i, j \in 1 .. Len(t) : i < j => e[i] < e[j]
    /\ \A i \in 1 .. Len(t) : t[i] = s[e[i]]
    /\ \A x \in K : \E i \in 1 .. Len(t) : e[i] = x

LEMMA WithoutFacts ==
  ASSUME NEW S, NEW s \in Seq(S), NEW gone
  PROVE  /\ Without(s, gone) \in Seq(S)
         /\ Len(Without(s, gone)) = Cardinality(Kept(s, gone))
         /\ Picked(Without(s, gone), s, Kept(s, gone))
<1> DEFINE K == Kept(s, gone)
           e == Increasing(K)
           t == Without(s, gone)
<1>1. Len(s) \in Nat /\ K \in SUBSET (1 .. Len(s))
  BY DEF Kept
<1>2. /\ Cardinality(K) \in Nat
      /\ Lists(e, K)
      /\ \A x \in K : \E i \in 1 .. Cardinality(K) : e[i] = x
  <2> HIDE DEF K
  <2> QED BY <1>1, IncreasingFacts
<1>3. e \in [1 .. Cardinality(K) -> K] /\ DOMAIN e = 1 .. Cardinality(K)
  BY <1>2 DEF Lists
<1>4. t = [k \in 1 .. Cardinality(K) |-> s[e[k]]]
  BY <1>3 DEF Without, Kept
<1>5. \A k \in K : s[k] \in S
  BY DEF Kept
<1>6. t \in [1 .. Cardinality(K) -> S]
  <2> HIDE DEF K, e, t
  <2> QED BY <1>3, <1>4, <1>5
<1>7. t \in Seq(S) /\ Len(t) = Cardinality(K)
  <2> HIDE DEF K, e, t
  <2> QED BY <1>2, <1>4, <1>6
<1>8. /\ \A i, j \in 1 .. Len(t) : i < j => e[i] < e[j]
      /\ \A i \in 1 .. Len(t) : t[i] = s[e[i]]
      /\ \A x \in K : \E i \in 1 .. Len(t) : e[i] = x
  <2> HIDE DEF K, e, t
  <2> QED BY <1>2, <1>4, <1>7 DEF Lists
<1>9. e \in [1 .. Len(t) -> K]
  BY <1>3, <1>7
<1>10. Picked(t, s, K)
  <2> HIDE DEF K, e, t
  <2> QED BY <1>8, <1>9 DEF Picked
<1> QED BY <1>7, <1>10
-----------------------------------------------------------------------------
(* Keys and flows.                                                          *)

(* Two headers that agree in every field are one.                           *)
LEMMA SameFields ==
  ASSUME NEW a \in Header, NEW b \in Header, flow_fields_match(a, b, {})
  PROVE  a = b
<1>1. \A f \in Fields : a[f] = b[f]
  BY DEF flow_fields_match
<1> QED BY <1>1 DEF Header

(* What flow_extract_match makes of a match, field by field.                *)
LEMMA ExtractType ==
  ASSUME NEW x \in Match
  PROVE  /\ flow_extract_match(x) \in Match
         /\ flow_extract_match(x) =
              [flow |-> flow_extract_match(x).flow,
               wildcards |-> flow_extract_match(x).wildcards]
<1> DEFINE f == x.flow
           w == x.wildcards
           l2 == [f EXCEPT !.nw_proto = 0, !.nw_src = 0, !.tp = 0]
           l3 == [f EXCEPT !.tp = 0]
<1>1. f \in Header /\ w \in SUBSET Fields
  BY DEF Match
<1>2. l2 \in Header /\ l3 \in Header
  BY <1>1 DEF Header, Fields
<1>3. /\ w \cup {"nw_proto", "nw_src", "tp"} \in SUBSET Fields
      /\ w \cup {"tp"} \in SUBSET Fields /\ w \ {"tp"} \in SUBSET Fields
  BY <1>1 DEF Fields
<1>4. \A g, v : g \in Header /\ v \in SUBSET Fields =>
                  [flow |-> g, wildcards |-> v] \in Match
  BY DEF Match
<1>5. \/ flow_extract_match(x) =
           [flow |-> l2, wildcards |-> w \cup {"nw_proto", "nw_src", "tp"}]
      \/ flow_extract_match(x) = [flow |-> l3, wildcards |-> w \cup {"tp"}]
      \/ flow_extract_match(x) = [flow |-> f, wildcards |-> w]
      \/ flow_extract_match(x) = [flow |-> l3, wildcards |-> w \ {"tp"}]
      \/ flow_extract_match(x) = [flow |-> l2, wildcards |-> w]
  BY DEF flow_extract_match
<1> HIDE DEF f, w, l2, l3
<1> QED BY <1>1, <1>2, <1>3, <1>4, <1>5

(* A key that is normalised stays as it is.                                 *)
LEMMA ExtractTwice ==
  ASSUME NEW x \in Match
  PROVE  flow_extract_match(flow_extract_match(x)) = flow_extract_match(x)
<1> DEFINE f == x.flow
           w == x.wildcards
           l2 == [f EXCEPT !.nw_proto = 0, !.nw_src = 0, !.tp = 0]
           l3 == [f EXCEPT !.tp = 0]
<1>1. f \in [Fields -> Nat]
  BY DEF Match, Header
<1>2. /\ l2 \in [Fields -> Nat] /\ l3 \in [Fields -> Nat]
      /\ l2["dl_type"] = f["dl_type"] /\ l3["dl_type"] = f["dl_type"]
      /\ l3["nw_proto"] = f["nw_proto"]
      /\ [l2 EXCEPT !.nw_proto = 0, !.nw_src = 0, !.tp = 0] = l2
      /\ [l3 EXCEPT !.tp = 0] = l3
  BY <1>1 DEF Fields
<1> HIDE DEF f, l2, l3
<1>3. CASE "dl_type" \in w
  <2>1. flow_extract_match(x) =
          [flow |-> l2, wildcards |-> w \cup {"nw_proto", "nw_src", "tp"}]
    BY <1>3 DEF flow_extract_match, f, l2
  <2> QED BY <2>1, <1>2, <1>3 DEF flow_extract_match
<1>4. CASE "dl_type" \notin w /\ f["dl_type"] = IP /\ "nw_proto" \in w
  <2>1. flow_extract_match(x) = [flow |-> l3, wildcards |-> w \cup {"tp"}]
    BY <1>4 DEF flow_extract_match, f, l3
  <2> QED BY <2>1, <1>2, <1>4 DEF flow_extract_match
<1>5. CASE /\ "dl_type" \notin w /\ f["dl_type"] = IP /\ "nw_proto" \notin w
           /\ f["nw_proto"] = TCP
  <2>1. flow_extract_match(x) = [flow |-> f, wildcards |-> w]
    BY <1>5 DEF flow_extract_match, f
  <2> QED BY <2>1, <1>2, <1>5 DEF flow_extract_match
<1>6. CASE \/ /\ "dl_type" \notin w /\ f["dl_type"] = IP /\ "nw_proto" \notin w
              /\ f["nw_proto"] # TCP
           \/ "dl_type" \notin w /\ f["dl_type"] # IP /\ f["dl_type"] = ARP
  <2>1. flow_extract_match(x) = [flow |-> l3, wildcards |-> w \ {"tp"}]
    BY <1>6 DEF flow_extract_match, f, l3
  <2> QED BY <2>1, <1>2, <1>6 DEF flow_extract_match
<1>7. CASE "dl_type" \notin w /\ f["dl_type"] # IP /\ f["dl_type"] # ARP
  <2>1. flow_extract_match(x) = [flow |-> l2, wildcards |-> w]
    BY <1>7 DEF flow_extract_match, f, l2
  <2> QED BY <2>1, <1>2, <1>7 DEF flow_extract_match
<1> QED BY <1>3, <1>4, <1>5, <1>6, <1>7

(* The flows that the tables hold.  An exact flow has the highest priority. *)
GoodFlow == {f \in SwFlow : f.key.wildcards = {} => f.priority = HIGHEST}

LEMMA KeyFacts ==
  ASSUME NEW k \in Keys
  PROVE  k \in Match /\ k.flow \in Header /\ flow_extract_match(k) = k
<1>1. PICK m \in UNION Controllers : k = flow_extract_match(m.match)
  BY DEF Keys
<1>2. m.match \in Match
  BY TableAssumption DEF OfpFlowMod
<1>3. k \in Match
  BY <1>1, <1>2, ExtractType
<1>4. flow_extract_match(k) = k
  BY <1>1, <1>2, ExtractTwice
<1> QED BY <1>3, <1>4 DEF Match

LEMMA PacketFacts ==
  ASSUME NEW p \in Packets
  PROVE  flow_extract(p) \in Header
<1>1. [flow |-> p, wildcards |-> {}] \in Match
  BY TableAssumption DEF Match
<1>2. flow_extract_match([flow |-> p, wildcards |-> {}]) \in Match
  BY <1>1, ExtractType
<1> QED BY <1>2 DEF flow_extract, Match

LEMMA HighestNat == HIGHEST \in Nat
BY DEF HIGHEST

LEMMA FlowFacts ==
  ASSUME NEW f \in GoodFlow
  PROVE  /\ f \in SwFlow /\ f # NoFlow
         /\ f.key \in Keys /\ f.key.flow \in Header
         /\ f.priority \in 0 .. HIGHEST /\ f.priority \in Nat
         /\ f.key.wildcards = {} => f.priority = HIGHEST
         /\ f.priority <= HIGHEST
<1>1. f \in SwFlow
  BY DEF GoodFlow
<1>2. f # NoFlow
  BY <1>1, HashAssumption
<1>3. f.key \in Keys /\ f.priority \in 0 .. HIGHEST
  BY <1>1 DEF SwFlow
<1>4. f.priority \in Nat /\ f.priority <= HIGHEST
  BY <1>3, HighestNat
<1>5. f.key.flow \in Header
  BY <1>3, KeyFacts
<1> QED BY <1>1, <1>2, <1>3, <1>4, <1>5 DEF GoodFlow

LEMMA NewFlowGood ==
  ASSUME NEW m \in UNION Controllers
  PROVE  /\ NewFlow(m) \in GoodFlow
         /\ NewFlow(m).key = flow_extract_match(m.match)
         /\ NewFlow(m).emerg_flow = Emerg(m)
         /\ NewFlow(m).actions = m.actions
<1>1. m \in OfpFlowMod
  BY TableAssumption
<1>2. flow_extract_match(m.match) \in Keys
  BY DEF Keys
<1>3. Priority(m, flow_extract_match(m.match)) \in 0 .. HIGHEST
  BY <1>1, HighestNat DEF Priority, OfpFlowMod
<1>4. NewFlow(m) \in SwFlow
  BY <1>1, <1>2, <1>3 DEF NewFlow, SwFlow, OfpFlowMod, Emerg
<1> QED BY <1>4 DEF NewFlow, GoodFlow, Priority

(* Flows that differ only in their age or their actions.                    *)
Alike(f, g) == /\ f.key = g.key /\ f.priority = g.priority
               /\ f.send_flow_rem = g.send_flow_rem
               /\ f.emerg_flow = g.emerg_flow

LEMMA ModifiedGood ==
  ASSUME NEW f \in GoodFlow, NEW a \in SUBSET Nat
  PROVE  [f EXCEPT !.actions = a] \in GoodFlow /\ Alike(f, [f EXCEPT !.actions = a])
BY DEF GoodFlow, SwFlow, Alike

LEMMA UsedGood ==
  ASSUME NEW f \in GoodFlow
  PROVE  [f EXCEPT !.idle_age = 0] \in GoodFlow /\ Alike(f, [f EXCEPT !.idle_age = 0])
BY DEF GoodFlow, SwFlow, Alike

LEMMA AgedGood ==
  ASSUME NEW f \in GoodFlow
  PROVE  Aged(f) \in GoodFlow /\ Alike(f, Aged(f))
<1>1. f \in SwFlow
  BY DEF GoodFlow
<1>2. Older(f.idle_age, f.idle_timeout) \in Nat /\ Older(f.age, f.hard_timeout) \in Nat
  BY <1>1 DEF SwFlow, Older
<1> QED BY <1>1, <1>2 DEF GoodFlow, SwFlow, Alike, Aged

(* SameEntry depends on key and priority only, and is an equivalence.       *)
LEMMA SameEntryReflexive ==
  ASSUME NEW f
  PROVE  SameEntry(f, f)
BY DEF SameEntry, flow_matches_2wild, flow_fields_match

LEMMA SameEntrySymmetric ==
  ASSUME NEW f, NEW g, SameEntry(f, g)
  PROVE  SameEntry(g, f)
BY DEF SameEntry, flow_matches_2wild, flow_fields_match

LEMMA SameEntryTransitive ==
  ASSUME NEW f, NEW g, NEW h, SameEntry(f, g), SameEntry(g, h)
  PROVE  SameEntry(f, h)
BY DEF SameEntry, flow_matches_2wild, flow_fields_match

LEMMA AlikeSameEntry ==
  ASSUME NEW f, NEW g, Alike(f, g)
  PROVE  /\ SameEntry(f, g) /\ Name(f) = Name(g)
         /\ \A h : SameEntry(f, h) <=> SameEntry(g, h)
         /\ \A h : SameEntry(h, f) <=> SameEntry(h, g)
BY DEF Alike, SameEntry, flow_matches_2wild, flow_fields_match, Name

(* Exact flows are one entry when their headers are the same.               *)
LEMMA ExactSameEntry ==
  ASSUME NEW f \in GoodFlow, NEW g \in GoodFlow,
         f.key.wildcards = {}, g.key.wildcards = {}
  PROVE  /\ SameEntry(f, g) <=> f.key.flow = g.key.flow
         /\ flow_matches_2wild(f.key, g.key) => f.key.flow = g.key.flow
<1>1. f.priority = HIGHEST /\ g.priority = HIGHEST
  BY DEF GoodFlow
<1>2. flow_matches_2wild(f.key, g.key) => f.key.flow = g.key.flow
  <2> SUFFICES ASSUME flow_matches_2wild(f.key, g.key)
               PROVE  f.key.flow = g.key.flow
    OBVIOUS
  <2>1. flow_fields_match(f.key.flow, g.key.flow, {})
    BY DEF flow_matches_2wild, flow_fields_match
  <2> QED BY <2>1, FlowFacts, SameFields
<1>3. f.key.flow = g.key.flow => flow_matches_2wild(f.key, g.key)
  BY DEF flow_matches_2wild, flow_fields_match
<1> QED BY <1>1, <1>2, <1>3 DEF SameEntry
-----------------------------------------------------------------------------
(* A linear table.                                                          *)

(* The flows are in the order of their priority, and no entry is twice.     *)
Ordered(s) ==
  \A i, j \in 1 .. Len(s) : i < j => /\ s[j].priority <= s[i].priority
                                     /\ ~SameEntry(s[i], s[j])

LinearTable == [flows : Seq(GoodFlow),
                iter_flows : Seq([key : Keys, priority : 0 .. HIGHEST]),
                n_flows : Nat]

LinearOK(tl, e) ==
  /\ tl \in LinearTable
  /\ tl.n_flows = Len(tl.flows)
  /\ Ordered(tl.flows)
  /\ \A k \in 1 .. Len(tl.iter_flows) :
       \E f \in LinearFlows(tl) : tl.iter_flows[k] = Name(f)
  /\ \A f \in LinearFlows(tl) : f.emerg_flow = e

LEMMA EmptyLinearOK ==
  ASSUME NEW e
  PROVE  LinearOK(EmptyLinear, e) /\ LinearFlows(EmptyLinear) = {}
<1>1. EmptyLinear \in LinearTable
  BY DEF EmptyLinear, LinearTable
<1>2. LinearFlows(EmptyLinear) = {}
  BY DEF LinearFlows, ToSet, EmptyLinear
<1> QED BY <1>1, <1>2 DEF LinearOK, Ordered, EmptyLinear

LEMMA InSet ==
  ASSUME NEW S, NEW s \in Seq(S)
  PROVE  /\ \A x : x \in ToSet(s) <=> \E i \in 1 .. Len(s) : s[i] = x
         /\ ToSet(s) \subseteq S
         /\ \A i \in 1 .. Len(s) : s[i] \in S
BY DEF ToSet

LEMMA LinearFacts ==
  ASSUME NEW tl, NEW e, LinearOK(tl, e)
  PROVE  /\ tl.flows \in Seq(GoodFlow) /\ Len(tl.flows) \in Nat
         /\ \A i \in 1 .. Len(tl.flows) : tl.flows[i] \in GoodFlow
         /\ LinearFlows(tl) \subseteq GoodFlow
         /\ \A x : x \in LinearFlows(tl) <=> \E i \in 1 .. Len(tl.flows) : tl.flows[i] = x
         /\ Ordered(tl.flows)
         /\ tl.n_flows = Len(tl.flows)
<1>1. tl.flows \in Seq(GoodFlow)
  BY DEF LinearOK, LinearTable
<1> QED BY <1>1, InSet DEF LinearFlows, LinearOK

LEMMA NameType ==
  ASSUME NEW f \in GoodFlow
  PROVE  Name(f) \in [key : Keys, priority : 0 .. HIGHEST]
BY FlowFacts DEF Name

LEMMA InsertAtFacts ==
  ASSUME NEW S, NEW s \in Seq(S), NEW i \in 1 .. Len(s) + 1, NEW e \in S
  PROVE  /\ InsertAt(s, i, e) \in Seq(S)
         /\ Len(InsertAt(s, i, e)) = Len(s) + 1
         /\ \A k \in 1 .. Len(s) + 1 :
              InsertAt(s, i, e)[k] = IF k < i THEN s[k]
                                     ELSE IF k = i THEN e ELSE s[k - 1]
<1> DEFINE a == SubSeq(s, 1, i - 1)
           b == SubSeq(s, i, Len(s))
<1>1. Len(s) \in Nat /\ i \in Nat /\ i >= 1 /\ i <= Len(s) + 1
  OBVIOUS
<1>2. /\ a \in Seq(S) /\ Len(a) = i - 1
      /\ \A k \in 1 .. (i - 1) : a[k] = s[k]
  BY <1>1
<1>3. /\ b \in Seq(S) /\ Len(b) = Len(s) - i + 1
      /\ \A k \in 1 .. (Len(s) - i + 1) : b[k] = s[i + k - 1]
  BY <1>1
<1> HIDE DEF a, b
<1> DEFINE c == a \o <<e>>
<1>4. /\ c \in Seq(S) /\ Len(c) = i
      /\ \A k \in 1 .. (i - 1) : c[k] = s[k]
      /\ c[i] = e
  BY <1>1, <1>2
<1> HIDE DEF c
<1>5. InsertAt(s, i, e) = c \o b
  BY DEF InsertAt, a, b, c
<1>6. c \o b \in Seq(S) /\ Len(c \o b) = Len(s) + 1
  BY <1>1, <1>3, <1>4
<1>7. ASSUME NEW k \in 1 .. Len(s) + 1
      PROVE  (c \o b)[k] = IF k < i THEN s[k] ELSE IF k = i THEN e ELSE s[k - 1]
  <2>1. CASE k <= i
    BY <2>1, <1>1, <1>3, <1>4
  <2>2. CASE k > i
    <3>1. (c \o b)[k] = b[k - i]
      BY <2>2, <1>1, <1>3, <1>4
    <3>2. k - i \in 1 .. (Len(s) - i + 1)
      BY <2>2, <1>1
    <3>3. b[k - i] = s[i + (k - i) - 1]
      BY <3>2, <1>3
    <3>4. i + (k - i) - 1 = k - 1
      BY <1>1
    <3> QED BY <3>1, <3>3, <3>4, <2>2, <1>1
  <2>3. k <= i \/ k > i
    BY <1>1
  <2> QED BY <2>1, <2>2, <2>3
<1> QED BY <1>5, <1>6, <1>7

(* The search of table_linear_insert ends.                                  *)
LEMMA InsertionPointFacts ==
  ASSUME NEW tl, NEW e, LinearOK(tl, e), NEW f \in GoodFlow
  PROVE  LET i == InsertionPoint(tl, f)
         IN  /\ i \in 1 .. Len(tl.flows) + 1
             /\ \A j \in 1 .. i - 1 : ~SameEntry(tl.flows[j], f)
                                      /\ tl.flows[j].priority >= f.priority
             /\ i <= Len(tl.flows) => \/ SameEntry(tl.flows[i], f)
                                      \/ tl.flows[i].priority < f.priority
<1> DEFINE s == tl.flows
           n == Len(s)
           Stops(i) == i <= n => SameEntry(s[i], f) \/ s[i].priority < f.priority
           S == {i \in 1 .. n + 1 : Stops(i)}
<1>1. n \in Nat /\ \A i \in 1 .. n : s[i].priority \in Nat
  BY LinearFacts, FlowFacts
<1>2. f.priority \in Nat
  BY FlowFacts
<1>3. S \in SUBSET Nat /\ n + 1 \in S
  BY <1>1
<1>4. PICK m \in S : \A k \in S : m <= k
  <2> HIDE DEF S
  <2> QED BY <1>3, LeastNatural
<1>5. m \in 1 .. n + 1 /\ Stops(m)
  BY <1>4
<1>6. ASSUME NEW j \in 1 .. m - 1
      PROVE  ~SameEntry(s[j], f) /\ s[j].priority >= f.priority
  <2>1. j \in 1 .. n /\ ~(m <= j)
    BY <1>5, <1>1
  <2>2. j \notin S
    <3> HIDE DEF S
    <3> QED BY <2>1, <1>4
  <2>3. ~Stops(j)
    BY <2>1, <2>2, <1>1
  <2> QED BY <2>1, <2>3, <1>1, <1>2
<1> QED BY <1>5, <1>6 DEF InsertionPoint

(* A table whose flows are the same entries as before.                      *)
LEMMA LinearAlike ==
  ASSUME NEW tl, NEW e, LinearOK(tl, e), NEW t \in Seq(GoodFlow),
         Len(t) = Len(tl.flows),
         \A i \in 1 .. Len(t) : Alike(tl.flows[i], t[i])
  PROVE  LinearOK([tl EXCEPT !.flows = t], e)
<1> DEFINE new == [tl EXCEPT !.flows = t]
           s == tl.flows
<1>1. tl \in LinearTable
  BY DEF LinearOK
<1>2. /\ new.flows = t /\ new.iter_flows = tl.iter_flows
      /\ new.n_flows = tl.n_flows /\ new \in LinearTable
  BY <1>1 DEF LinearTable
<1>3. \A x : x \in LinearFlows(new) <=> \E i \in 1 .. Len(t) : t[i] = x
  BY <1>2, InSet DEF LinearFlows
<1>4. \A i \in 1 .. Len(t) : /\ t[i].priority = s[i].priority
                             /\ Name(s[i]) = Name(t[i])
                             /\ s[i].emerg_flow = t[i].emerg_flow
  BY AlikeSameEntry DEF Alike
<1>5. Ordered(t)
  <2> SUFFICES ASSUME NEW i \in 1 .. Len(t), NEW j \in 1 .. Len(t), i < j
               PROVE  t[j].priority <= t[i].priority /\ ~SameEntry(t[i], t[j])
    BY DEF Ordered
  <2>1. s[j].priority <= s[i].priority /\ ~SameEntry(s[i], s[j])
    BY DEF LinearOK, Ordered
  <2>2. ~SameEntry(s[i], t[j])
    BY <2>1, AlikeSameEntry
  <2>3. ~SameEntry(t[i], t[j])
    BY <2>2, AlikeSameEntry
  <2> QED BY <2>1, <2>3, <1>4
<1> HIDE DEF new
<1>6. ASSUME NEW k \in 1 .. Len(new.iter_flows)
      PROVE  \E f \in LinearFlows(new) : new.iter_flows[k] = Name(f)
  <2>1. PICK g \in LinearFlows(tl) : tl.iter_flows[k] = Name(g)
    BY <1>2 DEF LinearOK
  <2>2. PICK i \in 1 .. Len(s) : s[i] = g
    BY <2>1, LinearFacts
  <2>3. t[i] \in LinearFlows(new) /\ Name(t[i]) = Name(g)
    BY <2>2, <1>3, <1>4
  <2> QED BY <2>1, <2>3, <1>2
<1>7. ASSUME NEW f \in LinearFlows(new) PROVE f.emerg_flow = e
  <2>1. PICK i \in 1 .. Len(t) : t[i] = f
    BY <1>3
  <2>2. s[i] \in LinearFlows(tl)
    BY LinearFacts
  <2> QED BY <2>1, <2>2, <1>4 DEF LinearOK
<1>8. new.n_flows = Len(new.flows)
  BY <1>2 DEF LinearOK
<1> QED BY <1>2, <1>5, <1>6, <1>7, <1>8 DEF LinearOK, new

(* table_linear_insert: the flow takes the place of its entry, or a place   *)
(* of its own in the order.                                                 *)
LEMMA LinearReplace ==
  ASSUME NEW tl, NEW e, LinearOK(tl, e), NEW f \in GoodFlow, f.emerg_flow = e,
         Replaces(tl, f)
  PROVE  LET new == table_linear_insert(tl, f)
             i == InsertionPoint(tl, f)
         IN  /\ LinearOK(new, e)
             /\ i \in 1 .. Len(tl.flows) /\ SameEntry(tl.flows[i], f)
             /\ new.flows = [tl.flows EXCEPT ![i] = f]
             /\ LinearFlows(new) =
                  {g \in LinearFlows(tl) : ~SameEntry(g, f)} \cup {f}
<1> DEFINE i == InsertionPoint(tl, f)
           s == tl.flows
           t == [s EXCEPT ![i] = f]
           iter == [k \in DOMAIN tl.iter_flows |->
                      IF tl.iter_flows[k] = Name(s[i]) THEN Name(f)
                      ELSE tl.iter_flows[k]]
           new == table_linear_insert(tl, f)
<1>1. i \in 1 .. Len(s) + 1
  BY InsertionPointFacts
<1>2. Len(s) \in Nat /\ s \in Seq(GoodFlow) /\ Ordered(s)
  BY LinearFacts
<1>3. i \in 1 .. Len(s) /\ SameEntry(s[i], f)
  BY <1>1, <1>2 DEF Replaces
<1> HIDE DEF i
<1>4. tl \in LinearTable
  BY DEF LinearOK
<1>5. new = [tl EXCEPT !.flows = t, !.iter_flows = iter]
  BY <1>4 DEF table_linear_insert, ReplaceAt, i, LinearTable
<1>6. /\ t \in Seq(GoodFlow) /\ Len(t) = Len(s)
      /\ \A j \in 1 .. Len(s) : t[j] = IF j = i THEN f ELSE s[j]
  BY <1>2, <1>3
<1>7. /\ iter \in Seq([key : Keys, priority : 0 .. HIGHEST])
      /\ Len(iter) = Len(tl.iter_flows)
  <2>1. tl.iter_flows \in Seq([key : Keys, priority : 0 .. HIGHEST])
    BY <1>4 DEF LinearTable
  <2>2. Name(f) \in [key : Keys, priority : 0 .. HIGHEST]
    BY NameType
  <2> QED BY <2>1, <2>2
<1>8. /\ new \in LinearTable /\ new.flows = t /\ new.iter_flows = iter
      /\ new.n_flows = tl.n_flows
  <2> HIDE DEF t, iter, new
  <2> QED BY <1>4, <1>5, <1>6, <1>7 DEF LinearTable
<1>9. \A x : x \in LinearFlows(new) <=> \E j \in 1 .. Len(s) : t[j] = x
  <2> HIDE DEF t, iter, new
  <2> QED BY <1>8, <1>6, InSet DEF LinearFlows
<1>10. \A x : x \in LinearFlows(tl) <=> \E j \in 1 .. Len(s) : s[j] = x
  BY LinearFacts
<1>11. \A j \in 1 .. Len(s) : j # i => ~SameEntry(s[j], f) /\ ~SameEntry(f, s[j])
  <2> SUFFICES ASSUME NEW j \in 1 .. Len(s), j # i,
                      SameEntry(s[j], f) \/ SameEntry(f, s[j])
               PROVE  FALSE
    OBVIOUS
  <2>1. SameEntry(s[j], f)
    BY SameEntrySymmetric
  <2>2. SameEntry(f, s[i])
    BY <1>3, SameEntrySymmetric
  <2>3. SameEntry(s[j], s[i]) /\ SameEntry(s[i], s[j])
    BY <2>1, <2>2, SameEntryTransitive, SameEntrySymmetric
  <2>4. i < j \/ j < i
    BY <1>3, <1>2
  <2> QED BY <2>3, <2>4, <1>2, <1>3 DEF Ordered
<1>12. Ordered(t)
  <2> SUFFICES ASSUME NEW j \in 1 .. Len(s), NEW k \in 1 .. Len(s), j < k
               PROVE  t[k].priority <= t[j].priority /\ ~SameEntry(t[j], t[k])
    BY <1>6 DEF Ordered
  <2>1. s[k].priority <= s[j].priority /\ ~SameEntry(s[j], s[k])
    BY <1>2 DEF Ordered
  <2>2. s[i].priority = f.priority
    BY <1>3 DEF SameEntry
  <2>3. CASE j = i
    <3>1. k # i /\ t[j] = f /\ t[k] = s[k]
      BY <2>3, <1>6, <1>2
    <3> QED BY <3>1, <2>1, <2>2, <2>3, <1>11
  <2>4. CASE k = i
    <3>1. j # i /\ t[k] = f /\ t[j] = s[j]
      BY <2>4, <1>6, <1>2
    <3> QED BY <3>1, <2>1, <2>2, <2>4, <1>11
  <2>5. CASE j # i /\ k # i
    BY <2>5, <2>1, <1>6
  <2> QED BY <2>3, <2>4, <2>5
<1> HIDE DEF t
<1>13. LinearFlows(new) = {g \in LinearFlows(tl) : ~SameEntry(g, f)} \cup {f}
  <2>1. ASSUME NEW x \in LinearFlows(new)
        PROVE  x \in {g \in LinearFlows(tl) : ~SameEntry(g, f)} \cup {f}
    <3>1. PICK j \in 1 .. Len(s) : t[j] = x
      BY <1>9
    <3> QED BY <3>1, <1>6, <1>10, <1>11
  <2>2. ASSUME NEW x \in {g \in LinearFlows(tl) : ~SameEntry(g, f)}
        PROVE  x \in LinearFlows(new)
    <3>1. PICK j \in 1 .. Len(s) : s[j] = x
      BY <1>10
    <3>2. j # i
      BY <3>1, <1>3
    <3> QED BY <3>1, <3>2, <1>6, <1>9
  <2>3. f \in LinearFlows(new)
    BY <1>3, <1>6, <1>9
  <2> QED BY <2>1, <2>2, <2>3
<1>14. ASSUME NEW k \in 1 .. Len(iter)
       PROVE  \E g \in LinearFlows(new) : iter[k] = Name(g)
  <2>1. PICK g \in LinearFlows(tl) : tl.iter_flows[k] = Name(g)
    BY <1>7 DEF LinearOK
  <2>2. PICK j \in 1 .. Len(s) : s[j] = g
    BY <2>1, <1>10
  <2>3. CASE Name(g) = Name(s[i])
    BY <2>1, <2>3, <1>7, <1>13
  <2>4. CASE Name(g) # Name(s[i])
    <3>1. j # i
      BY <2>2, <2>4
    <3>2. g \in LinearFlows(new)
      BY <3>1, <2>2, <1>6, <1>9
    <3> QED BY <2>1, <2>4, <3>2, <1>7
  <2> QED BY <2>3, <2>4
<1>15. \A g \in LinearFlows(new) : g.emerg_flow = e
  <2> HIDE DEF new
  <2> QED BY <1>13 DEF LinearOK
<1>16. new.n_flows = Len(new.flows)
  <2> HIDE DEF new
  <2> QED BY <1>8, <1>6 DEF LinearOK
<1>17. LinearOK(new, e)
  <2> HIDE DEF new, iter
  <2> QED BY <1>8, <1>12, <1>14, <1>15, <1>16 DEF LinearOK
<1> QED BY <1>3, <1>8, <1>13, <1>17 DEF i, t

(* The table new is tl with f at place i.                                   *)
OneMore(new, tl, i, f) ==
  /\ i \in 1 .. Len(tl.flows) + 1
  /\ Len(new.flows) = Len(tl.flows) + 1
  /\ \A k \in 1 .. Len(tl.flows) + 1 :
       new.flows[k] = IF k < i THEN tl.flows[k]
                      ELSE IF k = i THEN f ELSE tl.flows[k - 1]

LEMMA LinearAppend ==
  ASSUME NEW tl, NEW e, LinearOK(tl, e), NEW f \in GoodFlow, f.emerg_flow = e,
         ~Replaces(tl, f)
  PROVE  LET new == table_linear_insert(tl, f)
         IN  /\ LinearOK(new, e)
             /\ OneMore(new, tl, InsertionPoint(tl, f), f)
             /\ \A g \in LinearFlows(tl) : ~SameEntry(g, f)
             /\ LinearFlows(new) = LinearFlows(tl) \cup {f}
<1> DEFINE i == InsertionPoint(tl, f)
           s == tl.flows
           t == InsertAt(s, i, f)
           iter == <<Name(f)>> \o tl.iter_flows
           new == table_linear_insert(tl, f)
<1>1. /\ i \in 1 .. Len(s) + 1
      /\ \A j \in 1 .. i - 1 : ~SameEntry(s[j], f) /\ s[j].priority >= f.priority
      /\ i <= Len(s) => SameEntry(s[i], f) \/ s[i].priority < f.priority
  BY InsertionPointFacts
<1>2. Len(s) \in Nat /\ s \in Seq(GoodFlow) /\ Ordered(s)
  BY LinearFacts
<1>3. i <= Len(s) => s[i].priority < f.priority
  BY <1>1 DEF Replaces
<1>4. new = [flows |-> t, iter_flows |-> iter, n_flows |-> tl.n_flows + 1]
  BY DEF table_linear_insert
<1> HIDE DEF i
<1>5. /\ t \in Seq(GoodFlow) /\ Len(t) = Len(s) + 1
      /\ \A k \in 1 .. Len(s) + 1 :
           t[k] = IF k < i THEN s[k] ELSE IF k = i THEN f ELSE s[k - 1]
  <2>1. i \in 1 .. Len(s) + 1 /\ s \in Seq(GoodFlow) /\ f \in GoodFlow
    BY <1>1, <1>2
  <2> HIDE DEF s
  <2> QED BY ONLY <2>1, InsertAtFacts DEF t
<1> HIDE DEF t, new
<1>6. tl \in LinearTable /\ tl.iter_flows \in Seq([key : Keys, priority : 0 .. HIGHEST])
  BY DEF LinearOK, LinearTable
<1>7. /\ iter \in Seq([key : Keys, priority : 0 .. HIGHEST])
      /\ Len(iter) = Len(tl.iter_flows) + 1
      /\ iter[1] = Name(f)
      /\ \A k \in 1 .. Len(iter) : k # 1 =>
           k - 1 \in 1 .. Len(tl.iter_flows) /\ iter[k] = tl.iter_flows[k - 1]
  BY <1>6, NameType
<1> HIDE DEF iter
<1>8. new \in LinearTable /\ new.flows = t /\ new.iter_flows = iter
  BY <1>4, <1>5, <1>6, <1>7 DEF LinearTable
<1>9. new.n_flows = Len(t)
  BY <1>4, <1>5 DEF LinearOK
<1>10. \A j \in 1 .. Len(s) : s[j].priority \in Nat
  BY LinearFacts, FlowFacts
<1>11. f.priority \in Nat
  BY FlowFacts
<1>12. \A j \in 1 .. Len(s) : j >= i => s[j].priority < f.priority
  <2> SUFFICES ASSUME NEW j \in 1 .. Len(s), j >= i
               PROVE  s[j].priority < f.priority
    OBVIOUS
  <2>1. i \in 1 .. Len(s)
    BY <1>1, <1>2
  <2>2. s[i].priority < f.priority
    BY <2>1, <1>3
  <2>3. j = i \/ s[j].priority <= s[i].priority
    BY <2>1, <1>2 DEF Ordered
  <2> QED BY <2>1, <2>2, <2>3, <1>10, <1>11
<1>13. \A j \in 1 .. Len(s) : ~SameEntry(s[j], f) /\ ~SameEntry(f, s[j])
  <2> SUFFICES ASSUME NEW j \in 1 .. Len(s), SameEntry(s[j], f) \/ SameEntry(f, s[j])
               PROVE  FALSE
    OBVIOUS
  <2>1. SameEntry(s[j], f)
    BY SameEntrySymmetric
  <2>2. s[j].priority = f.priority
    BY <2>1 DEF SameEntry
  <2>3. j < i
    BY <2>2, <1>12, <1>10, <1>11, <1>1, <1>2
  <2> QED BY <2>1, <2>3, <1>1
<1>14. ASSUME NEW j \in 1 .. Len(t), NEW k \in 1 .. Len(t), j < k
       PROVE  t[k].priority <= t[j].priority /\ ~SameEntry(t[j], t[k])
  <2>1. CASE j # i /\ k # i
    <3> DEFINE a == IF j < i THEN j ELSE j - 1
               b == IF k < i THEN k ELSE k - 1
    <3>1. a \in 1 .. Len(s) /\ b \in 1 .. Len(s) /\ a < b
      BY <2>1, <1>1, <1>2, <1>5, <1>14
    <3>2. t[j] = s[a] /\ t[k] = s[b]
      BY <2>1, <1>5
    <3> HIDE DEF a, b
    <3> QED BY <3>1, <3>2, <1>2 DEF Ordered
  <2>2. CASE j = i
    <3>1. t[j] = f /\ t[k] = s[k - 1] /\ k - 1 \in 1 .. Len(s) /\ k - 1 >= i
      <4>1. k > i /\ k \in 1 .. Len(s) + 1 /\ j \in 1 .. Len(s) + 1
        BY <2>2, <1>5, <1>14
      <4>2. k - 1 \in 1 .. Len(s) /\ k - 1 >= i /\ ~(k < i) /\ k # i /\ ~(j < i)
        BY <4>1, <2>2, <1>1, <1>2
      <4> HIDE DEF s
      <4> QED BY <4>1, <4>2, <2>2, <1>5
    <3> QED BY <3>1, <1>10, <1>11, <1>12, <1>13
  <2>3. CASE k = i
    <3>1. t[k] = f /\ t[j] = s[j] /\ j \in 1 .. Len(s) /\ j \in 1 .. i - 1
      BY <2>3, <1>1, <1>2, <1>5, <1>14
    <3> QED BY <3>1, <1>1, <1>10, <1>11, <1>13
  <2> QED BY <2>1, <2>2, <2>3
<1>15. \A x : x \in LinearFlows(new) <=> \E j \in 1 .. Len(t) : t[j] = x
  BY <1>5, <1>8, InSet DEF LinearFlows
<1>16. \A x : x \in LinearFlows(tl) <=> \E j \in 1 .. Len(s) : s[j] = x
  BY LinearFacts
<1>17. LinearFlows(new) = LinearFlows(tl) \cup {f}
  <2>1. ASSUME NEW x \in LinearFlows(new) PROVE x \in LinearFlows(tl) \cup {f}
    <3>1. PICK j \in 1 .. Len(t) : t[j] = x
      BY <1>15
    <3>2. CASE j = i
      BY <3>1, <3>2, <1>1, <1>5
    <3>3. CASE j < i
      <4>1. j \in 1 .. Len(s) /\ t[j] = s[j]
        BY <3>3, <1>1, <1>2, <1>5
      <4> QED BY <4>1, <3>1, <1>16
    <3>4. CASE j > i
      <4>1. j - 1 \in 1 .. Len(s) /\ t[j] = s[j - 1]
        BY <3>4, <1>1, <1>2, <1>5
      <4> QED BY <4>1, <3>1, <1>16
    <3>5. j = i \/ j < i \/ j > i
      BY <1>1, <1>5, <1>2
    <3> QED BY <3>2, <3>3, <3>4, <3>5
  <2>2. ASSUME NEW x \in LinearFlows(tl) PROVE x \in LinearFlows(new)
    <3>1. PICK j \in 1 .. Len(s) : s[j] = x
      BY <1>16
    <3>2. CASE j < i
      <4>1. j \in 1 .. Len(t) /\ t[j] = s[j]
        BY <3>2, <1>1, <1>2, <1>5
      <4> QED BY <4>1, <3>1, <1>15
    <3>3. CASE j >= i
      <4>1. j + 1 \in 1 .. Len(s) + 1 /\ j + 1 > i
        BY <3>3, <1>1, <1>2
      <4>2. t[j + 1] = s[(j + 1) - 1] /\ (j + 1) - 1 = j
        BY <4>1, <1>1, <1>2, <1>5
      <4> QED BY <4>1, <4>2, <3>1, <1>5, <1>15
    <3>4. j < i \/ j >= i
      BY <1>1, <1>2
    <3> QED BY <3>2, <3>3, <3>4
  <2>3. f \in LinearFlows(new)
    BY <1>1, <1>5, <1>15
  <2> QED BY <2>1, <2>2, <2>3
<1>18. ASSUME NEW k \in 1 .. Len(iter)
       PROVE  \E g \in LinearFlows(new) : iter[k] = Name(g)
  <2>1. CASE k = 1
    BY <2>1, <1>7, <1>17
  <2>2. CASE k # 1
    <3>1. k - 1 \in 1 .. Len(tl.iter_flows) /\ iter[k] = tl.iter_flows[k - 1]
      BY <2>2, <1>7
    <3>2. PICK g \in LinearFlows(tl) : tl.iter_flows[k - 1] = Name(g)
      BY <3>1 DEF LinearOK
    <3> QED BY <3>1, <3>2, <1>17
  <2> QED BY <2>1, <2>2
<1>19. \A g \in LinearFlows(new) : g.emerg_flow = e
  BY <1>17 DEF LinearOK
<1>20. LinearOK(new, e)
  BY <1>8, <1>9, <1>14, <1>18, <1>19 DEF LinearOK, Ordered
<1>21. OneMore(new, tl, i, f)
  BY <1>1, <1>5, <1>8 DEF OneMore
<1>22. \A g \in LinearFlows(tl) : ~SameEntry(g, f)
  BY <1>13, <1>16
<1> QED BY <1>17, <1>20, <1>21, <1>22 DEF i, new

(* Either way: what the table holds afterwards.                             *)
LEMMA LinearInsert ==
  ASSUME NEW tl, NEW e, LinearOK(tl, e), NEW f \in GoodFlow, f.emerg_flow = e
  PROVE  /\ LinearOK(table_linear_insert(tl, f), e)
         /\ LinearFlows(table_linear_insert(tl, f)) =
              {g \in LinearFlows(tl) : ~SameEntry(g, f)} \cup {f}
<1>1. CASE Replaces(tl, f)
  BY <1>1, LinearReplace
<1>2. CASE ~Replaces(tl, f)
  <2>1. /\ LinearOK(table_linear_insert(tl, f), e)
        /\ \A g \in LinearFlows(tl) : ~SameEntry(g, f)
        /\ LinearFlows(table_linear_insert(tl, f)) = LinearFlows(tl) \cup {f}
    BY <1>2, LinearAppend
  <2>2. {g \in LinearFlows(tl) : ~SameEntry(g, f)} = LinearFlows(tl)
    BY <2>1
  <2> QED BY <2>1, <2>2
<1> QED BY <1>1, <1>2

(* No flow is in two places.                                                *)
LEMMA LinearDistinct ==
  ASSUME NEW tl, NEW e, LinearOK(tl, e),
         NEW i \in 1 .. Len(tl.flows), NEW j \in 1 .. Len(tl.flows), i # j
  PROVE  ~SameEntry(tl.flows[i], tl.flows[j]) /\ tl.flows[i] # tl.flows[j]
<1>1. i < j \/ j < i
  BY LinearFacts
<1>2. ~SameEntry(tl.flows[i], tl.flows[j]) \/ ~SameEntry(tl.flows[j], tl.flows[i])
  BY <1>1, LinearFacts DEF Ordered
<1>3. ~SameEntry(tl.flows[i], tl.flows[j])
  BY <1>2, SameEntrySymmetric
<1> QED BY <1>3, SameEntryReflexive

(* As many flows leave as places.                                           *)
LEMMA LinearCount ==
  ASSUME NEW tl, NEW e, LinearOK(tl, e), NEW gone \in SUBSET LinearFlows(tl)
  PROVE  /\ IsFiniteSet(gone) /\ Cardinality(gone) \in Nat
         /\ Cardinality(Kept(tl.flows, gone)) = Len(tl.flows) - Cardinality(gone)
<1> DEFINE s == tl.flows
           n == Len(s)
           D == 1 .. n
           G == {i \in D : s[i] \in gone}
           K == Kept(s, gone)
           F == [i \in G |-> s[i]]
<1>1. n \in Nat /\ \A x : x \in LinearFlows(tl) <=> \E i \in D : s[i] = x
  BY LinearFacts
<1>2. F \in Surjection(G, gone)
  <2>1. F \in [G -> gone]
    OBVIOUS
  <2>2. ASSUME NEW x \in gone PROVE \E i \in G : F[i] = x
    <3>1. PICK i \in D : s[i] = x
      BY <1>1
    <3>2. i \in G /\ F[i] = x
      BY <3>1
    <3> HIDE DEF G, F
    <3> QED BY <3>2
  <2> HIDE DEF G, F
  <2> QED BY <2>1, <2>2 DEF Surjection
<1>3. F \in Injection(G, gone)
  <2>1. \A i, j \in G : F[i] = F[j] => i = j
    BY LinearDistinct
  <2> HIDE DEF G, F
  <2> QED BY <1>2, <2>1 DEF Injection, IsInjective, Surjection
<1>4. IsFiniteSet(G)
  <2>1. G \in SUBSET (1 .. n)
    OBVIOUS
  <2> HIDE DEF G, n
  <2> QED BY <2>1, <1>1, PlacesFinite
<1>5. IsFiniteSet(gone) /\ Cardinality(gone) = Cardinality(G)
  <2> HIDE DEF G, F
  <2> QED BY <1>2, <1>3, <1>4, FS_Surjection
<1>6. Cardinality(gone) \in Nat
  BY <1>5, FS_CardinalityType
<1>7. IsFiniteSet(D) /\ Cardinality(D) = n
  <2>1. n \in Int /\ 1 \in Int
    BY <1>1
  <2>2. IsFiniteSet(D) /\ Cardinality(D) = IF 1 > n THEN 0 ELSE n - 1 + 1
    <3> HIDE DEF n
    <3> QED BY <2>1, FS_Interval
  <2> QED BY <2>2, <1>1
<1>8. K = D \ G /\ D \cap G = G
  BY DEF Kept
<1>9. Cardinality(D \ G) = Cardinality(D) - Cardinality(D \cap G)
  <2> HIDE DEF D, G
  <2> QED BY <1>7, FS_Difference
<1>10. Cardinality(K) = n - Cardinality(gone)
  <2> HIDE DEF D, G, K
  <2> QED BY <1>5, <1>7, <1>8, <1>9
<1> QED BY <1>5, <1>6, <1>10

LEMMA LinearRemoveOK ==
  ASSUME NEW tl, NEW e, LinearOK(tl, e), NEW gone \in SUBSET LinearFlows(tl)
  PROVE  /\ LinearOK(LinearRemove(tl, gone), e)
         /\ LinearFlows(LinearRemove(tl, gone)) = LinearFlows(tl) \ gone
<1> DEFINE s == tl.flows
           t == Without(s, gone)
           K == Kept(s, gone)
           names == {Name(f) : f \in gone}
           q == tl.iter_flows
           r == Without(q, names)
           new == LinearRemove(tl, gone)
           N == [key : Keys, priority : 0 .. HIGHEST]
<1>1. s \in Seq(GoodFlow) /\ Len(s) \in Nat /\ Ordered(s) /\ tl.n_flows = Len(s)
  BY LinearFacts
<1>2. /\ t \in Seq(GoodFlow) /\ Len(t) = Cardinality(K)
      /\ Picked(t, s, K)
  <2>1. s \in Seq(GoodFlow)
    BY <1>1
  <2> HIDE DEF s
  <2> QED BY ONLY <2>1, WithoutFacts
<1>3. PICK x \in [1 .. Len(t) -> K] :
           /\ \A i, j \in 1 .. Len(t) : i < j => x[i] < x[j]
           /\ \A i \in 1 .. Len(t) : t[i] = s[x[i]]
           /\ \A k \in K : \E i \in 1 .. Len(t) : x[i] = k
  <2> HIDE DEF t, s, K
  <2> QED BY <1>2 DEF Picked
<1>4. q \in Seq(N) /\ Len(q) \in Nat
  BY DEF LinearOK, LinearTable
<1>5. /\ r \in Seq(N)
      /\ \A k \in 1 .. Len(r) : \E i \in 1 .. Len(q) : r[k] = q[i] /\ q[i] \notin names
  <2> DEFINE J == Kept(q, names)
  <2>1. r \in Seq(N) /\ Picked(r, q, J)
    <3>1. q \in Seq(N)
      BY <1>4
    <3> HIDE DEF q, names, N
    <3> QED BY ONLY <3>1, WithoutFacts
  <2>2. PICK y \in [1 .. Len(r) -> J] : \A i \in 1 .. Len(r) : r[i] = q[y[i]]
    <3> HIDE DEF r, q, J
    <3> QED BY <2>1 DEF Picked
  <2>3. \A k \in 1 .. Len(r) : y[k] \in 1 .. Len(q) /\ q[y[k]] \notin names
    <3>1. \A k \in 1 .. Len(r) : y[k] \in J
      BY <2>2
    <3> HIDE DEF q, r, names
    <3> QED BY <3>1 DEF Kept
  <2> HIDE DEF q, r, names, N, J
  <2> QED BY <2>1, <2>2, <2>3
<1>6. Len(t) = Len(s) - Cardinality(gone) /\ Cardinality(gone) \in Nat /\ Len(t) \in Nat
  <2>1. Len(t) \in Nat
    BY <1>2
  <2>2. /\ Cardinality(gone) \in Nat
        /\ Cardinality(K) = Len(s) - Cardinality(gone)
    BY LinearCount
  <2> HIDE DEF K
  <2> QED BY <2>1, <2>2, <1>2
<1>7. new = [flows |-> t, iter_flows |-> r, n_flows |-> tl.n_flows - Cardinality(gone)]
  BY DEF LinearRemove
<1> HIDE DEF t, r, new
<1>8. \A i \in 1 .. Len(t) : x[i] \in 1 .. Len(s) /\ s[x[i]] \notin gone
  <2>1. \A i \in 1 .. Len(t) : x[i] \in K
    OBVIOUS
  <2> QED BY <2>1 DEF Kept
<1>9. /\ new \in LinearTable /\ new.flows = t /\ new.iter_flows = r
      /\ new.n_flows = Len(t)
  <2> HIDE DEF s
  <2> QED BY <1>1, <1>2, <1>5, <1>6, <1>7 DEF LinearTable
<1>10. Ordered(t)
  <2> SUFFICES ASSUME NEW i \in 1 .. Len(t), NEW j \in 1 .. Len(t), i < j
               PROVE  t[j].priority <= t[i].priority /\ ~SameEntry(t[i], t[j])
    BY DEF Ordered
  <2>1. x[i] \in 1 .. Len(s) /\ x[j] \in 1 .. Len(s) /\ x[i] < x[j]
    BY <1>3, <1>8
  <2>2. t[i] = s[x[i]] /\ t[j] = s[x[j]]
    BY <1>3
  <2> QED BY <2>1, <2>2, <1>1 DEF Ordered
<1>11. \A z : z \in LinearFlows(new) <=> \E j \in 1 .. Len(t) : t[j] = z
  <2>1. t \in Seq(GoodFlow) /\ new.flows = t
    BY <1>2, <1>9
  <2> QED BY ONLY <2>1, InSet DEF LinearFlows
<1>12. \A z : z \in LinearFlows(tl) <=> \E j \in 1 .. Len(s) : s[j] = z
  BY LinearFacts
<1>13. LinearFlows(new) = LinearFlows(tl) \ gone
  <2>1. ASSUME NEW z \in LinearFlows(new) PROVE z \in LinearFlows(tl) \ gone
    <3>1. PICK j \in 1 .. Len(t) : t[j] = z
      BY <1>11
    <3>2. x[j] \in 1 .. Len(s) /\ z = s[x[j]] /\ z \notin gone
      BY <3>1, <1>3, <1>8
    <3> QED BY <3>2, <1>12
  <2>2. ASSUME NEW z \in LinearFlows(tl) \ gone PROVE z \in LinearFlows(new)
    <3>1. PICK k \in 1 .. Len(s) : s[k] = z
      BY <1>12
    <3>2. k \in K
      BY <3>1 DEF Kept
    <3>3. PICK i \in 1 .. Len(t) : x[i] = k
      BY <3>2, <1>3
    <3>4. t[i] = z
      BY <3>1, <3>3, <1>3
    <3> QED BY <3>4, <1>11
  <2> QED BY <2>1, <2>2
<1>14. ASSUME NEW k \in 1 .. Len(r)
       PROVE  \E f \in LinearFlows(new) : r[k] = Name(f)
  <2>1. PICK i \in 1 .. Len(q) : r[k] = q[i] /\ q[i] \notin names
    BY <1>5
  <2>2. PICK f \in LinearFlows(tl) : q[i] = Name(f)
    BY DEF LinearOK
  <2>3. f \notin gone
    BY <2>1, <2>2
  <2> QED BY <2>1, <2>2, <2>3, <1>13
<1>15. \A f \in LinearFlows(new) : f.emerg_flow = e
  BY <1>13 DEF LinearOK
<1>16. LinearOK(new, e)
  <2> HIDE DEF s, q
  <2> QED BY <1>9, <1>10, <1>14, <1>15 DEF LinearOK
<1> QED BY <1>13, <1>16 DEF new

(* MODIFY.                                                                  *)
Modified(d, actions, f) ==
  IF Selects(d, f) THEN [f EXCEPT !.actions = actions] ELSE f

LEMMA ModifiedFacts ==
  ASSUME NEW f \in GoodFlow, NEW d, NEW a \in SUBSET Nat
  PROVE  Modified(d, a, f) \in GoodFlow /\ Alike(f, Modified(d, a, f))
<1>1. Alike(f, f)
  BY DEF Alike
<1> QED BY <1>1, ModifiedGood DEF Modified

LEMMA LinearModifyOK ==
  ASSUME NEW tl, NEW e, LinearOK(tl, e), NEW d, NEW a \in SUBSET Nat
  PROVE  /\ LinearOK(LinearModify(tl, d, a), e)
         /\ Len(LinearModify(tl, d, a).flows) = Len(tl.flows)
         /\ \A i \in 1 .. Len(tl.flows) :
              LinearModify(tl, d, a).flows[i] = Modified(d, a, tl.flows[i])
         /\ LinearFlows(LinearModify(tl, d, a)) =
              {Modified(d, a, f) : f \in LinearFlows(tl)}
<1> DEFINE s == tl.flows
           t == [i \in 1 .. Len(s) |-> Modified(d, a, s[i])]
           new == LinearModify(tl, d, a)
<1>1. /\ s \in Seq(GoodFlow) /\ Len(s) \in Nat /\ DOMAIN s = 1 .. Len(s)
      /\ \A i \in 1 .. Len(s) : s[i] \in GoodFlow
      /\ \A z : z \in LinearFlows(tl) <=> \E j \in 1 .. Len(s) : s[j] = z
  BY LinearFacts
<1>2. tl \in LinearTable
  BY DEF LinearOK
<1>3. new = [tl EXCEPT !.flows = t]
  BY <1>1, <1>2 DEF LinearModify, Modified, LinearTable
<1>4. t \in Seq(GoodFlow) /\ Len(t) = Len(s)
  <2>1. \A i \in 1 .. Len(s) : Modified(d, a, s[i]) \in GoodFlow
    BY <1>1, ModifiedFacts
  <2> HIDE DEF s
  <2> QED BY <2>1, <1>1
<1>5. \A i \in 1 .. Len(s) : t[i] = Modified(d, a, s[i])
  OBVIOUS
<1>6. \A i \in 1 .. Len(s) : Alike(s[i], t[i])
  BY <1>1, <1>5, ModifiedFacts
<1> HIDE DEF t
<1>7. LinearOK([tl EXCEPT !.flows = t], e)
  BY <1>4, <1>6, LinearAlike
<1>8. new.flows = t
  BY <1>2, <1>3 DEF LinearTable
<1>9. \A z : z \in LinearFlows(new) <=> \E j \in 1 .. Len(t) : t[j] = z
  BY <1>8, <1>4, InSet DEF LinearFlows
<1> HIDE DEF new
<1>10. LinearFlows(new) = {Modified(d, a, f) : f \in LinearFlows(tl)}
  BY <1>1, <1>4, <1>5, <1>9
<1> QED BY <1>3, <1>4, <1>5, <1>7, <1>8, <1>10 DEF new

(* A packet.                                                                *)
LEMMA LinearUsedOK ==
  ASSUME NEW tl, NEW e, LinearOK(tl, e), NEW i \in 1 .. Len(tl.flows)
  PROVE  LET new == [tl EXCEPT !.flows[i].idle_age = 0]
             f == tl.flows[i]
             g == [f EXCEPT !.idle_age = 0]
         IN  /\ LinearOK(new, e)
             /\ Alike(f, g)
             /\ Len(new.flows) = Len(tl.flows)
             /\ \A j \in 1 .. Len(tl.flows) :
                  new.flows[j] = IF j = i THEN g ELSE tl.flows[j]
             /\ LinearFlows(new) = (LinearFlows(tl) \ {f}) \cup {g}
<1> DEFINE s == tl.flows
           f == s[i]
           g == [f EXCEPT !.idle_age = 0]
           t == [s EXCEPT ![i] = g]
           new == [tl EXCEPT !.flows[i].idle_age = 0]
<1>1. /\ s \in Seq(GoodFlow) /\ Len(s) \in Nat
      /\ \A j \in 1 .. Len(s) : s[j] \in GoodFlow
      /\ \A z : z \in LinearFlows(tl) <=> \E j \in 1 .. Len(s) : s[j] = z
  BY LinearFacts
<1>2. tl \in LinearTable
  BY DEF LinearOK
<1>3. g \in GoodFlow /\ Alike(f, g)
  BY <1>1, UsedGood
<1>4. new = [tl EXCEPT !.flows = t]
  BY <1>2 DEF LinearTable
<1> HIDE DEF g
<1>5. /\ t \in Seq(GoodFlow) /\ Len(t) = Len(s)
      /\ \A j \in 1 .. Len(s) : t[j] = IF j = i THEN g ELSE s[j]
  BY <1>1, <1>3
<1>6. \A j \in 1 .. Len(s) : Alike(s[j], t[j])
  <2>1. \A j \in 1 .. Len(s) : Alike(s[j], s[j])
    BY DEF Alike
  <2> QED BY <2>1, <1>3, <1>5
<1> HIDE DEF t
<1>7. LinearOK([tl EXCEPT !.flows = t], e)
  BY <1>5, <1>6, LinearAlike
<1>8. new.flows = t
  BY <1>2, <1>4 DEF LinearTable
<1>9. \A z : z \in LinearFlows(new) <=> \E j \in 1 .. Len(s) : t[j] = z
  BY <1>8, <1>5, InSet DEF LinearFlows
<1>10. \A j \in 1 .. Len(s) : j # i => s[j] # f
  BY LinearDistinct
<1> HIDE DEF new
<1>11. LinearFlows(new) = (LinearFlows(tl) \ {f}) \cup {g}
  BY <1>1, <1>5, <1>9, <1>10
<1> QED BY <1>3, <1>4, <1>5, <1>7, <1>8, <1>11 DEF new, g

(* The clock.                                                               *)
LEMMA LinearAgedOK ==
  ASSUME NEW tl, NEW e, LinearOK(tl, e)
  PROVE  LET new == [tl EXCEPT !.flows = [i \in DOMAIN @ |-> Aged(@[i])]]
         IN  /\ LinearOK(new, e)
             /\ Len(new.flows) = Len(tl.flows)
             /\ \A i \in 1 .. Len(tl.flows) : new.flows[i] = Aged(tl.flows[i])
             /\ LinearFlows(new) = {Aged(f) : f \in LinearFlows(tl)}
<1> DEFINE s == tl.flows
           t == [i \in 1 .. Len(s) |-> Aged(s[i])]
           new == [tl EXCEPT !.flows = [i \in DOMAIN @ |-> Aged(@[i])]]
<1>1. /\ s \in Seq(GoodFlow) /\ Len(s) \in Nat /\ DOMAIN s = 1 .. Len(s)
      /\ \A i \in 1 .. Len(s) : s[i] \in GoodFlow
      /\ \A z : z \in LinearFlows(tl) <=> \E j \in 1 .. Len(s) : s[j] = z
  BY LinearFacts
<1>2. tl \in LinearTable
  BY DEF LinearOK
<1>3. new = [tl EXCEPT !.flows = t]
  BY <1>1, <1>2 DEF LinearTable
<1>4. t \in Seq(GoodFlow) /\ Len(t) = Len(s)
  <2>1. \A i \in 1 .. Len(s) : Aged(s[i]) \in GoodFlow
    BY <1>1, AgedGood
  <2> HIDE DEF s
  <2> QED BY <2>1, <1>1
<1>5. \A i \in 1 .. Len(s) : t[i] = Aged(s[i])
  OBVIOUS
<1>6. \A i \in 1 .. Len(s) : Alike(s[i], t[i])
  BY <1>1, <1>5, AgedGood
<1> HIDE DEF t
<1>7. LinearOK([tl EXCEPT !.flows = t], e)
  BY <1>4, <1>6, LinearAlike
<1>8. new.flows = t
  BY <1>2, <1>3 DEF LinearTable
<1>9. \A z : z \in LinearFlows(new) <=> \E j \in 1 .. Len(t) : t[j] = z
  BY <1>8, <1>4, InSet DEF LinearFlows
<1> HIDE DEF new
<1>10. LinearFlows(new) = {Aged(f) : f \in LinearFlows(tl)}
  BY <1>1, <1>4, <1>5, <1>9
<1> QED BY <1>3, <1>4, <1>5, <1>7, <1>8, <1>10 DEF new
-----------------------------------------------------------------------------
(* The hash tables.                                                         *)
Slot(h, t, b) == h[t].buckets[b]

HashTables == [0 .. 1 -> [buckets : [Buckets -> GoodFlow \cup {NoFlow}],
                          n_flows : Int]]

(* A bucket holds exact flows of its own hash.                              *)
HashOK(h) ==
  /\ h \in HashTables
  /\ \A t \in 0 .. 1, b \in Buckets :
       Slot(h, t, b) # NoFlow => /\ Slot(h, t, b).key.wildcards = {}
                                 /\ b = Hash(t, Slot(h, t, b).key.flow)
                                 /\ Slot(h, t, b).emerg_flow = FALSE

LEMMA SlotFacts ==
  ASSUME NEW h, HashOK(h), NEW t \in 0 .. 1, NEW b \in Buckets
  PROVE  /\ Slot(h, t, b) \in GoodFlow \cup {NoFlow}
         /\ Slot(h, t, b) # NoFlow => /\ Slot(h, t, b) \in GoodFlow
                                      /\ Slot(h, t, b).key.wildcards = {}
                                      /\ b = Hash(t, Slot(h, t, b).key.flow)
                                      /\ Slot(h, t, b).emerg_flow = FALSE
                                      /\ Slot(h, t, b).priority = HIGHEST
<1>1. h[t] \in [buckets : [Buckets -> GoodFlow \cup {NoFlow}], n_flows : Int]
  BY DEF HashOK, HashTables
<1>2. Slot(h, t, b) \in GoodFlow \cup {NoFlow}
  BY <1>1 DEF Slot
<1> QED BY <1>2, FlowFacts DEF HashOK

LEMMA HashFlowsFacts ==
  ASSUME NEW h
  PROVE  \A x : x \in HashFlows(h) <=>
           x # NoFlow /\ \E t \in 0 .. 1, b \in Buckets : Slot(h, t, b) = x
BY DEF HashFlows, Slot

LEMMA HashFlowsGood ==
  ASSUME NEW h, HashOK(h), NEW f \in HashFlows(h)
  PROVE  /\ f \in GoodFlow /\ f.key.wildcards = {} /\ f.priority = HIGHEST
         /\ f.emerg_flow = FALSE
<1>1. PICK t \in 0 .. 1, b \in Buckets : Slot(h, t, b) = f /\ f # NoFlow
  BY HashFlowsFacts
<1> QED BY <1>1, SlotFacts

(* A flow of a bucket is in that bucket of its subtable only.               *)
LEMMA SlotOfFlow ==
  ASSUME NEW h, HashOK(h), NEW t \in 0 .. 1, NEW b \in Buckets, NEW c \in Buckets,
         Slot(h, t, b) # NoFlow, Slot(h, t, c) # NoFlow,
         SameEntry(Slot(h, t, b), Slot(h, t, c))
  PROVE  b = c
<1>1. Slot(h, t, b).key.flow = Slot(h, t, c).key.flow
  BY SlotFacts, ExactSameEntry
<1>2. b = Hash(t, Slot(h, t, b).key.flow) /\ c = Hash(t, Slot(h, t, c).key.flow)
  BY SlotFacts
<1> QED BY <1>1, <1>2

LEMMA KeyBucket ==
  ASSUME NEW t \in 0 .. 1, NEW k \in Keys
  PROVE  Hash(t, k.flow) \in Buckets
BY HashAssumption DEF Buckets

LEMMA PacketBucket ==
  ASSUME NEW t \in 0 .. 1, NEW p \in Packets
  PROVE  Hash(t, flow_extract(p)) \in Buckets
BY HashAssumption DEF Buckets

(* Tables in which no bucket has a new entry.                               *)
LEMMA HashAlike ==
  ASSUME NEW h, HashOK(h), NEW new \in HashTables,
         \A t \in 0 .. 1, b \in Buckets :
           \/ Slot(new, t, b) = NoFlow
           \/ Slot(h, t, b) # NoFlow /\ Alike(Slot(h, t, b), Slot(new, t, b))
  PROVE  HashOK(new)
<1> SUFFICES ASSUME NEW t \in 0 .. 1, NEW b \in Buckets, Slot(new, t, b) # NoFlow
             PROVE  /\ Slot(new, t, b).key.wildcards = {}
                    /\ b = Hash(t, Slot(new, t, b).key.flow)
                    /\ Slot(new, t, b).emerg_flow = FALSE
  BY DEF HashOK
<1>1. Slot(h, t, b) # NoFlow /\ Alike(Slot(h, t, b), Slot(new, t, b))
  OBVIOUS
<1>2. /\ Slot(h, t, b).key.wildcards = {}
      /\ b = Hash(t, Slot(h, t, b).key.flow)
      /\ Slot(h, t, b).emerg_flow = FALSE
  BY <1>1 DEF HashOK
<1>3. /\ Slot(new, t, b).key = Slot(h, t, b).key
      /\ Slot(new, t, b).emerg_flow = Slot(h, t, b).emerg_flow
  BY <1>1 DEF Alike
<1> QED BY <1>2, <1>3

(* The tables new are h with f in one bucket.                               *)
With(new, h, t, b, f) ==
  \A u \in 0 .. 1, c \in Buckets :
    Slot(new, u, c) = IF u = t /\ c = b THEN f ELSE Slot(h, u, c)

(* table_hash_insert.                                                       *)
LEMMA HashPutOK ==
  ASSUME NEW h, HashOK(h), NEW t \in 0 .. 1, NEW f \in GoodFlow,
         f.key.wildcards = {}, f.emerg_flow = FALSE
  PROVE  /\ HashOK(HashPut(h, t, f))
         /\ Hash(t, f.key.flow) \in Buckets
         /\ With(HashPut(h, t, f), h, t, Hash(t, f.key.flow), f)
<1> DEFINE b == Hash(t, f.key.flow)
           new == HashPut(h, t, f)
           n == h[t].n_flows + IF h[t].buckets[b] = NoFlow THEN 1 ELSE 0
<1>1. b \in Buckets
  BY FlowFacts, KeyBucket
<1>2. h \in HashTables
  BY DEF HashOK
<1>3. h[t] \in [buckets : [Buckets -> GoodFlow \cup {NoFlow}], n_flows : Int]
  BY <1>2 DEF HashTables
<1>4. n \in Int
  BY <1>3
<1> HIDE DEF n
<1>5. new = [h EXCEPT ![t] = [buckets |-> [h[t].buckets EXCEPT ![b] = f],
                              n_flows |-> n]]
  <2>1. new = [h EXCEPT ![t].buckets[b] = f, ![t].n_flows = n]
    BY <1>2, <1>3 DEF HashPut, HashTables, n
  <2>2. [h[t] EXCEPT !.buckets[b] = f, !.n_flows = n] =
          [buckets |-> [h[t].buckets EXCEPT ![b] = f], n_flows |-> n]
    <3> DEFINE r == h[t]
    <3> HIDE DEF b, r, new
    <3>1. r \in [buckets : [Buckets -> GoodFlow \cup {NoFlow}], n_flows : Int]
      BY <1>3 DEF r
    <3>2. [r EXCEPT !.buckets[b] = f, !.n_flows = n] =
            [buckets |-> [r.buckets EXCEPT ![b] = f], n_flows |-> n]
      <4> DEFINE B == [r.buckets EXCEPT ![b] = f]
      <4>1. [r EXCEPT !.buckets[b] = f, !.n_flows = n] =
              [[r EXCEPT !.buckets = B] EXCEPT !.n_flows = n]
        BY ONLY <3>1
      <4> HIDE DEF B
      <4>2. [r EXCEPT !.buckets = B] = [buckets |-> B, n_flows |-> r.n_flows]
        BY ONLY <3>1
      <4>3. [[buckets |-> B, n_flows |-> r.n_flows] EXCEPT !.n_flows = n] =
              [buckets |-> B, n_flows |-> n]
        OBVIOUS
      <4> QED BY <4>1, <4>2, <4>3 DEF B
    <3> QED BY <3>2 DEF r
  <2> HIDE DEF new, b
  <2> QED BY <2>1, <2>2, <1>2 DEF HashTables
<1> HIDE DEF b, new
<1>6. [h[t].buckets EXCEPT ![b] = f] \in [Buckets -> GoodFlow \cup {NoFlow}]
  BY <1>1, <1>3
<1>7. new \in HashTables
  BY <1>2, <1>4, <1>5, <1>6 DEF HashTables
<1>8. ASSUME NEW u \in 0 .. 1, NEW c \in Buckets
      PROVE  Slot(new, u, c) = IF u = t /\ c = b THEN f ELSE Slot(h, u, c)
  <2>1. CASE u # t
    <3>1. new[u] = h[u]
      BY <2>1, <1>2, <1>5 DEF HashTables
    <3> QED BY <3>1, <2>1 DEF Slot
  <2>2. CASE u = t
    <3>1. new[u].buckets = [h[t].buckets EXCEPT ![b] = f]
      BY <2>2, <1>2, <1>5 DEF HashTables
    <3> QED BY <3>1, <2>2, <1>1, <1>3 DEF Slot
  <2> QED BY <2>1, <2>2
<1>9. HashOK(new)
  <2> SUFFICES ASSUME NEW u \in 0 .. 1, NEW c \in Buckets, Slot(new, u, c) # NoFlow
               PROVE  /\ Slot(new, u, c).key.wildcards = {}
                      /\ c = Hash(u, Slot(new, u, c).key.flow)
                      /\ Slot(new, u, c).emerg_flow = FALSE
    BY <1>7 DEF HashOK
  <2>1. CASE u = t /\ c = b
    BY <2>1, <1>8 DEF b
  <2>2. CASE ~(u = t /\ c = b)
    <3>1. Slot(new, u, c) = Slot(h, u, c)
      BY <2>2, <1>8
    <3>2. /\ Slot(h, u, c).key.wildcards = {}
          /\ c = Hash(u, Slot(h, u, c).key.flow)
          /\ Slot(h, u, c).emerg_flow = FALSE
      BY <3>1 DEF HashOK
    <3> QED BY <3>1, <3>2
  <2> QED BY <2>1, <2>2
<1>10. With(new, h, t, b, f)
  BY <1>8 DEF With
<1> QED BY <1>1, <1>9, <1>10 DEF new, b

(* The entry that the flow meets in its bucket is its own.                  *)
LEMMA HashAcceptsFacts ==
  ASSUME NEW h, HashOK(h), NEW t \in 0 .. 1, NEW f \in GoodFlow,
         HashAccepts(h, t, f)
  PROVE  /\ f.key.wildcards = {}
         /\ LET g == Slot(h, t, Hash(t, f.key.flow))
            IN  g # NoFlow => g.key.flow = f.key.flow /\ SameEntry(g, f)
<1> DEFINE g == Slot(h, t, Hash(t, f.key.flow))
<1>1. f.key.wildcards = {} /\ (g = NoFlow \/ g.key.flow = f.key.flow)
  BY DEF HashAccepts, HashHas, Slot
<1>2. Hash(t, f.key.flow) \in Buckets
  BY FlowFacts, KeyBucket
<1>3. g # NoFlow => g \in GoodFlow /\ g.key.wildcards = {}
  BY <1>2, SlotFacts
<1> HIDE DEF g
<1>4. g # NoFlow => SameEntry(g, f)
  BY <1>1, <1>3, ExactSameEntry
<1> QED BY <1>1, <1>4 DEF g

(* The requests that occur.                                                 *)
Proper(d) == /\ d.key.flow \in Header
             /\ d.key \in Keys \/ d.key.wildcards # {}

(* MODIFY and DELETE look at every bucket with a flow that they select.     *)
LEMMA HashSelectedFacts ==
  ASSUME NEW h, HashOK(h), NEW t \in 0 .. 1, NEW d, Proper(d)
  PROVE  /\ HashSelected(h, t, d) \subseteq Buckets
         /\ \A b \in Buckets : b \in HashSelected(h, t, d) <=>
              Slot(h, t, b) # NoFlow /\ Selects(d, Slot(h, t, b))
<1>1. ASSUME NEW b \in Buckets, Slot(h, t, b) # NoFlow, Selects(d, Slot(h, t, b))
      PROVE  b \in Examined(t, d.key)
  <2>1. CASE d.key.wildcards # {}
    BY <2>1 DEF Examined
  <2>2. CASE d.key.wildcards = {}
    <3> DEFINE f == Slot(h, t, b)
    <3>1. f \in GoodFlow /\ b = Hash(t, f.key.flow) /\ f.key.flow \in Header
      BY <1>1, SlotFacts, FlowFacts
    <3>2. flow_fields_match(f.key.flow, d.key.flow, {})
      BY <1>1, <2>2 DEF Selects, flow_matches_desc, flow_matches_1wild
    <3>3. f.key.flow = d.key.flow
      <4> HIDE DEF f
      <4> QED BY <3>1, <3>2, SameFields DEF Proper
    <3> QED BY <3>1, <3>3, <2>2 DEF Examined
  <2> QED BY <2>1, <2>2
<1>2. Examined(t, d.key) \subseteq Buckets
  BY KeyBucket DEF Examined, Proper
<1> QED BY <1>1, <1>2 DEF HashSelected, Slot

LEMMA HashModifyOK ==
  ASSUME NEW h, HashOK(h), NEW d, Proper(d), NEW a \in SUBSET Nat
  PROVE  /\ HashOK(HashModify(h, d, a))
         /\ \A t \in 0 .. 1, b \in Buckets :
              Slot(HashModify(h, d, a), t, b) =
                IF Slot(h, t, b) = NoFlow THEN NoFlow
                ELSE Modified(d, a, Slot(h, t, b))
<1> DEFINE new == HashModify(h, d, a)
<1>1. \A t \in 0 .. 1 :
        h[t] \in [buckets : [Buckets -> GoodFlow \cup {NoFlow}], n_flows : Int]
  BY DEF HashOK, HashTables
<1>2. ASSUME NEW t \in 0 .. 1, NEW b \in Buckets
      PROVE  Slot(new, t, b) = IF Slot(h, t, b) = NoFlow THEN NoFlow
                               ELSE Modified(d, a, Slot(h, t, b))
  <2>1. Slot(new, t, b) = IF b \in HashSelected(h, t, d)
                          THEN [Slot(h, t, b) EXCEPT !.actions = a]
                          ELSE Slot(h, t, b)
    BY <1>1 DEF HashModify, Slot
  <2> QED BY <2>1, HashSelectedFacts DEF Modified
<1>3. new = [t \in 0 .. 1 |-> [buckets |-> [b \in Buckets |-> Slot(new, t, b)],
                               n_flows |-> h[t].n_flows]]
  <2>1. new = [t \in 0 .. 1 |-> [h[t] EXCEPT !.buckets = new[t].buckets]]
    BY <1>1 DEF HashModify
  <2>2. \A t \in 0 .. 1 : new[t].buckets = [b \in Buckets |-> Slot(new, t, b)]
    BY <1>1 DEF HashModify, Slot
  <2>3. \A t \in 0 .. 1 : \A B : [h[t] EXCEPT !.buckets = B] =
                               [buckets |-> B, n_flows |-> h[t].n_flows]
    BY <1>1
  <2> HIDE DEF new
  <2> QED BY <2>1, <2>2, <2>3
<1> HIDE DEF new
<1>4. ASSUME NEW t \in 0 .. 1, NEW b \in Buckets
      PROVE  /\ Slot(new, t, b) \in GoodFlow \cup {NoFlow}
             /\ \/ Slot(new, t, b) = NoFlow
                \/ Slot(h, t, b) # NoFlow /\ Alike(Slot(h, t, b), Slot(new, t, b))
  <2>1. CASE Slot(h, t, b) = NoFlow
    BY <2>1, <1>2
  <2>2. CASE Slot(h, t, b) # NoFlow
    <3>1. Slot(h, t, b) \in GoodFlow /\ Slot(new, t, b) = Modified(d, a, Slot(h, t, b))
      BY <2>2, <1>2, SlotFacts
    <3> QED BY <3>1, <2>2, ModifiedFacts
  <2> QED BY <2>1, <2>2
<1>5. new \in HashTables
  BY <1>1, <1>3, <1>4 DEF HashTables
<1>6. HashOK(new)
  BY <1>4, <1>5, HashAlike
<1> QED BY <1>2, <1>6 DEF new

LEMMA BucketsFinite ==
  ASSUME NEW B \in SUBSET Buckets
  PROVE  IsFiniteSet(B) /\ Cardinality(B) \in Nat
<1>1. 0 \in Int /\ N_BUCKETS - 1 \in Int
  BY TableAssumption
<1>2. IsFiniteSet(Buckets)
  BY <1>1, FS_Interval DEF Buckets
<1>3. IsFiniteSet(B)
  BY <1>2, FS_Subset
<1> QED BY <1>3, FS_CardinalityType

LEMMA HashRemoveOK ==
  ASSUME NEW h, HashOK(h), NEW gone, \A t \in 0 .. 1 : gone[t] \in SUBSET Buckets
  PROVE  /\ HashOK(HashRemove(h, gone))
         /\ \A t \in 0 .. 1, b \in Buckets :
              Slot(HashRemove(h, gone), t, b) =
                IF b \in gone[t] THEN NoFlow ELSE Slot(h, t, b)
<1> DEFINE new == HashRemove(h, gone)
<1>1. \A t \in 0 .. 1 :
        h[t] \in [buckets : [Buckets -> GoodFlow \cup {NoFlow}], n_flows : Int]
  BY DEF HashOK, HashTables
<1>2. ASSUME NEW t \in 0 .. 1, NEW b \in Buckets
      PROVE  Slot(new, t, b) = IF b \in gone[t] THEN NoFlow ELSE Slot(h, t, b)
  BY DEF HashRemove, Slot
<1>3. new = [t \in 0 .. 1 |-> [buckets |-> [b \in Buckets |-> Slot(new, t, b)],
                               n_flows |-> h[t].n_flows - Cardinality(gone[t])]]
  BY DEF HashRemove, Slot
<1>4. \A t \in 0 .. 1 : h[t].n_flows - Cardinality(gone[t]) \in Int
  <2>1. \A t \in 0 .. 1 : Cardinality(gone[t]) \in Nat /\ h[t].n_flows \in Int
    BY <1>1, BucketsFinite
  <2> QED BY <2>1
<1> HIDE DEF new
<1>5. ASSUME NEW t \in 0 .. 1, NEW b \in Buckets
      PROVE  /\ Slot(new, t, b) \in GoodFlow \cup {NoFlow}
             /\ \/ Slot(new, t, b) = NoFlow
                \/ Slot(h, t, b) # NoFlow /\ Alike(Slot(h, t, b), Slot(new, t, b))
  BY <1>2, SlotFacts DEF Alike
<1>6. new \in HashTables
  BY <1>3, <1>4, <1>5 DEF HashTables
<1>7. HashOK(new)
  BY <1>5, <1>6, HashAlike
<1> QED BY <1>2, <1>7 DEF new

(* A packet, and the clock.                                                 *)
LEMMA HashUsedOK ==
  ASSUME NEW h, HashOK(h), NEW t \in 0 .. 1, NEW b \in Buckets,
         Slot(h, t, b) # NoFlow
  PROVE  LET new == [h EXCEPT ![t].buckets[b].idle_age = 0]
             g == [Slot(h, t, b) EXCEPT !.idle_age = 0]
         IN  /\ HashOK(new)
             /\ Alike(Slot(h, t, b), g) /\ g \in GoodFlow
             /\ With(new, h, t, b, g)
<1> DEFINE g == [Slot(h, t, b) EXCEPT !.idle_age = 0]
           new == [h EXCEPT ![t].buckets[b].idle_age = 0]
<1>1. h \in HashTables
  BY DEF HashOK
<1>2. h[t] \in [buckets : [Buckets -> GoodFlow \cup {NoFlow}], n_flows : Int]
  BY <1>1 DEF HashTables
<1>3. g \in GoodFlow /\ Alike(Slot(h, t, b), g)
  BY SlotFacts, UsedGood
<1>4. new = [h EXCEPT ![t] = [h[t] EXCEPT !.buckets = [h[t].buckets EXCEPT ![b] = g]]]
  BY DEF Slot
<1> HIDE DEF g, new
<1>5. [h[t].buckets EXCEPT ![b] = g] \in [Buckets -> GoodFlow \cup {NoFlow}]
  BY <1>2, <1>3
<1>6. [h[t] EXCEPT !.buckets = [h[t].buckets EXCEPT ![b] = g]]
        = [buckets |-> [h[t].buckets EXCEPT ![b] = g], n_flows |-> h[t].n_flows]
  BY <1>2
<1>7. new \in HashTables
  BY <1>1, <1>2, <1>4, <1>5, <1>6 DEF HashTables
<1>8. ASSUME NEW u \in 0 .. 1, NEW c \in Buckets
      PROVE  Slot(new, u, c) = IF u = t /\ c = b THEN g ELSE Slot(h, u, c)
  <2>1. CASE u # t
    <3>1. new[u] = h[u]
      BY <2>1, <1>1, <1>4 DEF HashTables
    <3> QED BY <3>1, <2>1 DEF Slot
  <2>2. CASE u = t
    <3>1. new[u].buckets = [h[t].buckets EXCEPT ![b] = g]
      BY <2>2, <1>1, <1>4, <1>6 DEF HashTables
    <3> QED BY <3>1, <2>2, <1>2 DEF Slot
  <2> QED BY <2>1, <2>2
<1>9. \A u \in 0 .. 1, c \in Buckets :
        \/ Slot(new, u, c) = NoFlow
        \/ Slot(h, u, c) # NoFlow /\ Alike(Slot(h, u, c), Slot(new, u, c))
  BY <1>3, <1>8 DEF Alike
<1>10. HashOK(new)
  BY <1>7, <1>9, HashAlike
<1>11. With(new, h, t, b, g)
  BY <1>8 DEF With
<1> QED BY <1>3, <1>10, <1>11 DEF new, g

LEMMA HashAgedOK ==
  ASSUME NEW h, HashOK(h)
  PROVE  LET new == [t \in 0 .. 1 |-> [h[t] EXCEPT !.buckets =
               [b \in Buckets |-> IF @[b] = NoFlow THEN NoFlow ELSE Aged(@[b])]]]
         IN  /\ HashOK(new)
             /\ \A t \in 0 .. 1, b \in Buckets :
                  Slot(new, t, b) = IF Slot(h, t, b) = NoFlow THEN NoFlow
                                    ELSE Aged(Slot(h, t, b))
<1> DEFINE new == [t \in 0 .. 1 |-> [h[t] EXCEPT !.buckets =
               [b \in Buckets |-> IF @[b] = NoFlow THEN NoFlow ELSE Aged(@[b])]]]
<1>1. \A t \in 0 .. 1 :
        h[t] \in [buckets : [Buckets -> GoodFlow \cup {NoFlow}], n_flows : Int]
  BY DEF HashOK, HashTables
<1>2. ASSUME NEW t \in 0 .. 1, NEW b \in Buckets
      PROVE  Slot(new, t, b) = IF Slot(h, t, b) = NoFlow THEN NoFlow
                               ELSE Aged(Slot(h, t, b))
  BY <1>1 DEF Slot
<1>3. new = [t \in 0 .. 1 |-> [buckets |-> [b \in Buckets |-> Slot(new, t, b)],
                               n_flows |-> h[t].n_flows]]
  BY <1>1 DEF Slot
<1> HIDE DEF new
<1>4. ASSUME NEW t \in 0 .. 1, NEW b \in Buckets
      PROVE  /\ Slot(new, t, b) \in GoodFlow \cup {NoFlow}
             /\ \/ Slot(new, t, b) = NoFlow
                \/ Slot(h, t, b) # NoFlow /\ Alike(Slot(h, t, b), Slot(new, t, b))
  <2>1. CASE Slot(h, t, b) = NoFlow
    BY <2>1, <1>2
  <2>2. CASE Slot(h, t, b) # NoFlow
    <3>1. Slot(h, t, b) \in GoodFlow /\ Slot(new, t, b) = Aged(Slot(h, t, b))
      BY <2>2, <1>2, SlotFacts
    <3> QED BY <3>1, <2>2, AgedGood
  <2> QED BY <2>1, <2>2
<1>5. new \in HashTables
  BY <1>1, <1>3, <1>4 DEF HashTables
<1>6. HashOK(new)
  BY <1>4, <1>5, HashAlike
<1> QED BY <1>2, <1>6 DEF new
-----------------------------------------------------------------------------
(* The chain.                                                               *)
Tables(h, l) == [hash2 |-> h, linear |-> l]

LEMMA ChainFlowsFacts ==
  ASSUME NEW h, NEW l
  PROVE  \A x : x \in ChainFlows(Tables(h, l)) <=>
                  x \in HashFlows(h) \/ x \in LinearFlows(l)
BY DEF ChainFlows, Tables

LEMMA ChainFlowsGood ==
  ASSUME NEW h, NEW l, HashOK(h), LinearOK(l, FALSE),
         NEW f \in ChainFlows(Tables(h, l))
  PROVE  f \in GoodFlow /\ f.emerg_flow = FALSE
<1>1. CASE f \in HashFlows(h)
  BY <1>1, HashFlowsGood
<1>2. CASE f \in LinearFlows(l)
  <2>1. f \in GoodFlow
    BY <1>2, LinearFacts
  <2> QED BY <1>2, <2>1 DEF LinearOK
<1> QED BY <1>1, <1>2, ChainFlowsFacts

(* What chain_insert makes of the tables h and l.                           *)
Inserted(h, l, f, newh, newl) ==
  \/ \E t \in 0 .. 1 : /\ HashAccepts(h, t, f)
                       /\ newh = HashPut(h, t, f)
                       /\ newl = l
  \/ /\ ~HashAccepts(h, 0, f) /\ ~HashAccepts(h, 1, f)
     /\ LinearAccepts(l, f)
     /\ newh = h
     /\ newl = table_linear_insert(l, f)

LEMMA ChainInsert ==
  ASSUME NEW h, NEW l, NEW f
  PROVE  LET r == chain_insert(Tables(h, l), f)
         IN  \/ r.ok /\ Inserted(h, l, f, r.chain.hash2, r.chain.linear)
             \/ /\ ~r.ok /\ r.chain = Tables(h, l)
                /\ ~HashAccepts(h, 0, f) /\ ~HashAccepts(h, 1, f)
                /\ ~LinearAccepts(l, f)
<1> DEFINE c == Tables(h, l)
           r == chain_insert(c, f)
<1>1. /\ c.hash2 = h /\ c.linear = l
      /\ \A x : [c EXCEPT !.hash2 = x] = Tables(x, l)
      /\ \A x : [c EXCEPT !.linear = x] = Tables(h, x)
      /\ \A x, y : Tables(x, y).hash2 = x /\ Tables(x, y).linear = y
  BY DEF Tables
<1>2. CASE HashAccepts(h, 0, f)
  <2>1. r = [ok |-> TRUE, chain |-> Tables(HashPut(h, 0, f), l)]
    BY <1>1, <1>2 DEF chain_insert
  <2> QED BY <2>1, <1>1, <1>2 DEF Inserted
<1>3. CASE ~HashAccepts(h, 0, f) /\ HashAccepts(h, 1, f)
  <2>1. r = [ok |-> TRUE, chain |-> Tables(HashPut(h, 1, f), l)]
    BY <1>1, <1>3 DEF chain_insert
  <2> QED BY <2>1, <1>1, <1>3 DEF Inserted
<1>4. CASE /\ ~HashAccepts(h, 0, f) /\ ~HashAccepts(h, 1, f)
           /\ LinearAccepts(l, f)
  <2>1. r = [ok |-> TRUE, chain |-> Tables(h, table_linear_insert(l, f))]
    BY <1>1, <1>4 DEF chain_insert
  <2> QED BY <2>1, <1>1, <1>4 DEF Inserted
<1>5. CASE /\ ~HashAccepts(h, 0, f) /\ ~HashAccepts(h, 1, f)
           /\ ~LinearAccepts(l, f)
  <2>1. r = [ok |-> FALSE, chain |-> c]
    BY <1>1, <1>5 DEF chain_insert
  <2> QED BY <2>1, <1>5
<1> QED BY <1>2, <1>3, <1>4, <1>5

LEMMA InsertedOK ==
  ASSUME NEW h, NEW l, NEW newh, NEW newl, HashOK(h), LinearOK(l, FALSE),
         NEW f \in GoodFlow, f.emerg_flow = FALSE,
         Inserted(h, l, f, newh, newl)
  PROVE  /\ HashOK(newh) /\ LinearOK(newl, FALSE)
         /\ f \in ChainFlows(Tables(newh, newl))
         /\ \A g \in ChainFlows(Tables(h, l)) :
              g \in ChainFlows(Tables(newh, newl)) \/ SameEntry(g, f)
<1>1. ASSUME NEW t \in 0 .. 1, HashAccepts(h, t, f), newh = HashPut(h, t, f), newl = l
      PROVE  /\ HashOK(newh) /\ LinearOK(newl, FALSE)
             /\ f \in ChainFlows(Tables(newh, newl))
             /\ \A g \in ChainFlows(Tables(h, l)) :
                  g \in ChainFlows(Tables(newh, newl)) \/ SameEntry(g, f)
  <2> DEFINE b == Hash(t, f.key.flow)
  <2>1. /\ f.key.wildcards = {}
        /\ Slot(h, t, b) # NoFlow => SameEntry(Slot(h, t, b), f)
    BY <1>1, HashAcceptsFacts
  <2>2. /\ HashOK(newh) /\ b \in Buckets
        /\ With(newh, h, t, b, f)
    BY <2>1, <1>1, HashPutOK
  <2> HIDE DEF b
  <2>3. f \in HashFlows(newh)
    <3>1. Slot(newh, t, b) = f /\ f # NoFlow
      BY <2>2, FlowFacts DEF With
    <3> QED BY <3>1, <2>2, HashFlowsFacts
  <2>4. ASSUME NEW g \in HashFlows(h) PROVE g \in HashFlows(newh) \/ SameEntry(g, f)
    <3>1. PICK u \in 0 .. 1, c \in Buckets : Slot(h, u, c) = g /\ g # NoFlow
      BY HashFlowsFacts
    <3>2. CASE u = t /\ c = b
      BY <3>1, <3>2, <2>1
    <3>3. CASE ~(u = t /\ c = b)
      <4>1. Slot(newh, u, c) = g
        BY <3>1, <3>3, <2>2 DEF With
      <4> QED BY <4>1, <3>1, HashFlowsFacts
    <3> QED BY <3>2, <3>3
  <2> QED BY <1>1, <2>2, <2>3, <2>4, ChainFlowsFacts
<1>2. ASSUME newh = h, newl = table_linear_insert(l, f)
      PROVE  /\ HashOK(newh) /\ LinearOK(newl, FALSE)
             /\ f \in ChainFlows(Tables(newh, newl))
             /\ \A g \in ChainFlows(Tables(h, l)) :
                  g \in ChainFlows(Tables(newh, newl)) \/ SameEntry(g, f)
  <2>1. /\ LinearOK(newl, FALSE)
        /\ LinearFlows(newl) = {g \in LinearFlows(l) : ~SameEntry(g, f)} \cup {f}
    BY <1>2, LinearInsert
  <2> QED BY <1>2, <2>1, ChainFlowsFacts
<1> QED BY <1>1, <1>2 DEF Inserted

LEMMA RequestFacts ==
  ASSUME NEW m \in UNION Controllers, NEW strict, NEW port
  PROVE  Proper(Request(m, strict, port))
<1>1. flow_extract_match(m.match) \in Keys
  BY DEF Keys
<1> QED BY <1>1, KeyFacts DEF Request, Proper

LEMMA EverythingFacts ==
  Proper(Everything) /\ \A f : Selects(Everything, f)
<1>1. Everything.key.flow \in Header
  BY DEF Everything, Header
<1>2. Everything.key.wildcards # {}
  BY DEF Everything, Fields
<1>3. \A f : Selects(Everything, f)
  BY DEF Everything, Selects, flow_matches_desc, flow_matches_1wild,
         flow_fields_match, flow_has_out_port
<1> QED BY <1>1, <1>2, <1>3 DEF Proper

(* The flows of the chain that a request selects.                           *)
LEMMA ChainSelectedFacts ==
  ASSUME NEW h, NEW l, HashOK(h), LinearOK(l, FALSE), NEW d, Proper(d)
  PROVE  ChainSelected(Tables(h, l), d) =
           {f \in ChainFlows(Tables(h, l)) : Selects(d, f)}
<1> DEFINE c == Tables(h, l)
<1>1. c.hash2 = h /\ c.linear = l
  BY DEF Tables
<1>2. \A x : x \in ChainSelected(c, d) <=>
        \/ \E t \in 0 .. 1 : \E b \in HashSelected(h, t, d) : Slot(h, t, b) = x
        \/ x \in LinearFlows(l) /\ Selects(d, x)
  <2>1. \A t : t \in 0 .. 1 <=> t = 0 \/ t = 1
    OBVIOUS
  <2> QED BY <1>1, <2>1 DEF ChainSelected, Slot
<1>3. \A x : (\E t \in 0 .. 1 : \E b \in HashSelected(h, t, d) : Slot(h, t, b) = x)
               <=> x \in HashFlows(h) /\ Selects(d, x)
  BY HashSelectedFacts, HashFlowsFacts
<1> HIDE DEF c
<1>4. \A x : x \in ChainSelected(c, d) <=> x \in ChainFlows(c) /\ Selects(d, x)
  BY <1>2, <1>3, ChainFlowsFacts DEF c
<1> QED BY <1>4 DEF c

(* chain_delete takes the selected flows out and leaves all others.         *)
LEMMA ChainDelete ==
  ASSUME NEW h, NEW l, HashOK(h), LinearOK(l, FALSE), NEW d, Proper(d)
  PROVE  LET r == chain_delete(Tables(h, l), d)
         IN  /\ HashOK(r.hash2) /\ LinearOK(r.linear, FALSE)
             /\ LinearFlows(r.linear) = {f \in LinearFlows(l) : ~Selects(d, f)}
             /\ r.linear = LinearRemove(l, {f \in LinearFlows(l) : Selects(d, f)})
             /\ \A t \in 0 .. 1, b \in Buckets :
                  Slot(r.hash2, t, b) =
                    IF Slot(h, t, b) # NoFlow /\ Selects(d, Slot(h, t, b))
                    THEN NoFlow ELSE Slot(h, t, b)
             /\ \A x : x \in ChainFlows(Tables(r.hash2, r.linear)) <=>
                         x \in ChainFlows(Tables(h, l)) /\ ~Selects(d, x)
<1> DEFINE r == chain_delete(Tables(h, l), d)
           gone == [t \in 0 .. 1 |-> HashSelected(h, t, d)]
           goneLinear == {f \in LinearFlows(l) : Selects(d, f)}
<1>1. /\ r.hash2 = HashRemove(h, gone)
      /\ r.linear = LinearRemove(l, goneLinear)
  BY DEF chain_delete, Tables
<1>2. \A t \in 0 .. 1 : gone[t] = HashSelected(h, t, d) /\ gone[t] \in SUBSET Buckets
  BY HashSelectedFacts
<1>3. /\ HashOK(r.hash2)
      /\ \A t \in 0 .. 1, b \in Buckets :
           Slot(r.hash2, t, b) = IF b \in gone[t] THEN NoFlow ELSE Slot(h, t, b)
  <2> HIDE DEF gone, r
  <2> QED BY <1>1, <1>2, HashRemoveOK
<1>4. /\ LinearOK(r.linear, FALSE)
      /\ LinearFlows(r.linear) = LinearFlows(l) \ goneLinear
  <2>1. goneLinear \in SUBSET LinearFlows(l)
    OBVIOUS
  <2> HIDE DEF goneLinear, r
  <2>2. /\ LinearOK(LinearRemove(l, goneLinear), FALSE)
        /\ LinearFlows(LinearRemove(l, goneLinear)) = LinearFlows(l) \ goneLinear
    BY <2>1, LinearRemoveOK
  <2> QED BY <1>1, <2>2
<1> HIDE DEF r
<1>5. \A t \in 0 .. 1, b \in Buckets :
        Slot(r.hash2, t, b) =
          IF Slot(h, t, b) # NoFlow /\ Selects(d, Slot(h, t, b))
          THEN NoFlow ELSE Slot(h, t, b)
  <2> HIDE DEF gone
  <2> QED BY <1>2, <1>3, HashSelectedFacts
<1>6. \A x : x \in HashFlows(r.hash2) <=> x \in HashFlows(h) /\ ~Selects(d, x)
  BY <1>5, HashFlowsFacts
<1>7. \A x : x \in LinearFlows(r.linear) <=> x \in LinearFlows(l) /\ ~Selects(d, x)
  BY <1>4
<1>8. \A x : x \in ChainFlows(Tables(r.hash2, r.linear)) <=>
               x \in ChainFlows(Tables(h, l)) /\ ~Selects(d, x)
  BY <1>6, <1>7, ChainFlowsFacts
<1> QED BY <1>1, <1>3, <1>4, <1>5, <1>7, <1>8 DEF r

(* The sweep, likewise.                                                     *)
LEMMA ChainTimeout ==
  ASSUME NEW h, NEW l, HashOK(h), LinearOK(l, FALSE)
  PROVE  LET gone == [t \in 0 .. 1 |->
                        {b \in Buckets : h[t].buckets[b] # NoFlow
                                           /\ flow_timeout(h[t].buckets[b])}]
             newh == HashRemove(h, gone)
             newl == LinearRemove(l, {f \in LinearFlows(l) : flow_timeout(f)})
         IN  /\ HashOK(newh) /\ LinearOK(newl, FALSE)
             /\ LinearFlows(newl) = {f \in LinearFlows(l) : ~flow_timeout(f)}
             /\ \A t \in 0 .. 1, b \in Buckets :
                  Slot(newh, t, b) =
                    IF Slot(h, t, b) # NoFlow /\ flow_timeout(Slot(h, t, b))
                    THEN NoFlow ELSE Slot(h, t, b)
             /\ ChainFlows(Tables(newh, newl)) =
                  {f \in ChainFlows(Tables(h, l)) : ~flow_timeout(f)}
<1> DEFINE gone == [t \in 0 .. 1 |->
                      {b \in Buckets : h[t].buckets[b] # NoFlow
                                         /\ flow_timeout(h[t].buckets[b])}]
           newh == HashRemove(h, gone)
           goneLinear == {f \in LinearFlows(l) : flow_timeout(f)}
           newl == LinearRemove(l, goneLinear)
<1>1. \A t \in 0 .. 1 : gone[t] \in SUBSET Buckets
  OBVIOUS
<1>2. \A t \in 0 .. 1, b \in Buckets :
        b \in gone[t] <=> Slot(h, t, b) # NoFlow /\ flow_timeout(Slot(h, t, b))
  BY DEF Slot
<1>3. /\ HashOK(newh)
      /\ \A t \in 0 .. 1, b \in Buckets :
           Slot(newh, t, b) = IF b \in gone[t] THEN NoFlow ELSE Slot(h, t, b)
  <2> HIDE DEF gone
  <2> QED BY <1>1, HashRemoveOK
<1>4. /\ LinearOK(newl, FALSE)
      /\ LinearFlows(newl) = LinearFlows(l) \ goneLinear
  <2>1. goneLinear \in SUBSET LinearFlows(l)
    OBVIOUS
  <2> HIDE DEF goneLinear
  <2> QED BY <2>1, LinearRemoveOK
<1> HIDE DEF newh, newl
<1>5. \A t \in 0 .. 1, b \in Buckets :
        Slot(newh, t, b) =
          IF Slot(h, t, b) # NoFlow /\ flow_timeout(Slot(h, t, b))
          THEN NoFlow ELSE Slot(h, t, b)
  <2> HIDE DEF gone
  <2> QED BY <1>2, <1>3
<1>6. \A x : x \in HashFlows(newh) <=> x \in HashFlows(h) /\ ~flow_timeout(x)
  BY <1>5, HashFlowsFacts
<1>7. \A x : x \in LinearFlows(newl) <=> x \in LinearFlows(l) /\ ~flow_timeout(x)
  BY <1>4
<1>8. \A x : x \in ChainFlows(Tables(newh, newl)) <=>
               x \in ChainFlows(Tables(h, l)) /\ ~flow_timeout(x)
  BY <1>6, <1>7, ChainFlowsFacts
<1> QED BY <1>3, <1>4, <1>5, <1>7, <1>8 DEF newh, newl

-----------------------------------------------------------------------------
(* The invariant of the tables.                                             *)
CopyingOK ==
  /\ copying \in Seq([key : Keys, priority : 0 .. HIGHEST])
  /\ \A k \in 1 .. Len(copying) : \E f \in LinearFlows(emerg) : copying[k] = Name(f)

TableInv ==
  /\ FlowMods \in Controllers
  /\ HashOK(hash2)
  /\ LinearOK(linear, FALSE)
  /\ LinearOK(emerg, TRUE)
  /\ CopyingOK

LEMMA ChainIs == Chain = Tables(hash2, linear) /\ Chain' = Tables(hash2', linear')
BY DEF Chain, Tables

(* What do_protection copies.                                               *)
LEMMA ProtectionFlowGood ==
  ASSUME TableInv, ~Idle
  PROVE  /\ ProtectionFlow(Head(copying)) \in GoodFlow
         /\ ProtectionFlow(Head(copying)).emerg_flow = FALSE
<1>1. copying \in Seq([key : Keys, priority : 0 .. HIGHEST]) /\ copying # <<>>
  BY DEF TableInv, CopyingOK, Idle
<1>2. 1 \in 1 .. Len(copying) /\ Head(copying) = copying[1]
  BY <1>1
<1>3. \E g \in LinearFlows(emerg) : Name(g) = Head(copying)
  BY <1>2 DEF TableInv, CopyingOK
<1> DEFINE f == CHOOSE g \in LinearFlows(emerg) : Name(g) = Head(copying)
<1>4. f \in LinearFlows(emerg)
  BY <1>3
<1>5. f \in GoodFlow
  BY <1>4, LinearFacts DEF TableInv
<1> DEFINE p == [f EXCEPT !.key = flow_extract_match(f.key),
                          !.idle_timeout = PERMANENT, !.hard_timeout = PERMANENT,
                          !.idle_age = 0, !.age = 0, !.emerg_flow = FALSE]
<1>6. ProtectionFlow(Head(copying)) = p
  BY DEF ProtectionFlow
<1> HIDE DEF f
<1>7. flow_extract_match(f.key) = f.key
  BY <1>5, FlowFacts, KeyFacts
<1>8. p \in SwFlow /\ p.key = f.key /\ p.priority = f.priority /\ p.emerg_flow = FALSE
  BY <1>5, <1>7 DEF SwFlow, GoodFlow, PERMANENT
<1>9. p \in GoodFlow
  BY <1>5, <1>8 DEF GoodFlow
<1> QED BY <1>6, <1>8, <1>9

LEMMA TableInit == Init => TableInv
<1> SUFFICES ASSUME Init PROVE TableInv
  OBVIOUS
<1>1. /\ FlowMods \in Controllers /\ linear = EmptyLinear /\ emerg = EmptyLinear
      /\ copying = <<>>
  BY DEF Init
<1>2. hash2 = [t \in 0 .. 1 |->
                [buckets |-> [b \in Buckets |-> NoFlow], n_flows |-> 0]]
  BY DEF Init, Buckets
<1>3. hash2 \in HashTables /\ \A t \in 0 .. 1, b \in Buckets : Slot(hash2, t, b) = NoFlow
  BY <1>2 DEF HashTables, Slot
<1>4. HashOK(hash2)
  BY <1>3 DEF HashOK
<1>5. CopyingOK
  BY <1>1 DEF CopyingOK
<1> QED BY <1>1, <1>4, <1>5, EmptyLinearOK DEF TableInv

(* The call of chain_insert, case by case.                                  *)
LEMMA InsertFacts ==
  ASSUME NEW f \in GoodFlow, Insert(f)
  PROVE  \/ /\ f.emerg_flow = TRUE /\ UNCHANGED tables
            /\ emerg' = table_linear_insert(emerg, f) /\ sent' = {}
         \/ /\ f.emerg_flow = FALSE /\ UNCHANGED emerg /\ sent' = {}
            /\ Inserted(hash2, linear, f, hash2', linear')
         \/ /\ UNCHANGED <<tables, emerg>> /\ sent' = {Error("ALL_TABLES_FULL")}
            /\ f.emerg_flow = FALSE => /\ ~HashAccepts(hash2, 0, f)
                                       /\ ~HashAccepts(hash2, 1, f)
                                       /\ ~LinearAccepts(linear, f)
<1>1. f.emerg_flow \in BOOLEAN
  BY DEF GoodFlow, SwFlow
<1>2. CASE f.emerg_flow = TRUE
  BY <1>2 DEF Insert
<1>3. CASE f.emerg_flow = FALSE
  <2> DEFINE r == chain_insert(Tables(hash2, linear), f)
  <2>1. /\ hash2' = r.chain.hash2 /\ linear' = r.chain.linear
        /\ UNCHANGED emerg
        /\ sent' = IF r.ok THEN {} ELSE {Error("ALL_TABLES_FULL")}
    BY <1>3, ChainIs DEF Insert, Working
  <2>2. \/ r.ok /\ Inserted(hash2, linear, f, r.chain.hash2, r.chain.linear)
        \/ /\ ~r.ok /\ r.chain = Tables(hash2, linear)
           /\ ~HashAccepts(hash2, 0, f) /\ ~HashAccepts(hash2, 1, f)
           /\ ~LinearAccepts(linear, f)
    BY ChainInsert
  <2> HIDE DEF r
  <2>3. CASE r.ok
    BY <2>1, <2>2, <2>3, <1>3
  <2>4. CASE ~r.ok
    <3>1. hash2' = hash2 /\ linear' = linear
      BY <2>1, <2>2, <2>4 DEF Tables
    <3> QED BY <2>1, <2>2, <2>4, <3>1 DEF tables
  <2> QED BY <2>3, <2>4
<1> QED BY <1>1, <1>2, <1>3

(* What the handler of an ADD does.                                         *)
LEMMA AddFacts ==
  ASSUME TableInv, AddFlow
  PROVE  \E m \in FlowMods :
           /\ m \in UNION Controllers /\ m.command = "ADD"
           /\ NewFlow(m) \in GoodFlow
           /\ \/ /\ UNCHANGED <<tables, emerg>>
                 /\ \E code : sent' = {Error(code)}
              \/ ~Overlaps(m, NewFlow(m)) /\ Insert(NewFlow(m))
<1>1. PICK m \in FlowMods :
        /\ m.command = "ADD"
        /\ \/ \E code : Refuse(code)
           \/ ~Overlaps(m, NewFlow(m)) /\ Insert(NewFlow(m))
  BY DEF AddFlow
<1>2. m \in UNION Controllers
  BY DEF TableInv
<1> QED BY <1>1, <1>2, NewFlowGood DEF Refuse

LEMMA ModFacts ==
  ASSUME TableInv, ModFlow
  PROVE  \E m \in FlowMods :
           LET d == Request(m, m.command = "MODIFY_STRICT", OFPP_NONE)
           IN  /\ m \in UNION Controllers
               /\ m.command \in {"MODIFY", "MODIFY_STRICT"}
               /\ NewFlow(m) \in GoodFlow
               /\ Proper(d) /\ m.actions \in SUBSET Nat
               /\ \/ /\ UNCHANGED <<tables, emerg>>
                     /\ \E code : sent' = {Error(code)}
                  \/ /\ emerg' = LinearModify(emerg, d, m.actions)
                     /\ UNCHANGED tables /\ sent' = {}
                  \/ /\ hash2' = HashModify(hash2, d, m.actions)
                     /\ linear' = LinearModify(linear, d, m.actions)
                     /\ UNCHANGED emerg /\ sent' = {}
                  \/ Insert(NewFlow(m))
<1> DEFINE d(m) == Request(m, m.command = "MODIFY_STRICT", OFPP_NONE)
<1>1. PICK m \in FlowMods :
        /\ m.command \in {"MODIFY", "MODIFY_STRICT"}
        /\ \/ \E code : Refuse(code)
           \/ /\ emerg' = LinearModify(emerg, d(m), m.actions)
              /\ UNCHANGED tables /\ sent' = {}
           \/ /\ hash2' = HashModify(hash2, d(m), m.actions)
              /\ linear' = LinearModify(linear, d(m), m.actions)
              /\ UNCHANGED emerg /\ sent' = {}
           \/ Insert(NewFlow(m))
  BY DEF ModFlow
<1>2. m \in UNION Controllers
  BY DEF TableInv
<1>3. m.actions \in SUBSET Nat
  BY <1>2, TableAssumption DEF OfpFlowMod
<1>4. Proper(d(m))
  BY <1>2, RequestFacts
<1>5. NewFlow(m) \in GoodFlow
  BY <1>2, NewFlowGood
<1> QED BY <1>1, <1>2, <1>3, <1>4, <1>5 DEF Refuse

LEMMA DeleteFacts ==
  ASSUME TableInv, DeleteFlows
  PROVE  \E m \in FlowMods :
           LET d == Request(m, m.command = "DELETE_STRICT", m.out_port)
               gone == {g \in LinearFlows(emerg) : Selects(d, g)}
               r == chain_delete(Tables(hash2, linear), d)
           IN  /\ m \in UNION Controllers /\ Proper(d)
               /\ m.command \in {"DELETE", "DELETE_STRICT"}
               /\ \/ /\ Emerg(m)
                     /\ emerg' = LinearRemove(emerg, gone)
                     /\ sent' = dp_send_flow_end(gone, TRUE)
                     /\ UNCHANGED tables
                  \/ /\ hash2' = r.hash2 /\ linear' = r.linear
                     /\ sent' = dp_send_flow_end(
                          ChainSelected(Tables(hash2, linear), d), TRUE)
                     /\ UNCHANGED emerg
<1> DEFINE d(m) == Request(m, m.command = "DELETE_STRICT", m.out_port)
           gone(m) == {g \in LinearFlows(emerg) : Selects(d(m), g)}
           r(m) == chain_delete(Tables(hash2, linear), d(m))
<1>1. PICK m \in FlowMods :
        /\ m.command \in {"DELETE", "DELETE_STRICT"}
        /\ \/ /\ Emerg(m)
              /\ emerg' = LinearRemove(emerg, gone(m))
              /\ sent' = dp_send_flow_end(gone(m), TRUE)
              /\ UNCHANGED tables
           \/ /\ hash2' = r(m).hash2 /\ linear' = r(m).linear
              /\ sent' = dp_send_flow_end(
                   ChainSelected(Tables(hash2, linear), d(m)), TRUE)
              /\ UNCHANGED emerg
  BY ChainIs DEF DeleteFlows, Working
<1>2. m \in UNION Controllers
  BY DEF TableInv
<1>3. Proper(d(m))
  BY <1>2, RequestFacts
<1> QED BY <1>1, <1>2, <1>3

(* The bucket of the packet that PacketInHash renews.                       *)
LEMMA PacketHashFacts ==
  ASSUME TableInv, PacketInHash
  PROVE  \E p \in Packets : \E t \in 0 .. 1 :
           /\ t \in HashFound(Chain, flow_extract(p))
           /\ Hash(t, flow_extract(p)) \in Buckets
           /\ Slot(hash2, t, Hash(t, flow_extract(p))) # NoFlow
           /\ Slot(hash2, t, Hash(t, flow_extract(p))).key.flow = flow_extract(p)
           /\ hash2' = [hash2 EXCEPT
                ![t].buckets[Hash(t, flow_extract(p))].idle_age = 0]
<1>1. PICK p \in Packets : \E t \in HashFound(Chain, flow_extract(p)) :
        hash2' = [hash2 EXCEPT ![t].buckets[Hash(t, flow_extract(p))].idle_age = 0]
  BY DEF PacketInHash
<1>2. PICK t \in HashFound(Chain, flow_extract(p)) :
        hash2' = [hash2 EXCEPT ![t].buckets[Hash(t, flow_extract(p))].idle_age = 0]
  BY <1>1
<1>3. t \in 0 .. 1 /\ HashHas(hash2, t, flow_extract(p))
  BY DEF HashFound, Chain
<1>4. Hash(t, flow_extract(p)) \in Buckets
  BY <1>3, PacketBucket
<1> QED BY <1>2, <1>3, <1>4 DEF HashHas, Slot

LEMMA PacketLinearFacts ==
  ASSUME TableInv, PacketInLinear
  PROVE  \E p \in Packets : \E i \in 1 .. Len(linear.flows) :
           /\ i \in LinearFound(Chain, flow_extract(p))
           /\ linear' = [linear EXCEPT !.flows[i].idle_age = 0]
BY DEF PacketInLinear, LinearFound, LinearMatches, Chain

LEMMA TableNext == TableInv /\ [Next]_vars => TableInv'
<1> SUFFICES ASSUME TableInv, [Next]_vars PROVE TableInv'
  OBVIOUS
<1> DEFINE Rest == /\ FlowMods' \in Controllers
                   /\ HashOK(hash2') /\ LinearOK(linear', FALSE)
                   /\ LinearOK(emerg', TRUE)
<1>1. FlowMods \in Controllers /\ HashOK(hash2) /\ LinearOK(linear, FALSE)
        /\ LinearOK(emerg, TRUE) /\ CopyingOK
  BY DEF TableInv
<1>2. ASSUME Rest, UNCHANGED copying, Idle PROVE TableInv'
  <2>1. copying' = <<>>
    BY <1>2 DEF Idle
  <2>2. CopyingOK'
    BY <2>1 DEF CopyingOK
  <2> QED BY <1>2, <2>2 DEF TableInv
<1>3. ASSUME NEW f \in GoodFlow, Insert(f)
      PROVE  HashOK(hash2') /\ LinearOK(linear', FALSE) /\ LinearOK(emerg', TRUE)
  <2>1. CASE /\ f.emerg_flow = TRUE /\ UNCHANGED tables
             /\ emerg' = table_linear_insert(emerg, f)
    BY <2>1, <1>1, LinearInsert DEF tables
  <2>2. CASE /\ f.emerg_flow = FALSE /\ UNCHANGED emerg
             /\ Inserted(hash2, linear, f, hash2', linear')
    BY <2>2, <1>1, InsertedOK
  <2>3. CASE UNCHANGED <<tables, emerg>>
    BY <2>3, <1>1 DEF tables
  <2> QED BY <2>1, <2>2, <2>3, <1>3, InsertFacts
<1>4. CASE AddFlow
  <2>1. Idle /\ FlowMods' = FlowMods /\ UNCHANGED copying
    BY <1>4 DEF AddFlow
  <2>2. UNCHANGED <<tables, emerg>> \/ \E f \in GoodFlow : Insert(f)
    BY <1>4, AddFacts
  <2>3. HashOK(hash2') /\ LinearOK(linear', FALSE) /\ LinearOK(emerg', TRUE)
    BY <2>2, <1>1, <1>3 DEF tables
  <2> QED BY <2>1, <2>3, <1>1, <1>2
<1>5. CASE ModFlow
  <2>1. Idle /\ FlowMods' = FlowMods /\ UNCHANGED copying
    BY <1>5 DEF ModFlow
  <2>2. PICK m \in FlowMods :
           LET d == Request(m, m.command = "MODIFY_STRICT", OFPP_NONE)
           IN  /\ NewFlow(m) \in GoodFlow
               /\ Proper(d) /\ m.actions \in SUBSET Nat
               /\ \/ UNCHANGED <<tables, emerg>>
                  \/ /\ emerg' = LinearModify(emerg, d, m.actions)
                     /\ UNCHANGED tables
                  \/ /\ hash2' = HashModify(hash2, d, m.actions)
                     /\ linear' = LinearModify(linear, d, m.actions)
                     /\ UNCHANGED emerg
                  \/ Insert(NewFlow(m))
    BY <1>5, ModFacts
  <2> DEFINE d == Request(m, m.command = "MODIFY_STRICT", OFPP_NONE)
  <2>3. CASE UNCHANGED <<tables, emerg>>
    BY <2>1, <2>3, <1>1, <1>2 DEF tables
  <2>4. CASE emerg' = LinearModify(emerg, d, m.actions) /\ UNCHANGED tables
    <3>1. LinearOK(emerg', TRUE)
      BY <2>2, <2>4, <1>1, LinearModifyOK
    <3> QED BY <3>1, <2>1, <2>4, <1>1, <1>2 DEF tables
  <2>5. CASE /\ hash2' = HashModify(hash2, d, m.actions)
             /\ linear' = LinearModify(linear, d, m.actions)
             /\ UNCHANGED emerg
    <3>1. LinearOK(linear', FALSE)
      BY <2>2, <2>5, <1>1, LinearModifyOK
    <3>2. HashOK(hash2')
      BY <2>2, <2>5, <1>1, HashModifyOK
    <3> QED BY <3>1, <3>2, <2>1, <2>5, <1>1, <1>2
  <2>6. CASE Insert(NewFlow(m))
    BY <2>1, <2>2, <2>6, <1>1, <1>2, <1>3
  <2> QED BY <2>2, <2>3, <2>4, <2>5, <2>6
<1>6. CASE DeleteFlows
  <2>1. Idle /\ FlowMods' = FlowMods /\ UNCHANGED copying
    BY <1>6 DEF DeleteFlows
  <2>2. PICK m \in FlowMods :
           LET d == Request(m, m.command = "DELETE_STRICT", m.out_port)
               gone == {g \in LinearFlows(emerg) : Selects(d, g)}
               r == chain_delete(Tables(hash2, linear), d)
           IN  /\ Proper(d)
               /\ \/ emerg' = LinearRemove(emerg, gone) /\ UNCHANGED tables
                  \/ /\ hash2' = r.hash2 /\ linear' = r.linear
                     /\ UNCHANGED emerg
    BY <1>6, DeleteFacts
  <2> DEFINE d == Request(m, m.command = "DELETE_STRICT", m.out_port)
             gone == {g \in LinearFlows(emerg) : Selects(d, g)}
             r == chain_delete(Tables(hash2, linear), d)
  <2>3. CASE emerg' = LinearRemove(emerg, gone) /\ UNCHANGED tables
    <3>1. gone \in SUBSET LinearFlows(emerg)
      OBVIOUS
    <3> HIDE DEF gone
    <3>2. LinearOK(emerg', TRUE)
      BY <3>1, <2>3, <1>1, LinearRemoveOK
    <3> QED BY <3>2, <2>1, <2>3, <1>1, <1>2 DEF tables
  <2>4. CASE hash2' = r.hash2 /\ linear' = r.linear /\ UNCHANGED emerg
    <3>1. HashOK(r.hash2) /\ LinearOK(r.linear, FALSE)
      BY <2>2, <1>1, ChainDelete
    <3> HIDE DEF r
    <3> QED BY <3>1, <2>1, <2>4, <1>1, <1>2
  <2> QED BY <2>2, <2>3, <2>4
<1>7. CASE EmergProtection
  <2> DEFINE r == chain_delete(Tables(hash2, linear), Everything)
  <2>1. /\ hash2' = r.hash2 /\ linear' = r.linear /\ copying' = emerg.iter_flows
        /\ FlowMods' = FlowMods /\ emerg' = emerg
    BY <1>7, ChainIs DEF EmergProtection, Working
  <2>2. HashOK(r.hash2) /\ LinearOK(r.linear, FALSE)
    BY <1>1, EverythingFacts, ChainDelete
  <2> HIDE DEF r
  <2>3. CopyingOK'
    BY <2>1, <1>1 DEF CopyingOK, LinearOK, LinearTable
  <2> QED BY <2>1, <2>2, <2>3, <1>1 DEF TableInv
<1>8. CASE CopyEmergFlow
  <2> DEFINE p == ProtectionFlow(Head(copying))
             r == chain_insert(Tables(hash2, linear), p)
  <2>1. /\ hash2' = r.chain.hash2 /\ linear' = r.chain.linear /\ ~Idle
        /\ copying' = IF r.ok THEN Tail(copying) ELSE <<>>
        /\ FlowMods' = FlowMods /\ emerg' = emerg
    BY <1>8, ChainIs DEF CopyEmergFlow, Working
  <2>2. p \in GoodFlow /\ p.emerg_flow = FALSE
    BY <2>1, ProtectionFlowGood
  <2> HIDE DEF p
  <2>3. \/ Inserted(hash2, linear, p, r.chain.hash2, r.chain.linear)
        \/ r.chain = Tables(hash2, linear)
    BY ChainInsert
  <2> HIDE DEF r
  <2>4. HashOK(hash2') /\ LinearOK(linear', FALSE)
    <3>1. CASE Inserted(hash2, linear, p, r.chain.hash2, r.chain.linear)
      <4>1. Inserted(hash2, linear, p, hash2', linear')
        BY <3>1, <2>1
      <4> QED BY <4>1, <2>2, <1>1, InsertedOK
    <3>2. CASE r.chain = Tables(hash2, linear)
      <4>1. r.chain.hash2 = hash2 /\ r.chain.linear = linear
        BY ONLY <3>2 DEF Tables
      <4> QED BY <4>1, <2>1, <1>1
    <3> QED BY <3>1, <3>2, <2>3
  <2>5. CopyingOK'
    <3>1. CASE copying' = <<>>
      BY <3>1 DEF CopyingOK
    <3>2. CASE copying' = Tail(copying)
      <4>1. copying \in Seq([key : Keys, priority : 0 .. HIGHEST]) /\ copying # <<>>
        BY <1>1, <2>1 DEF CopyingOK, Idle
      <4>2. /\ Tail(copying) \in Seq([key : Keys, priority : 0 .. HIGHEST])
            /\ \A k \in 1 .. Len(Tail(copying)) :
                 k + 1 \in 1 .. Len(copying) /\ Tail(copying)[k] = copying[k + 1]
        BY <4>1
      <4> QED BY <3>2, <4>2, <1>1, <2>1 DEF CopyingOK
    <3> QED BY <3>1, <3>2, <2>1
  <2> QED BY <2>1, <2>4, <2>5, <1>1 DEF TableInv
<1>9. CASE PacketInHash
  <2>1. Idle /\ UNCHANGED <<FlowMods, linear, emerg, copying>>
    BY <1>9 DEF PacketInHash
  <2>2. PICK p \in Packets, t \in 0 .. 1 :
           /\ Hash(t, flow_extract(p)) \in Buckets
           /\ Slot(hash2, t, Hash(t, flow_extract(p))) # NoFlow
           /\ hash2' = [hash2 EXCEPT
                ![t].buckets[Hash(t, flow_extract(p))].idle_age = 0]
    BY <1>9, PacketHashFacts
  <2>3. HashOK(hash2')
    BY <2>2, <1>1, HashUsedOK
  <2> QED BY <2>1, <2>3, <1>1, <1>2
<1>10. CASE PacketInLinear
  <2>1. Idle /\ UNCHANGED <<FlowMods, hash2, emerg, copying>>
    BY <1>10 DEF PacketInLinear
  <2>2. PICK i \in 1 .. Len(linear.flows) :
          linear' = [linear EXCEPT !.flows[i].idle_age = 0]
    BY <1>10, PacketLinearFacts
  <2>3. LinearOK(linear', FALSE)
    BY <2>2, <1>1, LinearUsedOK
  <2> QED BY <2>1, <2>3, <1>1, <1>2
<1>11. CASE PacketMiss
  BY <1>11, <1>1, <1>2 DEF PacketMiss, tables
<1>12. CASE Tick
  <2>1. Idle /\ UNCHANGED <<FlowMods, emerg, copying>>
    BY <1>12 DEF Tick
  <2>2. HashOK(hash2')
    BY <1>12, <1>1, HashAgedOK DEF Tick
  <2>3. LinearOK(linear', FALSE)
    BY <1>12, <1>1, LinearAgedOK DEF Tick
  <2> QED BY <2>1, <2>2, <2>3, <1>1, <1>2
<1>13. CASE Timeout
  <2>1. Idle /\ UNCHANGED <<FlowMods, emerg, copying>>
    BY <1>13 DEF Timeout
  <2>2. HashOK(hash2') /\ LinearOK(linear', FALSE)
    BY <1>13, <1>1, ChainTimeout DEF Timeout
  <2> QED BY <2>1, <2>2, <1>1, <1>2
<1>14. CASE UNCHANGED vars
  <2>1. /\ UNCHANGED FlowMods /\ UNCHANGED hash2 /\ UNCHANGED linear
        /\ UNCHANGED emerg /\ UNCHANGED copying
    BY <1>14 DEF vars
  <2>2. CopyingOK'
    BY <2>1, <1>1 DEF CopyingOK
  <2> QED BY <2>1, <2>2, <1>1 DEF TableInv
<1> QED
  BY <1>4, <1>5, <1>6, <1>7, <1>8, <1>9, <1>10, <1>11, <1>12, <1>13, <1>14
     DEF Next

(* The tables of the datapath keep their shape through every flow_mod,      *)
(* packet, second, timeout and emergency protection: a hash table holds a   *)
(* flow in the bucket of its own key, the linear table is ordered by        *)
(* priority without an entry twice, and the lists that are iterated and the *)
(* counters agree with it.                                                  *)
THEOREM TableInvariant == Spec => []TableInv
<1>1. Init => TableInv
  BY TableInit
<1>2. TableInv /\ [Next]_vars => TableInv'
  BY TableNext
<1> QED BY <1>1, <1>2, PTL DEF Spec
-----------------------------------------------------------------------------
(* LOOKUP *)

(* A flow of a bucket that matches a packet is the one the packet's header  *)
(* leads to.                                                                *)
LEMMA HashMatch ==
  ASSUME TableInv, NEW p \in Packets, NEW t \in 0 .. 1, NEW b \in Buckets,
         Slot(hash2, t, b) # NoFlow,
         flow_fields_match(flow_extract(p), Slot(hash2, t, b).key.flow,
                           Slot(hash2, t, b).key.wildcards)
  PROVE  /\ Slot(hash2, t, b).key.flow = flow_extract(p)
         /\ b = Hash(t, flow_extract(p))
         /\ HashFound(Chain, flow_extract(p)) # {}
<1> DEFINE f == Slot(hash2, t, b)
           flow == flow_extract(p)
<1>1. HashOK(hash2)
  BY DEF TableInv
<1>2. f \in GoodFlow /\ f.key.wildcards = {} /\ b = Hash(t, f.key.flow)
  BY <1>1, SlotFacts
<1>3. f.key.flow \in Header /\ flow \in Header
  BY <1>2, FlowFacts, PacketFacts
<1>4. f.key.flow = flow
  <2>1. flow_fields_match(flow, f.key.flow, {})
    BY <1>2
  <2> HIDE DEF f, flow
  <2> QED BY <2>1, <1>3, SameFields
<1>5. b = Hash(t, flow)
  BY <1>2, <1>4
<1>6. HashHas(hash2, t, flow)
  BY <1>4, <1>5 DEF HashHas, Slot
<1> HIDE DEF f, flow
<1>7. HashFound(Chain, flow) # {}
  <2>1. Chain.hash2 = hash2
    BY DEF Chain
  <2>2. CASE HashHas(hash2, 0, flow)
    <3>1. 0 \in HashFound(Chain, flow)
      BY <2>1, <2>2 DEF HashFound
    <3> QED BY <3>1
  <2>3. CASE ~HashHas(hash2, 0, flow)
    <3>1. t = 1
      BY <1>6, <2>3
    <3>2. 1 \in HashFound(Chain, flow)
      BY <2>1, <2>3, <3>1, <1>6 DEF HashFound
    <3> QED BY <3>2
  <2> QED BY <2>2, <2>3
<1> QED BY <1>4, <1>5, <1>7 DEF f, flow

(* The flow that a packet finds in a bucket.                                *)
LEMMA FoundInHash ==
  ASSUME TableInv, NEW p \in Packets, NEW t \in HashFound(Chain, flow_extract(p))
  PROVE  LET f == Slot(hash2, t, Hash(t, flow_extract(p)))
         IN  /\ t \in 0 .. 1 /\ Hash(t, flow_extract(p)) \in Buckets
             /\ f # NoFlow /\ f \in HashFlows(hash2) /\ f.priority = HIGHEST
             /\ f \in Matching(flow_extract(p))
<1> DEFINE flow == flow_extract(p)
           f == Slot(hash2, t, Hash(t, flow))
<1>1. t \in 0 .. 1 /\ HashHas(hash2, t, flow)
  BY DEF HashFound, Chain
<1>2. Hash(t, flow) \in Buckets
  BY <1>1, PacketBucket
<1>3. f # NoFlow /\ f.key.flow = flow
  BY <1>1 DEF HashHas, Slot
<1>4. HashOK(hash2)
  BY DEF TableInv
<1>5. f.priority = HIGHEST
  BY <1>1, <1>2, <1>3, <1>4, SlotFacts
<1>6. f \in HashFlows(hash2)
  BY <1>1, <1>2, <1>3, HashFlowsFacts
<1>7. f \in ChainFlows(Chain)
  BY <1>6, ChainIs, ChainFlowsFacts
<1>8. flow_fields_match(flow, f.key.flow, f.key.wildcards)
  BY <1>3 DEF flow_fields_match
<1> HIDE DEF f
<1>9. f \in Matching(flow)
  BY <1>7, <1>8 DEF Matching
<1> QED BY <1>1, <1>2, <1>3, <1>5, <1>6, <1>9 DEF f

(* Chain_lookup finds a flow of the highest priority.                       *)
LEMMA LookupBest ==
  ASSUME TableInv, NEW p \in Packets
  PROVE  LET flow == flow_extract(p)
         IN  /\ Matching(flow) # {} => Found(flow) # {}
             /\ \A f \in Found(flow) :
                  /\ f \in Matching(flow)
                  /\ \A g \in Matching(flow) : g.priority <= f.priority
<1> DEFINE flow == flow_extract(p)
<1>1. HashOK(hash2) /\ LinearOK(linear, FALSE)
  BY DEF TableInv
<1>2. \A x : x \in Matching(flow) <=>
        /\ x \in HashFlows(hash2) \/ x \in LinearFlows(linear)
        /\ flow_fields_match(flow, x.key.flow, x.key.wildcards)
  BY ChainIs, ChainFlowsFacts DEF Matching
<1>3. \A x \in Matching(flow) : x \in GoodFlow
  BY <1>1, <1>2, HashFlowsGood, LinearFacts
<1>4. \A x \in Matching(flow) : x.priority \in Nat /\ x.priority <= HIGHEST
  BY <1>3, FlowFacts
<1>5. \A t \in HashFound(Chain, flow) :
        LET f == Slot(hash2, t, Hash(t, flow))
        IN  f \in Matching(flow) /\ f.priority = HIGHEST
  BY FoundInHash
<1>6. \A x : x \in Found(flow) <=>
        \/ \E t \in HashFound(Chain, flow) : x = Slot(hash2, t, Hash(t, flow))
        \/ \E i \in LinearFound(Chain, flow) : x = linear.flows[i]
  BY DEF Found, Slot
<1> HIDE DEF flow
<1>7. CASE HashFound(Chain, flow) # {}
  <2>1. LinearFound(Chain, flow) = {}
    BY <1>7 DEF LinearFound
  <2>2. \A x \in Found(flow) : x \in Matching(flow) /\ x.priority = HIGHEST
    BY <2>1, <1>5, <1>6
  <2>3. Found(flow) # {}
    BY <1>6, <1>7
  <2> QED BY <2>2, <2>3, <1>4 DEF flow
<1>8. CASE HashFound(Chain, flow) = {}
  <2> DEFINE M == LinearMatches(Chain, flow)
             s == linear.flows
  <2>1. \A i : i \in M <=> /\ i \in 1 .. Len(s)
                           /\ flow_fields_match(flow, s[i].key.flow, s[i].key.wildcards)
    BY DEF LinearMatches, Chain
  <2>2. /\ Len(s) \in Nat /\ Ordered(s)
        /\ \A i \in 1 .. Len(s) : s[i] \in LinearFlows(linear)
        /\ \A x \in LinearFlows(linear) : \E i \in 1 .. Len(s) : s[i] = x
    BY <1>1, LinearFacts
  <2> HIDE DEF M
  <2>3. \A i \in M : i \in 1 .. Len(s) /\ s[i] \in Matching(flow)
    BY <2>1, <2>2, <1>2
  <2>4. \A x \in Matching(flow) : \E i \in M : s[i] = x
    <3> SUFFICES ASSUME NEW x \in Matching(flow) PROVE \E i \in M : s[i] = x
      OBVIOUS
    <3>1. x \notin HashFlows(hash2)
      <4> SUFFICES ASSUME x \in HashFlows(hash2) PROVE FALSE
        OBVIOUS
      <4>1. PICK t \in 0 .. 1, b \in Buckets : Slot(hash2, t, b) = x /\ x # NoFlow
        BY HashFlowsFacts
      <4>2. flow_fields_match(flow, x.key.flow, x.key.wildcards)
        BY <1>2
      <4> QED BY <4>1, <4>2, <1>8, HashMatch DEF flow
    <3>2. PICK i \in 1 .. Len(s) : s[i] = x
      BY <3>1, <1>2, <2>2
    <3> QED BY <3>2, <1>2, <2>1
  <2>5. \A i : i \in LinearFound(Chain, flow) <=> i \in M /\ \A j \in M : i <= j
    BY <1>8 DEF LinearFound, M
  <2>6. Matching(flow) # {} => Found(flow) # {}
    <3> SUFFICES ASSUME Matching(flow) # {} PROVE Found(flow) # {}
      OBVIOUS
    <3>1. M # {} /\ M \in SUBSET Nat
      BY <2>3, <2>4, <2>2
    <3>2. PICK i \in M : \A j \in M : i <= j
      BY <3>1, LeastNatural
    <3>3. s[i] \in Found(flow)
      BY <3>2, <2>5, <1>6
    <3> QED BY <3>3
  <2>7. ASSUME NEW f \in Found(flow)
        PROVE  /\ f \in Matching(flow)
               /\ \A g \in Matching(flow) : g.priority <= f.priority
    <3>1. PICK i \in LinearFound(Chain, flow) : f = s[i]
      BY <1>6, <1>8
    <3>2. i \in M /\ \A j \in M : i <= j
      BY <2>5
    <3>3. f \in Matching(flow)
      BY <3>1, <3>2, <2>3
    <3>4. ASSUME NEW g \in Matching(flow) PROVE g.priority <= f.priority
      <4>1. PICK j \in M : s[j] = g
        BY <2>4
      <4>2. i <= j /\ i \in 1 .. Len(s) /\ j \in 1 .. Len(s)
        BY <3>2, <2>3
      <4>3. CASE i = j
        BY <4>1, <4>3, <3>1, <1>4
      <4>4. CASE i # j
        <5>1. i < j
          BY <4>2, <4>4, <2>2
        <5> QED BY <5>1, <4>1, <4>2, <3>1, <2>2 DEF Ordered
      <4> QED BY <4>3, <4>4
    <3> QED BY <3>3, <3>4
  <2> QED BY <2>6, <2>7 DEF flow
<1> QED BY <1>7, <1>8

(* THEOREM: whatever hashes to which bucket, however full the tables are    *)
(* and however often flows are added, modified, deleted, copied and timed   *)
(* out, chain_lookup finds a flow of the highest priority among all that    *)
(* match the packet, and misses only when none does.                        *)
THEOREM HighestFound == Spec => []LookupFindsHighest
<1>1. TableInv => LookupFindsHighest
  BY LookupBest DEF LookupFindsHighest
<1> QED BY <1>1, TableInvariant, PTL

-----------------------------------------------------------------------------
(* REMOVALS *)
LEMMA NothingLost ==
  ASSUME \A f \in ChainFlows(Chain) : \E g \in ChainFlows(Chain') : SameEntry(f, g),
         \A n \in sent' : n.type # "FLOW_REMOVED"
  PROVE  Reported
<1>1. ChainFlows(Chain)' = ChainFlows(Chain')
  BY DEF ChainFlows, HashFlows, LinearFlows, Buckets
<1>2. {m.entry : m \in {n \in sent' : n.type = "FLOW_REMOVED"}} = {}
  OBVIOUS
<1> QED BY <1>1, <1>2 DEF Reported

LEMMA LossReported ==
  ASSUME TableInv, NEW gone \in SUBSET ChainFlows(Chain), NEW deleted,
         \A f \in ChainFlows(Chain) : f \notin gone => f \in ChainFlows(Chain'),
         sent' = dp_send_flow_end(gone, deleted)
  PROVE  Reported
<1> DEFINE named == {m.entry : m \in {n \in sent' : n.type = "FLOW_REMOVED"}}
           told == {g \in gone : g.send_flow_rem /\ ~g.emerg_flow}
<1>1. ChainFlows(Chain)' = ChainFlows(Chain')
  BY DEF ChainFlows, HashFlows, LinearFlows, Buckets
<1>2. \A f \in ChainFlows(Chain) : f.emerg_flow = FALSE
  BY ChainIs, ChainFlowsGood DEF TableInv
<1>3. \A x : x \in named <=> \E g \in told : x = Name(g)
  <2> DEFINE msg(f) == [type |-> "FLOW_REMOVED", entry |-> Name(f),
                        reason |-> Reason(f, deleted)]
  <2>1. \A f : msg(f).type = "FLOW_REMOVED" /\ msg(f).entry = Name(f)
    OBVIOUS
  <2>2. sent' = {msg(f) : f \in told}
    BY DEF dp_send_flow_end
  <2> HIDE DEF msg, told
  <2> QED BY <2>1, <2>2
<1> HIDE DEF named
<1>4. ASSUME NEW f \in ChainFlows(Chain), f.send_flow_rem
      PROVE  Name(f) \in named \/ \E g \in ChainFlows(Chain)' : SameEntry(f, g)
  <2>1. CASE f \in gone
    BY <2>1, <1>2, <1>3, <1>4
  <2>2. CASE f \notin gone
    BY <2>2, <1>1, SameEntryReflexive
  <2> QED BY <2>1, <2>2
<1>5. named \subseteq {Name(f) : f \in {g \in ChainFlows(Chain) : g.send_flow_rem}}
  BY <1>3
<1> QED BY <1>4, <1>5 DEF Reported, named

(* Tables that keep all their entries.                                      *)
LEMMA HashKept ==
  ASSUME NEW h, NEW new,
         \A t \in 0 .. 1, b \in Buckets : Slot(h, t, b) # NoFlow =>
           Slot(new, t, b) # NoFlow /\ Alike(Slot(h, t, b), Slot(new, t, b))
  PROVE  \A f \in HashFlows(h) : \E g \in HashFlows(new) : SameEntry(f, g)
<1> SUFFICES ASSUME NEW f \in HashFlows(h)
             PROVE  \E g \in HashFlows(new) : SameEntry(f, g)
  OBVIOUS
<1>1. PICK t \in 0 .. 1, b \in Buckets : Slot(h, t, b) = f /\ f # NoFlow
  BY HashFlowsFacts
<1>2. Slot(new, t, b) \in HashFlows(new) /\ Alike(f, Slot(new, t, b))
  BY <1>1, HashFlowsFacts
<1> QED BY <1>2, AlikeSameEntry

LEMMA LinearKept ==
  ASSUME NEW l, NEW new, LinearOK(l, FALSE), LinearOK(new, FALSE),
         Len(new.flows) = Len(l.flows),
         \A i \in 1 .. Len(l.flows) : Alike(l.flows[i], new.flows[i])
  PROVE  \A f \in LinearFlows(l) : \E g \in LinearFlows(new) : SameEntry(f, g)
<1> SUFFICES ASSUME NEW f \in LinearFlows(l)
             PROVE  \E g \in LinearFlows(new) : SameEntry(f, g)
  OBVIOUS
<1>1. PICK i \in 1 .. Len(l.flows) : l.flows[i] = f
  BY LinearFacts
<1>2. new.flows[i] \in LinearFlows(new) /\ Alike(f, new.flows[i])
  BY <1>1, LinearFacts
<1> QED BY <1>2, AlikeSameEntry

(* A step that keeps the entries of both tables, and reports nothing.       *)
LEMMA KeptReported ==
  ASSUME \A f \in HashFlows(hash2) : \E g \in HashFlows(hash2') : SameEntry(f, g),
         \A f \in LinearFlows(linear) : \E g \in LinearFlows(linear') : SameEntry(f, g),
         \A n \in sent' : n.type # "FLOW_REMOVED"
  PROVE  Reported
<1>1. \A f \in ChainFlows(Chain) : \E g \in ChainFlows(Chain') : SameEntry(f, g)
  BY ChainIs, ChainFlowsFacts
<1> QED BY <1>1, NothingLost

LEMMA UnchangedReported ==
  ASSUME UNCHANGED tables, \A n \in sent' : n.type # "FLOW_REMOVED"
  PROVE  Reported
<1>1. hash2' = hash2 /\ linear' = linear
  BY DEF tables
<1> QED BY <1>1, SameEntryReflexive, KeptReported

LEMMA ErrorSays ==
  ASSUME NEW code, sent' = {Error(code)}
  PROVE  \A n \in sent' : n.type # "FLOW_REMOVED"
BY DEF Error

LEMMA InsertedReported ==
  ASSUME TableInv, NEW f \in GoodFlow, f.emerg_flow = FALSE,
         Inserted(hash2, linear, f, hash2', linear'), sent' = {}
  PROVE  Reported
<1>1. /\ f \in ChainFlows(Tables(hash2', linear'))
      /\ \A g \in ChainFlows(Tables(hash2, linear)) :
           g \in ChainFlows(Tables(hash2', linear')) \/ SameEntry(g, f)
  <2>1. HashOK(hash2) /\ LinearOK(linear, FALSE)
    BY DEF TableInv
  <2> QED BY <2>1, InsertedOK
<1>2. \A g \in ChainFlows(Chain) : \E x \in ChainFlows(Chain') : SameEntry(g, x)
  BY <1>1, ChainIs, SameEntryReflexive
<1> QED BY <1>2, NothingLost

LEMMA InsertReported ==
  ASSUME TableInv, NEW f \in GoodFlow, Insert(f)
  PROVE  Reported
<1>1. CASE UNCHANGED tables /\ sent' = {}
  BY <1>1, UnchangedReported
<1>2. CASE /\ f.emerg_flow = FALSE /\ sent' = {}
           /\ Inserted(hash2, linear, f, hash2', linear')
  BY <1>2, InsertedReported
<1>3. CASE UNCHANGED <<tables, emerg>> /\ sent' = {Error("ALL_TABLES_FULL")}
  BY <1>3, ErrorSays, UnchangedReported
<1> QED BY <1>1, <1>2, <1>3, InsertFacts

LEMMA StepReported == TableInv /\ Next => Reported
<1> SUFFICES ASSUME TableInv, Next PROVE Reported
  OBVIOUS
<1>1. HashOK(hash2) /\ LinearOK(linear, FALSE) /\ LinearOK(emerg, TRUE)
  BY DEF TableInv
<1>2. CASE AddFlow
  <2>1. \/ UNCHANGED tables /\ \E code : sent' = {Error(code)}
        \/ \E f \in GoodFlow : Insert(f)
    BY <1>2, AddFacts
  <2> QED BY <2>1, ErrorSays, UnchangedReported, InsertReported
<1>3. CASE ModFlow
  <2>1. PICK m \in FlowMods :
           LET d == Request(m, m.command = "MODIFY_STRICT", OFPP_NONE)
           IN  /\ NewFlow(m) \in GoodFlow
               /\ Proper(d) /\ m.actions \in SUBSET Nat
               /\ \/ /\ UNCHANGED tables
                     /\ sent' = {} \/ \E code : sent' = {Error(code)}
                  \/ /\ hash2' = HashModify(hash2, d, m.actions)
                     /\ linear' = LinearModify(linear, d, m.actions)
                     /\ sent' = {}
                  \/ Insert(NewFlow(m))
    BY <1>3, ModFacts
  <2> DEFINE d == Request(m, m.command = "MODIFY_STRICT", OFPP_NONE)
  <2>2. CASE UNCHANGED tables /\ (sent' = {} \/ \E code : sent' = {Error(code)})
    BY <2>2, ErrorSays, UnchangedReported
  <2>3. CASE Insert(NewFlow(m))
    BY <2>1, <2>3, InsertReported
  <2>4. CASE /\ hash2' = HashModify(hash2, d, m.actions)
             /\ linear' = LinearModify(linear, d, m.actions)
             /\ sent' = {}
    <3> HIDE DEF d
    <3>1. Proper(d) /\ m.actions \in SUBSET Nat
      BY <2>1 DEF d
    <3>2. \A t \in 0 .. 1, b \in Buckets :
            Slot(hash2', t, b) = IF Slot(hash2, t, b) = NoFlow THEN NoFlow
                                 ELSE Modified(d, m.actions, Slot(hash2, t, b))
      BY <3>1, <2>4, <1>1, HashModifyOK
    <3>3. ASSUME NEW t \in 0 .. 1, NEW b \in Buckets, Slot(hash2, t, b) # NoFlow
          PROVE  /\ Slot(hash2', t, b) # NoFlow
                 /\ Alike(Slot(hash2, t, b), Slot(hash2', t, b))
      <4>1. Slot(hash2, t, b) \in GoodFlow
        BY <3>3, <1>1, SlotFacts
      <4>2. Slot(hash2', t, b) = Modified(d, m.actions, Slot(hash2, t, b))
        BY <3>2, <3>3
      <4>3. /\ Slot(hash2', t, b) \in GoodFlow
            /\ Alike(Slot(hash2, t, b), Slot(hash2', t, b))
        BY <4>1, <4>2, <3>1, ModifiedFacts
      <4> QED BY <4>3, FlowFacts
    <3>4. \A f \in HashFlows(hash2) : \E g \in HashFlows(hash2') : SameEntry(f, g)
      BY <3>3, HashKept
    <3>5. /\ LinearOK(linear', FALSE) /\ Len(linear'.flows) = Len(linear.flows)
          /\ \A i \in 1 .. Len(linear.flows) :
               linear'.flows[i] = Modified(d, m.actions, linear.flows[i])
      BY <3>1, <2>4, <1>1, LinearModifyOK
    <3>6. \A i \in 1 .. Len(linear.flows) : Alike(linear.flows[i], linear'.flows[i])
      <4>1. \A i \in 1 .. Len(linear.flows) : linear.flows[i] \in GoodFlow
        BY <1>1, LinearFacts
      <4> QED BY <4>1, <3>1, <3>5, ModifiedFacts
    <3>7. \A f \in LinearFlows(linear) : \E g \in LinearFlows(linear') : SameEntry(f, g)
      BY <3>5, <3>6, <1>1, LinearKept
    <3> QED BY <3>4, <3>7, <2>4, KeptReported
  <2> QED BY <2>1, <2>2, <2>3, <2>4
<1>4. CASE DeleteFlows
  <2>1. PICK m \in FlowMods :
           LET d == Request(m, m.command = "DELETE_STRICT", m.out_port)
               gone == {g \in LinearFlows(emerg) : Selects(d, g)}
               r == chain_delete(Tables(hash2, linear), d)
           IN  /\ Proper(d)
               /\ \/ /\ sent' = dp_send_flow_end(gone, TRUE)
                     /\ UNCHANGED tables
                  \/ /\ hash2' = r.hash2 /\ linear' = r.linear
                     /\ sent' = dp_send_flow_end(
                          ChainSelected(Tables(hash2, linear), d), TRUE)
    BY <1>4, DeleteFacts
  <2> DEFINE d == Request(m, m.command = "DELETE_STRICT", m.out_port)
             gone == {g \in LinearFlows(emerg) : Selects(d, g)}
             r == chain_delete(Tables(hash2, linear), d)
  <2>2. CASE sent' = dp_send_flow_end(gone, TRUE) /\ UNCHANGED tables
    <3>1. \A g \in gone : g.emerg_flow = TRUE
      BY <1>1 DEF LinearOK
    <3>2. sent' = {}
      BY <3>1, <2>2 DEF dp_send_flow_end
    <3> QED BY <3>2, <2>2, UnchangedReported
  <2>3. CASE /\ hash2' = r.hash2 /\ linear' = r.linear
             /\ sent' = dp_send_flow_end(ChainSelected(Tables(hash2, linear), d), TRUE)
    <3>4. Proper(d)
      BY <2>1
    <3> HIDE DEF d
    <3> DEFINE all == ChainSelected(Tables(hash2, linear), d)
    <3>1. all = {f \in ChainFlows(Tables(hash2, linear)) : Selects(d, f)}
      BY <3>4, <1>1, ChainSelectedFacts
    <3>2. \A x : x \in ChainFlows(Tables(r.hash2, r.linear)) <=>
                   x \in ChainFlows(Tables(hash2, linear)) /\ ~Selects(d, x)
      BY <3>4, <1>1, ChainDelete
    <3> HIDE DEF all, r
    <3>3. /\ all \in SUBSET ChainFlows(Chain)
          /\ \A f \in ChainFlows(Chain) : f \notin all => f \in ChainFlows(Chain')
      BY <3>1, <3>2, <2>3, ChainIs
    <3> QED BY <3>3, <2>3, LossReported DEF all
  <2> QED BY <2>1, <2>2, <2>3
<1>5. CASE EmergProtection
  <2> DEFINE all == ChainSelected(Tables(hash2, linear), Everything)
  <2>1. sent' = dp_send_flow_end(all, TRUE)
    BY <1>5, ChainIs DEF EmergProtection
  <2>2. all = ChainFlows(Tables(hash2, linear))
    <3>1. all = {f \in ChainFlows(Tables(hash2, linear)) : Selects(Everything, f)}
      BY <1>1, EverythingFacts, ChainSelectedFacts
    <3> HIDE DEF all
    <3> QED BY <3>1, EverythingFacts
  <2> HIDE DEF all
  <2>3. /\ all \in SUBSET ChainFlows(Chain)
        /\ \A f \in ChainFlows(Chain) : f \notin all => f \in ChainFlows(Chain')
    BY <2>2, ChainIs
  <2> QED BY <2>1, <2>3, LossReported
<1>6. CASE CopyEmergFlow
  <2> DEFINE p == ProtectionFlow(Head(copying))
             r == chain_insert(Tables(hash2, linear), p)
  <2>1. hash2' = r.chain.hash2 /\ linear' = r.chain.linear /\ ~Idle /\ sent' = {}
    BY <1>6, ChainIs DEF CopyEmergFlow, Working
  <2>2. p \in GoodFlow /\ p.emerg_flow = FALSE
    BY <2>1, ProtectionFlowGood
  <2> HIDE DEF p
  <2>3. \/ Inserted(hash2, linear, p, r.chain.hash2, r.chain.linear)
        \/ r.chain = Tables(hash2, linear)
    BY ChainInsert
  <2> HIDE DEF r
  <2>4. CASE Inserted(hash2, linear, p, r.chain.hash2, r.chain.linear)
    <3>1. Inserted(hash2, linear, p, hash2', linear')
      BY <2>1, <2>4
    <3> QED BY <3>1, <2>1, <2>2, InsertedReported
  <2>5. CASE r.chain = Tables(hash2, linear)
    <3>1. r.chain.hash2 = hash2 /\ r.chain.linear = linear
      BY ONLY <2>5 DEF Tables
    <3> QED BY <3>1, <2>1, UnchangedReported DEF tables
  <2> QED BY <2>3, <2>4, <2>5
<1>7. CASE PacketInHash
  <2>1. PICK p \in Packets, t \in 0 .. 1 :
           /\ Hash(t, flow_extract(p)) \in Buckets
           /\ Slot(hash2, t, Hash(t, flow_extract(p))) # NoFlow
           /\ hash2' = [hash2 EXCEPT
                ![t].buckets[Hash(t, flow_extract(p))].idle_age = 0]
    BY <1>7, PacketHashFacts
  <2> DEFINE b == Hash(t, flow_extract(p))
             g == [Slot(hash2, t, b) EXCEPT !.idle_age = 0]
  <2>2. Alike(Slot(hash2, t, b), g) /\ g \in GoodFlow /\ With(hash2', hash2, t, b, g)
    BY <2>1, <1>1, HashUsedOK
  <2> HIDE DEF b, g
  <2>3. \A u \in 0 .. 1, c \in Buckets : Slot(hash2, u, c) # NoFlow =>
          /\ Slot(hash2', u, c) # NoFlow
          /\ Alike(Slot(hash2, u, c), Slot(hash2', u, c))
    BY <2>2, FlowFacts DEF With, Alike
  <2>4. \A f \in HashFlows(hash2) : \E x \in HashFlows(hash2') : SameEntry(f, x)
    BY <2>3, HashKept
  <2>5. linear' = linear /\ sent' = {}
    BY <1>7 DEF PacketInHash
  <2> QED BY <2>4, <2>5, SameEntryReflexive, KeptReported
<1>8. CASE PacketInLinear
  <2>1. PICK i \in 1 .. Len(linear.flows) :
          linear' = [linear EXCEPT !.flows[i].idle_age = 0]
    BY <1>8, PacketLinearFacts
  <2> DEFINE g == [linear.flows[i] EXCEPT !.idle_age = 0]
  <2>2. /\ LinearOK(linear', FALSE) /\ Alike(linear.flows[i], g)
        /\ Len(linear'.flows) = Len(linear.flows)
        /\ \A j \in 1 .. Len(linear.flows) :
             linear'.flows[j] = IF j = i THEN g ELSE linear.flows[j]
    BY <2>1, <1>1, LinearUsedOK
  <2> HIDE DEF g
  <2>3. \A j \in 1 .. Len(linear.flows) : Alike(linear.flows[j], linear'.flows[j])
    BY <2>2 DEF Alike
  <2>4. \A f \in LinearFlows(linear) : \E x \in LinearFlows(linear') : SameEntry(f, x)
    BY <2>2, <2>3, <1>1, LinearKept
  <2>5. hash2' = hash2 /\ sent' = {}
    BY <1>8 DEF PacketInLinear
  <2> QED BY <2>4, <2>5, SameEntryReflexive, KeptReported
<1>9. CASE PacketMiss
  <2>1. UNCHANGED tables /\ \A n \in sent' : n.type # "FLOW_REMOVED"
    BY <1>9 DEF PacketMiss
  <2> QED BY <2>1, UnchangedReported
<1>10. CASE Tick
  <2>1. \A t \in 0 .. 1, b \in Buckets :
          Slot(hash2', t, b) = IF Slot(hash2, t, b) = NoFlow THEN NoFlow
                               ELSE Aged(Slot(hash2, t, b))
    BY <1>10, <1>1, HashAgedOK DEF Tick
  <2>2. ASSUME NEW t \in 0 .. 1, NEW b \in Buckets, Slot(hash2, t, b) # NoFlow
        PROVE  /\ Slot(hash2', t, b) # NoFlow
               /\ Alike(Slot(hash2, t, b), Slot(hash2', t, b))
    <3>1. Slot(hash2, t, b) \in GoodFlow
      BY <2>2, <1>1, SlotFacts
    <3>2. Slot(hash2', t, b) = Aged(Slot(hash2, t, b))
      BY <2>1, <2>2
    <3> QED BY <3>1, <3>2, AgedGood, FlowFacts
  <2>3. \A f \in HashFlows(hash2) : \E g \in HashFlows(hash2') : SameEntry(f, g)
    BY <2>2, HashKept
  <2>4. /\ LinearOK(linear', FALSE) /\ Len(linear'.flows) = Len(linear.flows)
        /\ \A i \in 1 .. Len(linear.flows) :
             linear'.flows[i] = Aged(linear.flows[i])
    BY <1>10, <1>1, LinearAgedOK DEF Tick
  <2>5. \A i \in 1 .. Len(linear.flows) : Alike(linear.flows[i], linear'.flows[i])
    BY <2>4, <1>1, LinearFacts, AgedGood
  <2>6. \A f \in LinearFlows(linear) : \E g \in LinearFlows(linear') : SameEntry(f, g)
    BY <2>4, <2>5, <1>1, LinearKept
  <2> QED BY <1>10, <2>3, <2>6, KeptReported DEF Tick
<1>11. CASE Timeout
  <2> DEFINE all == {f \in ChainFlows(Tables(hash2, linear)) : flow_timeout(f)}
  <2>1. sent' = dp_send_flow_end(all, FALSE)
    BY <1>11, ChainIs DEF Timeout
  <2>2. ChainFlows(Tables(hash2', linear')) =
          {f \in ChainFlows(Tables(hash2, linear)) : ~flow_timeout(f)}
    BY <1>11, <1>1, ChainTimeout DEF Timeout
  <2>3. /\ all \in SUBSET ChainFlows(Chain)
        /\ \A f \in ChainFlows(Chain) : f \notin all => f \in ChainFlows(Chain')
    BY <2>2, ChainIs
  <2> HIDE DEF all
  <2> QED BY <2>1, <2>3, LossReported
<1> QED
  BY <1>2, <1>3, <1>4, <1>5, <1>6, <1>7, <1>8, <1>9, <1>10, <1>11 DEF Next

(* THEOREM: in every step of every behaviour a flow with SEND_FLOW_REM that *)
(* leaves the working tables is named in a FLOW_REMOVED or replaced by the  *)
(* same entry, and a FLOW_REMOVED names only flows that were there.         *)
THEOREM NoSilentRemoval == Spec => RemovalsReported
<1>1. TableInv /\ [Next]_vars => [Reported]_vars
  BY StepReported
<1> QED BY <1>1, TableInvariant, PTL DEF Spec, RemovalsReported
-----------------------------------------------------------------------------
(* OVERLAPS *)

(* No packet matches two flows of one priority.                             *)
Apart(f, g) == f.priority = g.priority => ~flow_matches_2wild(f.key, g.key)

ApartInHash(h) ==
  \A t, u \in 0 .. 1 : \A b, c \in Buckets :
    /\ Slot(h, t, b) # NoFlow /\ Slot(h, u, c) # NoFlow
    /\ ~(t = u /\ b = c)
    => Apart(Slot(h, t, b), Slot(h, u, c))

ApartInLinear(l) ==
  \A i, j \in 1 .. Len(l.flows) : i # j => Apart(l.flows[i], l.flows[j])

AllApart(h, l) ==
  /\ ApartInHash(h)
  /\ \A f \in HashFlows(h), g \in LinearFlows(l) : Apart(f, g)
  /\ ApartInLinear(l)

(* A controller that always checks has no emergency flows.                  *)
OverlapInv ==
  AlwaysChecks => /\ emerg.flows = <<>> /\ copying = <<>>
                  /\ AllApart(hash2, linear)

LEMMA ApartSymmetric ==
  ASSUME NEW f, NEW g, Apart(f, g)
  PROVE  Apart(g, f)
BY DEF Apart, flow_matches_2wild, flow_fields_match

LEMMA ApartAlike ==
  ASSUME NEW f, NEW g, NEW x, NEW y, Alike(f, x), Alike(g, y), Apart(f, g)
  PROVE  Apart(x, y)
BY DEF Apart, Alike

LEMMA ApartNotSame ==
  ASSUME NEW f, NEW g, Apart(f, g)
  PROVE  ~SameEntry(f, g)
BY DEF Apart, SameEntry

(* CHECK_OVERLAP finds every flow in the working tables that overlaps.      *)
LEMMA NoConflict ==
  ASSUME TableInv, NEW f \in GoodFlow, ~chain_has_conflict(Chain, f.key, f.priority)
  PROVE  \A g \in ChainFlows(Chain) : Apart(g, f)
<1>1. HashOK(hash2) /\ LinearOK(linear, FALSE)
  BY DEF TableInv
<1>2. /\ \A t \in 0 .. 1, b \in Buckets :
           ~ /\ b \in Examined(t, f.key) /\ Slot(hash2, t, b) # NoFlow
             /\ flow_matches_2wild(Slot(hash2, t, b).key, f.key)
             /\ Slot(hash2, t, b).priority = f.priority
      /\ \A g \in LinearFlows(linear) :
           ~(flow_matches_2wild(g.key, f.key) /\ g.priority = f.priority)
  BY DEF chain_has_conflict, Chain, Slot
<1>3. ASSUME NEW g \in HashFlows(hash2) PROVE Apart(g, f)
  <2>1. PICK t \in 0 .. 1, b \in Buckets : Slot(hash2, t, b) = g /\ g # NoFlow
    BY HashFlowsFacts
  <2>2. g \in GoodFlow /\ g.key.wildcards = {} /\ b = Hash(t, g.key.flow)
    BY <2>1, <1>1, SlotFacts
  <2>3. CASE f.key.wildcards # {}
    <3>1. b \in Examined(t, f.key)
      BY <2>3 DEF Examined
    <3> QED BY <3>1, <2>1, <1>2 DEF Apart
  <2>4. CASE f.key.wildcards = {}
    <3> SUFFICES ASSUME g.priority = f.priority, flow_matches_2wild(g.key, f.key)
                 PROVE  FALSE
      BY DEF Apart
    <3>1. g.key.flow = f.key.flow
      BY <2>2, <2>4, ExactSameEntry
    <3>2. b \in Examined(t, f.key)
      BY <2>2, <2>4, <3>1 DEF Examined
    <3> QED BY <3>2, <2>1, <1>2
  <2> QED BY <2>3, <2>4
<1>4. ASSUME NEW g \in LinearFlows(linear) PROVE Apart(g, f)
  BY <1>2 DEF Apart
<1> QED BY <1>3, <1>4, ChainIs, ChainFlowsFacts

(* The tables new hold flows of the tables h, in their buckets, and of the  *)
(* list l, in its order.                                                    *)
HashFrom(h, new) ==
  \A t \in 0 .. 1, b \in Buckets :
    \/ Slot(new, t, b) = NoFlow
    \/ Slot(h, t, b) # NoFlow /\ Alike(Slot(h, t, b), Slot(new, t, b))

LinearFrom(l, new) ==
  \E e \in [1 .. Len(new.flows) -> 1 .. Len(l.flows)] :
    /\ \A i, j \in 1 .. Len(new.flows) : i < j => e[i] < e[j]
    /\ \A i \in 1 .. Len(new.flows) : Alike(l.flows[e[i]], new.flows[i])

LEMMA ApartKept ==
  ASSUME NEW h, NEW l, NEW newh, NEW newl, AllApart(h, l),
         LinearOK(l, FALSE), LinearOK(newl, FALSE),
         HashFrom(h, newh), LinearFrom(l, newl)
  PROVE  AllApart(newh, newl)
<1>1. ApartInHash(newh)
  <2> SUFFICES ASSUME NEW t \in 0 .. 1, NEW u \in 0 .. 1,
                      NEW b \in Buckets, NEW c \in Buckets,
                      Slot(newh, t, b) # NoFlow, Slot(newh, u, c) # NoFlow,
                      ~(t = u /\ b = c)
               PROVE  Apart(Slot(newh, t, b), Slot(newh, u, c))
    BY DEF ApartInHash
  <2>1. /\ Slot(h, t, b) # NoFlow /\ Alike(Slot(h, t, b), Slot(newh, t, b))
        /\ Slot(h, u, c) # NoFlow /\ Alike(Slot(h, u, c), Slot(newh, u, c))
    BY DEF HashFrom
  <2>2. Apart(Slot(h, t, b), Slot(h, u, c))
    BY <2>1 DEF AllApart, ApartInHash
  <2> QED BY <2>1, <2>2, ApartAlike
<1>2. PICK e \in [1 .. Len(newl.flows) -> 1 .. Len(l.flows)] :
        /\ \A i, j \in 1 .. Len(newl.flows) : i < j => e[i] < e[j]
        /\ \A i \in 1 .. Len(newl.flows) : Alike(l.flows[e[i]], newl.flows[i])
  BY DEF LinearFrom
<1>3. Len(newl.flows) \in Nat /\ Len(l.flows) \in Nat
  BY LinearFacts
<1>4. ApartInLinear(newl)
  <2> SUFFICES ASSUME NEW i \in 1 .. Len(newl.flows), NEW j \in 1 .. Len(newl.flows),
                      i # j
               PROVE  Apart(newl.flows[i], newl.flows[j])
    BY DEF ApartInLinear
  <2>1. i < j \/ j < i
    BY <1>3
  <2>2. e[i] \in 1 .. Len(l.flows) /\ e[j] \in 1 .. Len(l.flows)
    OBVIOUS
  <2>3. e[i] < e[j] \/ e[j] < e[i]
    BY <2>1, <1>2
  <2>4. e[i] # e[j]
    BY <2>2, <2>3
  <2>5. Apart(l.flows[e[i]], l.flows[e[j]])
    BY <2>2, <2>4 DEF AllApart, ApartInLinear
  <2> QED BY <2>5, <1>2, ApartAlike
<1>5. ASSUME NEW f \in HashFlows(newh), NEW g \in LinearFlows(newl)
      PROVE  Apart(f, g)
  <2>1. PICK t \in 0 .. 1, b \in Buckets : Slot(newh, t, b) = f /\ f # NoFlow
    BY HashFlowsFacts
  <2>2. Slot(h, t, b) \in HashFlows(h) /\ Alike(Slot(h, t, b), f)
    BY <2>1, HashFlowsFacts DEF HashFrom
  <2>3. PICK i \in 1 .. Len(newl.flows) : newl.flows[i] = g
    BY LinearFacts
  <2>4. e[i] \in 1 .. Len(l.flows)
    OBVIOUS
  <2>5. l.flows[e[i]] \in LinearFlows(l) /\ Alike(l.flows[e[i]], g)
    BY <2>3, <2>4, <1>2, LinearFacts
  <2>6. Apart(Slot(h, t, b), l.flows[e[i]])
    BY <2>2, <2>5 DEF AllApart
  <2> QED BY <2>2, <2>5, <2>6, ApartAlike
<1> QED BY <1>1, <1>4, <1>5 DEF AllApart

(* A flow that is apart from all others.                                    *)
LEMMA ApartInserted ==
  ASSUME NEW h, NEW l, NEW newh, NEW newl, HashOK(h), LinearOK(l, FALSE),
         AllApart(h, l), NEW f \in GoodFlow, f.emerg_flow = FALSE,
         \A g \in ChainFlows(Tables(h, l)) : Apart(g, f),
         Inserted(h, l, f, newh, newl)
  PROVE  AllApart(newh, newl)
<1>1. /\ \A g \in HashFlows(h) : Apart(g, f) /\ Apart(f, g)
      /\ \A g \in LinearFlows(l) : Apart(g, f) /\ Apart(f, g)
  BY ChainFlowsFacts, ApartSymmetric
<1>2. ASSUME NEW t \in 0 .. 1, HashAccepts(h, t, f), newh = HashPut(h, t, f), newl = l
      PROVE  AllApart(newh, newl)
  <2> DEFINE b == Hash(t, f.key.flow)
  <2>1. f.key.wildcards = {}
    BY <1>2, HashAcceptsFacts
  <2>2. HashOK(newh) /\ With(newh, h, t, b, f) /\ b \in Buckets
    BY <2>1, <1>2, HashPutOK
  <2> HIDE DEF b
  <2>3. ApartInHash(newh)
    <3> SUFFICES ASSUME NEW u \in 0 .. 1, NEW v \in 0 .. 1,
                        NEW c \in Buckets, NEW d \in Buckets,
                        Slot(newh, u, c) # NoFlow, Slot(newh, v, d) # NoFlow,
                        ~(u = v /\ c = d)
                 PROVE  Apart(Slot(newh, u, c), Slot(newh, v, d))
      BY DEF ApartInHash
    <3>1. /\ Slot(newh, u, c) = IF u = t /\ c = b THEN f ELSE Slot(h, u, c)
          /\ Slot(newh, v, d) = IF v = t /\ d = b THEN f ELSE Slot(h, v, d)
      BY <2>2 DEF With
    <3>2. CASE u = t /\ c = b
      <4>1. Slot(newh, u, c) = f /\ Slot(newh, v, d) = Slot(h, v, d)
        BY <3>1, <3>2
      <4>2. Slot(h, v, d) \in HashFlows(h)
        BY <4>1, HashFlowsFacts
      <4> QED BY <4>1, <4>2, <1>1
    <3>3. CASE v = t /\ d = b
      <4>1. Slot(newh, v, d) = f /\ Slot(newh, u, c) = Slot(h, u, c)
        BY <3>1, <3>3
      <4>2. Slot(h, u, c) \in HashFlows(h)
        BY <4>1, HashFlowsFacts
      <4> QED BY <4>1, <4>2, <1>1
    <3>4. CASE ~(u = t /\ c = b) /\ ~(v = t /\ d = b)
      BY <3>1, <3>4 DEF AllApart, ApartInHash
    <3> QED BY <3>2, <3>3, <3>4
  <2>4. ASSUME NEW x \in HashFlows(newh), NEW g \in LinearFlows(newl)
        PROVE  Apart(x, g)
    <3>1. PICK u \in 0 .. 1, c \in Buckets : Slot(newh, u, c) = x /\ x # NoFlow
      BY HashFlowsFacts
    <3>2. x = f \/ x = Slot(h, u, c)
      BY <3>1, <2>2 DEF With
    <3>3. x = f \/ x \in HashFlows(h)
      BY <3>1, <3>2, HashFlowsFacts
    <3> QED BY <3>3, <1>1, <1>2 DEF AllApart
  <2>5. ApartInLinear(newl)
    BY <1>2 DEF AllApart
  <2> QED BY <2>3, <2>4, <2>5 DEF AllApart
<1>3. ASSUME newh = h, newl = table_linear_insert(l, f)
      PROVE  AllApart(newh, newl)
  <2> DEFINE i == InsertionPoint(l, f)
             n == Len(l.flows)
  <2>1. n \in Nat /\ \A k \in 1 .. n : l.flows[k] \in LinearFlows(l)
    BY LinearFacts
  <2>2. ~Replaces(l, f)
    <3> SUFFICES ASSUME Replaces(l, f) PROVE FALSE
      OBVIOUS
    <3>1. i \in 1 .. n /\ SameEntry(l.flows[i], f)
      BY LinearReplace
    <3> HIDE DEF i
    <3> QED BY <3>1, <2>1, <1>1, ApartNotSame
  <2>3. /\ i \in 1 .. n + 1 /\ Len(newl.flows) = n + 1
        /\ \A k \in 1 .. n + 1 :
             newl.flows[k] = IF k < i THEN l.flows[k]
                             ELSE IF k = i THEN f ELSE l.flows[k - 1]
        /\ LinearFlows(newl) = LinearFlows(l) \cup {f}
    <3>1. OneMore(newl, l, i, f) /\ LinearFlows(newl) = LinearFlows(l) \cup {f}
      BY <2>2, <1>3, LinearAppend
    <3> HIDE DEF i
    <3> QED BY <3>1 DEF OneMore
  <2> HIDE DEF i
  <2>4. ApartInLinear(newl)
    <3> SUFFICES ASSUME NEW j \in 1 .. n + 1, NEW k \in 1 .. n + 1, j # k
                 PROVE  Apart(newl.flows[j], newl.flows[k])
      BY <2>3 DEF ApartInLinear
    <3> DEFINE old(x) == IF x < i THEN x ELSE x - 1
    <3>1. \A x \in 1 .. n + 1 : x # i =>
            old(x) \in 1 .. n /\ newl.flows[x] = l.flows[old(x)]
      BY <2>1, <2>3
    <3>2. newl.flows[i] = f
      BY <2>3
    <3>3. CASE j = i
      <4>1. newl.flows[k] \in LinearFlows(l)
        BY <3>1, <3>3, <2>1
      <4> QED BY <4>1, <3>2, <3>3, <1>1
    <3>4. CASE k = i
      <4>1. newl.flows[j] \in LinearFlows(l)
        BY <3>1, <3>4, <2>1
      <4> QED BY <4>1, <3>2, <3>4, <1>1
    <3>5. CASE j # i /\ k # i
      <4>1. old(j) # old(k)
        BY <3>5, <2>1, <2>3
      <4> HIDE DEF old
      <4>2. old(j) \in 1 .. n /\ old(k) \in 1 .. n
        BY <3>1, <3>5
      <4>3. Apart(l.flows[old(j)], l.flows[old(k)])
        BY <4>1, <4>2 DEF AllApart, ApartInLinear
      <4> QED BY <4>3, <3>1, <3>5
    <3> QED BY <3>3, <3>4, <3>5
  <2> QED BY <2>3, <2>4, <1>1, <1>3 DEF AllApart
<1> QED BY <1>2, <1>3 DEF Inserted

LEMMA Itself == ASSUME NEW f PROVE Alike(f, f)
BY DEF Alike

LEMMA SameFrom ==
  ASSUME NEW l, LinearOK(l, FALSE)
  PROVE  LinearFrom(l, l)
<1> DEFINE e == [i \in 1 .. Len(l.flows) |-> i]
<1>1. e \in [1 .. Len(l.flows) -> 1 .. Len(l.flows)]
  OBVIOUS
<1>2. \A i \in 1 .. Len(l.flows) : e[i] = i
  OBVIOUS
<1> HIDE DEF e
<1> QED BY <1>1, <1>2, Itself DEF LinearFrom

LEMMA AlikeFrom ==
  ASSUME NEW l, NEW new, Len(new.flows) = Len(l.flows),
         \A i \in 1 .. Len(l.flows) : Alike(l.flows[i], new.flows[i])
  PROVE  LinearFrom(l, new)
<1> DEFINE e == [i \in 1 .. Len(l.flows) |-> i]
<1>1. e \in [1 .. Len(l.flows) -> 1 .. Len(l.flows)]
  OBVIOUS
<1>2. \A i \in 1 .. Len(l.flows) : e[i] = i
  OBVIOUS
<1> HIDE DEF e
<1> QED BY <1>1, <1>2 DEF LinearFrom

LEMMA RemoveFrom ==
  ASSUME NEW l, LinearOK(l, FALSE), NEW gone
  PROVE  LinearFrom(l, LinearRemove(l, gone))
<1> DEFINE s == l.flows
           t == Without(s, gone)
           new == LinearRemove(l, gone)
<1>1. s \in Seq(GoodFlow)
  BY LinearFacts
<1>2. Picked(t, s, Kept(s, gone))
  <2> HIDE DEF s
  <2> QED BY <1>1, WithoutFacts
<1>3. new.flows = t
  BY DEF LinearRemove
<1> HIDE DEF t, new
<1>4. PICK e \in [1 .. Len(t) -> Kept(s, gone)] :
        /\ \A i, j \in 1 .. Len(t) : i < j => e[i] < e[j]
        /\ \A i \in 1 .. Len(t) : t[i] = s[e[i]]
  BY <1>2 DEF Picked
<1>5. e \in [1 .. Len(t) -> 1 .. Len(s)]
  <2>1. Kept(s, gone) \subseteq 1 .. Len(s)
    BY DEF Kept
  <2> HIDE DEF s
  <2> QED BY <2>1
<1>6. \A i \in 1 .. Len(t) : Alike(s[e[i]], t[i])
  BY <1>4, Itself
<1>7. LinearFrom(l, new)
  BY <1>3, <1>4, <1>5, <1>6 DEF LinearFrom
<1> QED BY <1>7 DEF new

LEMMA EmptyRemoved ==
  ASSUME NEW e, LinearOK(emerg, e), emerg.flows = <<>>
  PROVE  /\ emerg.iter_flows = <<>>
         /\ \A gone \in SUBSET LinearFlows(emerg) :
              LinearRemove(emerg, gone).flows = <<>>
<1>1. LinearFlows(emerg) = {}
  BY DEF LinearFlows, ToSet
<1>2. emerg.iter_flows \in Seq([key : Keys, priority : 0 .. HIGHEST])
  BY DEF LinearOK, LinearTable
<1>3. emerg.iter_flows = <<>>
  <2> SUFFICES ASSUME emerg.iter_flows # <<>> PROVE FALSE
    OBVIOUS
  <2>1. 1 \in 1 .. Len(emerg.iter_flows)
    BY <1>2
  <2> QED BY <2>1, <1>1 DEF LinearOK
<1>4. ASSUME NEW gone \in SUBSET LinearFlows(emerg)
      PROVE  LinearRemove(emerg, gone).flows = <<>>
  <2> DEFINE new == LinearRemove(emerg, gone)
  <2>1. LinearOK(new, e) /\ LinearFlows(new) = LinearFlows(emerg) \ gone
    BY LinearRemoveOK
  <2> HIDE DEF new
  <2>2. new.flows \in Seq(GoodFlow)
    BY <2>1, LinearFacts
  <2>3. ~ \E i \in 1 .. Len(new.flows) : TRUE
    BY <2>1, <1>1, LinearFacts
  <2>4. Len(new.flows) \in Nat
    BY <2>2
  <2>5. Len(new.flows) = 0
    <3> SUFFICES ASSUME Len(new.flows) # 0 PROVE FALSE
      OBVIOUS
    <3>1. 1 \in 1 .. Len(new.flows)
      BY <2>4
    <3> QED BY <3>1, <2>3
  <2> QED BY <2>2, <2>5 DEF new
<1> QED BY <1>3, <1>4

LEMMA HashRemoveFrom ==
  ASSUME NEW h, HashOK(h), NEW gone, \A t \in 0 .. 1 : gone[t] \in SUBSET Buckets
  PROVE  HashFrom(h, HashRemove(h, gone))
<1> DEFINE new == HashRemove(h, gone)
<1>1. \A t \in 0 .. 1, b \in Buckets :
        Slot(new, t, b) = IF b \in gone[t] THEN NoFlow ELSE Slot(h, t, b)
  BY HashRemoveOK
<1> HIDE DEF new
<1>2. HashFrom(h, new)
  <2> SUFFICES ASSUME NEW t \in 0 .. 1, NEW b \in Buckets, Slot(new, t, b) # NoFlow
               PROVE  /\ Slot(h, t, b) # NoFlow
                      /\ Alike(Slot(h, t, b), Slot(new, t, b))
    BY DEF HashFrom
  <2>1. Slot(new, t, b) = Slot(h, t, b)
    BY <1>1
  <2> QED BY <2>1, Itself
<1> QED BY <1>2 DEF new

LEMMA DeleteFrom ==
  ASSUME NEW h, NEW l, HashOK(h), LinearOK(l, FALSE), NEW d, Proper(d)
  PROVE  /\ HashFrom(h, chain_delete(Tables(h, l), d).hash2)
         /\ LinearFrom(l, chain_delete(Tables(h, l), d).linear)
<1> DEFINE gone == [t \in 0 .. 1 |-> HashSelected(h, t, d)]
           goneLinear == {f \in LinearFlows(l) : Selects(d, f)}
<1>1. /\ chain_delete(Tables(h, l), d).hash2 = HashRemove(h, gone)
      /\ chain_delete(Tables(h, l), d).linear = LinearRemove(l, goneLinear)
  BY DEF chain_delete, Tables
<1>2. \A t \in 0 .. 1 : gone[t] \in SUBSET Buckets
  BY HashSelectedFacts
<1> HIDE DEF gone, goneLinear
<1> QED BY <1>1, <1>2, HashRemoveFrom, RemoveFrom

LEMMA OverlapInit == Init => OverlapInv
<1> SUFFICES ASSUME Init PROVE OverlapInv
  OBVIOUS
<1>1. linear = EmptyLinear /\ emerg = EmptyLinear /\ copying = <<>>
  BY DEF Init
<1>2. hash2 = [t \in 0 .. 1 |->
                [buckets |-> [b \in Buckets |-> NoFlow], n_flows |-> 0]]
  BY DEF Init, Buckets
<1>3. \A t \in 0 .. 1, b \in Buckets : Slot(hash2, t, b) = NoFlow
  BY <1>2 DEF Slot
<1>4. LinearFlows(linear) = {} /\ Len(linear.flows) = 0 /\ emerg.flows = <<>>
  BY <1>1, EmptyLinearOK DEF EmptyLinear
<1>5. AllApart(hash2, linear)
  BY <1>3, <1>4 DEF AllApart, ApartInHash, ApartInLinear
<1> QED BY <1>1, <1>4, <1>5 DEF OverlapInv

(* Only add_flow, mod_flow and do_protection bring a new entry.             *)
LEMMA NothingNew ==
  ASSUME TableInv, TableInv',
         \/ DeleteFlows \/ EmergProtection
         \/ PacketInHash \/ PacketInLinear \/ PacketMiss
         \/ Tick \/ Timeout \/ UNCHANGED tables
  PROVE  HashFrom(hash2, hash2') /\ LinearFrom(linear, linear')
<1>1. HashOK(hash2) /\ LinearOK(linear, FALSE) /\ LinearOK(linear', FALSE)
  BY DEF TableInv
<1>2. LinearFrom(linear, linear) /\ HashFrom(hash2, hash2)
  BY <1>1, SameFrom, Itself DEF HashFrom
<1>3. CASE DeleteFlows
  <2>1. PICK m \in FlowMods :
           LET d == Request(m, m.command = "DELETE_STRICT", m.out_port)
               r == chain_delete(Tables(hash2, linear), d)
           IN  /\ Proper(d)
               /\ \/ UNCHANGED tables
                  \/ hash2' = r.hash2 /\ linear' = r.linear
    BY <1>3, DeleteFacts
  <2> DEFINE d == Request(m, m.command = "DELETE_STRICT", m.out_port)
             r == chain_delete(Tables(hash2, linear), d)
  <2>2. CASE UNCHANGED tables
    BY <2>2, <1>2 DEF tables
  <2>3. CASE hash2' = r.hash2 /\ linear' = r.linear
    <3>1. Proper(d)
      BY <2>1
    <3> HIDE DEF d
    <3>2. HashFrom(hash2, r.hash2) /\ LinearFrom(linear, r.linear)
      BY <3>1, <1>1, DeleteFrom
    <3> HIDE DEF r
    <3> QED BY <3>2, <2>3
  <2> QED BY <2>1, <2>2, <2>3
<1>4. CASE EmergProtection
  <2> DEFINE r == chain_delete(Tables(hash2, linear), Everything)
  <2>1. hash2' = r.hash2 /\ linear' = r.linear
    BY <1>4, ChainIs DEF EmergProtection, Working
  <2>2. Proper(Everything)
    BY EverythingFacts
  <2>3. HashFrom(hash2, r.hash2) /\ LinearFrom(linear, r.linear)
    BY <2>2, <1>1, DeleteFrom
  <2> HIDE DEF r
  <2> QED BY <2>1, <2>3
<1>5. CASE PacketInHash
  <2>1. PICK p \in Packets, t \in 0 .. 1 :
           /\ Hash(t, flow_extract(p)) \in Buckets
           /\ Slot(hash2, t, Hash(t, flow_extract(p))) # NoFlow
           /\ hash2' = [hash2 EXCEPT
                ![t].buckets[Hash(t, flow_extract(p))].idle_age = 0]
    BY <1>5, PacketHashFacts
  <2> DEFINE b == Hash(t, flow_extract(p))
             g == [Slot(hash2, t, b) EXCEPT !.idle_age = 0]
  <2>2. Alike(Slot(hash2, t, b), g) /\ With(hash2', hash2, t, b, g)
    BY <2>1, <1>1, HashUsedOK
  <2>3. Slot(hash2, t, b) # NoFlow
    BY <2>1
  <2> HIDE DEF b, g
  <2>4. HashFrom(hash2, hash2')
    BY <2>2, <2>3, Itself DEF With, HashFrom
  <2> QED BY <2>4, <1>2, <1>5 DEF PacketInHash
<1>6. CASE PacketInLinear
  <2>1. PICK i \in 1 .. Len(linear.flows) :
          linear' = [linear EXCEPT !.flows[i].idle_age = 0]
    BY <1>6, PacketLinearFacts
  <2> DEFINE g == [linear.flows[i] EXCEPT !.idle_age = 0]
  <2>2. /\ Alike(linear.flows[i], g)
        /\ Len(linear'.flows) = Len(linear.flows)
        /\ \A j \in 1 .. Len(linear.flows) :
             linear'.flows[j] = IF j = i THEN g ELSE linear.flows[j]
    BY <2>1, <1>1, LinearUsedOK
  <2> HIDE DEF g
  <2>3. \A j \in 1 .. Len(linear.flows) : Alike(linear.flows[j], linear'.flows[j])
    BY <2>2, Itself
  <2>4. LinearFrom(linear, linear')
    BY <2>2, <2>3, AlikeFrom
  <2> QED BY <2>4, <1>2, <1>6 DEF PacketInLinear
<1>7. CASE PacketMiss \/ UNCHANGED tables
  BY <1>7, <1>2 DEF PacketMiss, tables
<1>8. CASE Tick
  <2>1. \A t \in 0 .. 1, b \in Buckets :
          Slot(hash2', t, b) = IF Slot(hash2, t, b) = NoFlow THEN NoFlow
                               ELSE Aged(Slot(hash2, t, b))
    BY <1>8, <1>1, HashAgedOK DEF Tick
  <2>2. HashFrom(hash2, hash2')
    <3> SUFFICES ASSUME NEW t \in 0 .. 1, NEW b \in Buckets,
                        Slot(hash2', t, b) # NoFlow
                 PROVE  /\ Slot(hash2, t, b) # NoFlow
                        /\ Alike(Slot(hash2, t, b), Slot(hash2', t, b))
      BY DEF HashFrom
    <3>1. Slot(hash2, t, b) # NoFlow /\ Slot(hash2', t, b) = Aged(Slot(hash2, t, b))
      BY <2>1
    <3>2. Slot(hash2, t, b) \in GoodFlow
      BY <3>1, <1>1, SlotFacts
    <3> QED BY <3>1, <3>2, AgedGood
  <2>3. /\ Len(linear'.flows) = Len(linear.flows)
        /\ \A i \in 1 .. Len(linear.flows) :
             linear'.flows[i] = Aged(linear.flows[i])
    BY <1>8, <1>1, LinearAgedOK DEF Tick
  <2>4. \A i \in 1 .. Len(linear.flows) : Alike(linear.flows[i], linear'.flows[i])
    BY <2>3, <1>1, LinearFacts, AgedGood
  <2>5. LinearFrom(linear, linear')
    BY <2>3, <2>4, AlikeFrom
  <2> QED BY <2>2, <2>5
<1>9. CASE Timeout
  <2>1. \A t \in 0 .. 1, b \in Buckets :
          Slot(hash2', t, b) =
            IF Slot(hash2, t, b) # NoFlow /\ flow_timeout(Slot(hash2, t, b))
            THEN NoFlow ELSE Slot(hash2, t, b)
    BY <1>9, <1>1, ChainTimeout DEF Timeout
  <2>2. HashFrom(hash2, hash2')
    BY <2>1, Itself DEF HashFrom
  <2>3. linear' = LinearRemove(linear, {f \in LinearFlows(linear) : flow_timeout(f)})
    BY <1>9 DEF Timeout
  <2>4. LinearFrom(linear, linear')
    BY <2>3, <1>1, RemoveFrom
  <2> QED BY <2>2, <2>4
<1> QED
  BY <1>3, <1>4, <1>5, <1>6, <1>7, <1>8, <1>9

LEMMA OverlapNext == TableInv /\ TableInv' /\ OverlapInv /\ [Next]_vars => OverlapInv'
<1> SUFFICES ASSUME TableInv, TableInv', OverlapInv, [Next]_vars, AlwaysChecks'
             PROVE  /\ emerg'.flows = <<>> /\ copying' = <<>>
                    /\ AllApart(hash2', linear')
  BY DEF OverlapInv
<1>1. FlowMods' = FlowMods
  BY DEF Next, vars, AddFlow, ModFlow, DeleteFlows, EmergProtection, CopyEmergFlow,
         PacketInHash, PacketInLinear, PacketMiss, Tick, Timeout
<1>2. AlwaysChecks
  BY <1>1 DEF AlwaysChecks
<1>3. emerg.flows = <<>> /\ copying = <<>> /\ AllApart(hash2, linear)
  BY <1>2 DEF OverlapInv
<1>4. /\ HashOK(hash2) /\ LinearOK(linear, FALSE) /\ LinearOK(emerg, TRUE)
      /\ LinearOK(linear', FALSE)
  BY DEF TableInv
<1>5. ASSUME UNCHANGED <<tables, emerg, copying>>
      PROVE  /\ emerg'.flows = <<>> /\ copying' = <<>>
             /\ AllApart(hash2', linear')
  BY <1>3, <1>5 DEF tables
<1>6. ASSUME \/ DeleteFlows \/ EmergProtection \/ PacketInHash \/ PacketInLinear
             \/ Tick \/ Timeout
      PROVE  AllApart(hash2', linear')
  <2>1. HashFrom(hash2, hash2') /\ LinearFrom(linear, linear')
    BY <1>6, NothingNew
  <2> QED BY <2>1, <1>3, <1>4, ApartKept
<1>7. CASE PacketMiss \/ UNCHANGED vars
  BY <1>5, <1>7 DEF PacketMiss, vars, tables
<1>8. CASE AddFlow
  <2>1. PICK m \in FlowMods :
           /\ m \in UNION Controllers /\ m.command = "ADD"
           /\ NewFlow(m) \in GoodFlow
           /\ \/ UNCHANGED <<tables, emerg>>
              \/ ~Overlaps(m, NewFlow(m)) /\ Insert(NewFlow(m))
    BY <1>8, AddFacts
  <2> DEFINE f == NewFlow(m)
  <2>2. UNCHANGED copying
    BY <1>8 DEF AddFlow
  <2>3. CASE UNCHANGED <<tables, emerg>>
    BY <2>2, <2>3, <1>5
  <2>4. CASE ~Overlaps(m, f) /\ Insert(f)
    <3>1. "CHECK_OVERLAP" \in m.flags /\ ~Emerg(m)
      BY <2>1, <1>2 DEF AlwaysChecks
    <3>2. f.emerg_flow = FALSE
      <4>1. f.emerg_flow = Emerg(m)
        BY <2>1, NewFlowGood
      <4>2. Emerg(m) \in BOOLEAN
        BY DEF Emerg
      <4> QED BY <4>1, <4>2, <3>1
    <3>3. \A g \in ChainFlows(Chain) : Apart(g, f)
      BY <2>1, <2>4, <3>1, NoConflict DEF Overlaps
    <3> HIDE DEF f
    <3>4. \/ UNCHANGED emerg /\ Inserted(hash2, linear, f, hash2', linear')
          \/ UNCHANGED <<tables, emerg>>
      BY <2>1, <2>4, <3>2, InsertFacts DEF f
    <3>5. CASE UNCHANGED emerg /\ Inserted(hash2, linear, f, hash2', linear')
      <4>1. f \in GoodFlow
        BY <2>1 DEF f
      <4>2. \A g \in ChainFlows(Tables(hash2, linear)) : Apart(g, f)
        BY <3>3, ChainIs
      <4>3. AllApart(hash2', linear')
        BY <4>1, <4>2, <3>2, <3>5, <1>3, <1>4, ApartInserted
      <4> QED BY <4>3, <3>5, <2>2, <1>3
    <3>6. CASE UNCHANGED <<tables, emerg>>
      BY <2>2, <3>6, <1>5
    <3> QED BY <3>4, <3>5, <3>6
  <2> QED BY <2>1, <2>3, <2>4
<1>9. CASE ModFlow
  <2>1. PICK m \in FlowMods : m.command \in {"MODIFY", "MODIFY_STRICT"}
    BY <1>9 DEF ModFlow
  <2> QED BY <2>1, <1>2 DEF AlwaysChecks
<1>10. CASE DeleteFlows
  <2>1. PICK m \in FlowMods :
           LET d == Request(m, m.command = "DELETE_STRICT", m.out_port)
               gone == {g \in LinearFlows(emerg) : Selects(d, g)}
           IN  emerg' = LinearRemove(emerg, gone) \/ UNCHANGED emerg
    BY <1>10, DeleteFacts
  <2> DEFINE d == Request(m, m.command = "DELETE_STRICT", m.out_port)
             gone == {g \in LinearFlows(emerg) : Selects(d, g)}
  <2>2. gone \in SUBSET LinearFlows(emerg)
    OBVIOUS
  <2>3. emerg' = LinearRemove(emerg, gone) \/ UNCHANGED emerg
    BY <2>1
  <2> HIDE DEF gone
  <2>4. emerg'.flows = <<>>
    BY <2>2, <2>3, <1>3, <1>4, EmptyRemoved
  <2>5. copying' = <<>>
    BY <1>10, <1>3 DEF DeleteFlows
  <2> QED BY <2>4, <2>5, <1>6, <1>10
<1>11. CASE EmergProtection
  <2>1. copying' = emerg.iter_flows /\ emerg' = emerg
    BY <1>11 DEF EmergProtection
  <2>2. copying' = <<>>
    BY <2>1, <1>3, <1>4, EmptyRemoved
  <2> QED BY <2>1, <2>2, <1>3, <1>6, <1>11
<1>12. CASE CopyEmergFlow
  BY <1>12, <1>3 DEF CopyEmergFlow, Idle
<1>13. CASE PacketInHash \/ PacketInLinear \/ Tick \/ Timeout
  <2>1. UNCHANGED <<emerg, copying>>
    BY <1>13 DEF PacketInHash, PacketInLinear, Tick, Timeout
  <2> QED BY <2>1, <1>3, <1>6, <1>13
<1> QED
  BY <1>7, <1>8, <1>9, <1>10, <1>11, <1>12, <1>13 DEF Next

(* The places of the flows, apart.                                          *)
LEMMA PlacesApart == TableInv /\ OverlapInv => NoOverlap
<1> SUFFICES ASSUME TableInv, OverlapInv, AlwaysChecks,
                    NEW p \in Places, NEW q \in Places, p # q
             PROVE  Apart(At(p), At(q))
  BY DEF NoOverlap, Apart
<1>1. AllApart(hash2, linear) /\ LinearOK(linear, FALSE)
  BY DEF OverlapInv, TableInv
<1> DEFINE InHash(x) == /\ x \in (0 .. 1) \X Buckets
                        /\ At(x) = Slot(hash2, x[1], x[2])
                        /\ At(x) # NoFlow
           InList(x) == \E i \in 1 .. Len(linear.flows) :
                          x = <<2, i>> /\ At(x) = linear.flows[i]
<1>2. ASSUME NEW x \in Places PROVE InHash(x) \/ InList(x)
  <2>1. CASE x \in (0 .. 1) \X Buckets /\ hash2[x[1]].buckets[x[2]] # NoFlow
    <3>1. x[1] # 2
      BY <2>1
    <3>2. At(x) = Slot(hash2, x[1], x[2])
      BY <3>1 DEF At, Slot
    <3> QED BY <2>1, <3>2 DEF Slot
  <2>2. ASSUME NEW i \in 1 .. Len(linear.flows), x = <<2, i>> PROVE InList(x)
    <3>1. At(x) = linear.flows[i]
      BY <2>2 DEF At
    <3> QED BY <2>2, <3>1
  <2> QED BY <2>1, <2>2 DEF Places
<1>3. \A x : InHash(x) => /\ x[1] \in 0 .. 1 /\ x[2] \in Buckets
                          /\ x = <<x[1], x[2]>>
                          /\ At(x) \in HashFlows(hash2)
  BY HashFlowsFacts
<1>4. \A x : InList(x) => At(x) \in LinearFlows(linear)
  BY <1>1, LinearFacts
<1>5. CASE InHash(p) /\ InHash(q)
  <2>1. ~(p[1] = q[1] /\ p[2] = q[2])
    BY <1>3, <1>5
  <2> QED BY <2>1, <1>1, <1>3, <1>5 DEF AllApart, ApartInHash
<1>6. CASE InHash(p) /\ InList(q)
  BY <1>1, <1>3, <1>4, <1>6 DEF AllApart
<1>7. CASE InList(p) /\ InHash(q)
  <2>1. Apart(At(q), At(p))
    BY <1>1, <1>3, <1>4, <1>7 DEF AllApart
  <2> QED BY <2>1, ApartSymmetric
<1>8. CASE InList(p) /\ InList(q)
  <2>1. PICK i \in 1 .. Len(linear.flows) : p = <<2, i>> /\ At(p) = linear.flows[i]
    BY <1>8
  <2>2. PICK j \in 1 .. Len(linear.flows) : q = <<2, j>> /\ At(q) = linear.flows[j]
    BY <1>8
  <2>3. i # j
    BY <2>1, <2>2
  <2> QED BY <2>1, <2>2, <2>3, <1>1 DEF AllApart, ApartInLinear
<1> HIDE DEF InHash, InList
<1> QED BY <1>2, <1>5, <1>6, <1>7, <1>8

(* THEOREM: a controller that only adds flows with CHECK_OVERLAP, and no    *)
(* emergency flows, never gets a table in which a packet can match two      *)
(* flows of one priority, wherever collisions put them.                     *)
THEOREM ChecksSuffice == Spec => []NoOverlap
<1>1. Init => OverlapInv
  BY OverlapInit
<1>2. TableInv /\ TableInv' /\ OverlapInv /\ [Next]_vars => OverlapInv'
  BY OverlapNext
<1>3. TableInv /\ OverlapInv => NoOverlap
  BY PlacesApart
<1> QED BY <1>1, <1>2, <1>3, TableInvariant, PTL DEF Spec

-----------------------------------------------------------------------------
(* The tables implement one set of entries.                                 *)

(* Without collisions and without the emergency table every exact flow is   *)
(* in the first subtable and every other one in the linear table.           *)
SplitInv ==
  /\ copying = <<>>
  /\ \A b \in Buckets : Slot(hash2, 1, b) = NoFlow
  /\ \A f \in LinearFlows(linear) : f.key.wildcards # {}

Split(h, l) ==
  /\ \A b \in Buckets : Slot(h, 1, b) = NoFlow
  /\ \A f \in LinearFlows(l) : f.key.wildcards # {}

LEMMA SplitIs == /\ SplitInv <=> copying = <<>> /\ Split(hash2, linear)
                 /\ SplitInv' <=> copying' = <<>> /\ Split(hash2', linear')
<1>1. SplitInv <=> copying = <<>> /\ Split(hash2, linear)
  BY DEF SplitInv, Split
<1>2. SplitInv' <=> copying' = <<>> /\ Split(hash2', linear')
  BY DEF SplitInv, Split, LinearFlows, Slot, Buckets
<1> QED BY <1>1, <1>2

LEMMA SplitKept ==
  ASSUME NEW h, NEW l, NEW newh, NEW newl, LinearOK(l, FALSE), LinearOK(newl, FALSE),
         Split(h, l), HashFrom(h, newh), LinearFrom(l, newl)
  PROVE  Split(newh, newl)
<1>1. \A b \in Buckets : Slot(newh, 1, b) = NoFlow
  <2>1. 1 \in 0 .. 1
    OBVIOUS
  <2> QED BY <2>1 DEF Split, HashFrom
<1>2. ASSUME NEW f \in LinearFlows(newl) PROVE f.key.wildcards # {}
  <2>1. PICK e \in [1 .. Len(newl.flows) -> 1 .. Len(l.flows)] :
          \A i \in 1 .. Len(newl.flows) : Alike(l.flows[e[i]], newl.flows[i])
    BY DEF LinearFrom
  <2>2. PICK i \in 1 .. Len(newl.flows) : newl.flows[i] = f
    BY <1>2, LinearFacts
  <2>3. e[i] \in 1 .. Len(l.flows) /\ Alike(l.flows[e[i]], f)
    BY <2>1, <2>2
  <2>4. l.flows[e[i]] \in LinearFlows(l)
    BY <2>3, LinearFacts
  <2>5. l.flows[e[i]].key = f.key
    BY <2>3 DEF Alike
  <2> QED BY <2>4, <2>5 DEF Split
<1> QED BY <1>1, <1>2 DEF Split

LEMMA ModifyFrom ==
  ASSUME NEW h, NEW l, HashOK(h), LinearOK(l, FALSE), NEW d, Proper(d),
         NEW a \in SUBSET Nat
  PROVE  /\ HashFrom(h, HashModify(h, d, a))
         /\ LinearFrom(l, LinearModify(l, d, a))
<1> DEFINE newh == HashModify(h, d, a)
           newl == LinearModify(l, d, a)
<1>1. \A t \in 0 .. 1, b \in Buckets :
        Slot(newh, t, b) = IF Slot(h, t, b) = NoFlow THEN NoFlow
                           ELSE Modified(d, a, Slot(h, t, b))
  BY HashModifyOK
<1>2. /\ Len(newl.flows) = Len(l.flows)
      /\ \A i \in 1 .. Len(l.flows) : newl.flows[i] = Modified(d, a, l.flows[i])
  BY LinearModifyOK
<1> HIDE DEF newh, newl
<1>3. HashFrom(h, newh)
  <2> SUFFICES ASSUME NEW t \in 0 .. 1, NEW b \in Buckets, Slot(newh, t, b) # NoFlow
               PROVE  /\ Slot(h, t, b) # NoFlow
                      /\ Alike(Slot(h, t, b), Slot(newh, t, b))
    BY DEF HashFrom
  <2>1. Slot(h, t, b) # NoFlow /\ Slot(newh, t, b) = Modified(d, a, Slot(h, t, b))
    BY <1>1
  <2>2. Slot(h, t, b) \in GoodFlow
    BY <2>1, SlotFacts
  <2> QED BY <2>1, <2>2, ModifiedFacts
<1>4. \A i \in 1 .. Len(l.flows) : Alike(l.flows[i], newl.flows[i])
  <2> SUFFICES ASSUME NEW i \in 1 .. Len(l.flows)
               PROVE  Alike(l.flows[i], newl.flows[i])
    OBVIOUS
  <2>1. l.flows[i] \in GoodFlow
    BY LinearFacts
  <2>2. Alike(l.flows[i], Modified(d, a, l.flows[i]))
    BY <2>1, ModifiedFacts
  <2> QED BY <2>2, <1>2
<1>5. LinearFrom(l, newl)
  BY <1>2, <1>4, AlikeFrom
<1> QED BY <1>3, <1>5 DEF newh, newl

(* A flow finds its own entry, or room, in the first subtable.              *)
LEMMA FirstAccepts ==
  ASSUME NoCollisions, NEW h, HashOK(h), NEW f \in GoodFlow, f.key.wildcards = {}
  PROVE  HashAccepts(h, 0, f)
<1> DEFINE b == Hash(0, f.key.flow)
           g == Slot(h, 0, b)
<1>1. f.key \in Keys /\ b \in Buckets
  BY FlowFacts, KeyBucket
<1>2. CASE g = NoFlow
  BY <1>2 DEF HashAccepts, Slot
<1>3. CASE g # NoFlow
  <2>1. g \in GoodFlow /\ g.key.wildcards = {} /\ b = Hash(0, g.key.flow)
    <3>1. 0 \in 0 .. 1
      OBVIOUS
    <3> QED BY <3>1, <1>1, <1>3, SlotFacts
  <2>2. g.key \in Keys
    BY <2>1, FlowFacts
  <2>3. g.key.flow = f.key.flow
    BY <1>1, <2>1, <2>2 DEF NoCollisions
  <2> QED BY <2>3, <1>3 DEF HashAccepts, HashHas, Slot
<1> QED BY <1>2, <1>3

(* What chain_insert does in this setting.                                  *)
Put(h, l, f, newh, newl) ==
  \/ f.key.wildcards = {} /\ newh = HashPut(h, 0, f) /\ newl = l
  \/ f.key.wildcards # {} /\ newh = h /\ newl = table_linear_insert(l, f)

LEMMA SplitInsert ==
  ASSUME NoCollisions, NEW h, NEW l, HashOK(h), NEW f \in GoodFlow
  PROVE  LET r == chain_insert(Tables(h, l), f)
         IN  \/ r.ok /\ Put(h, l, f, r.chain.hash2, r.chain.linear)
             \/ /\ ~r.ok /\ r.chain = Tables(h, l)
                /\ f.key.wildcards # {} /\ ~LinearAccepts(l, f)
<1>1. CASE f.key.wildcards = {}
  <2>1. HashAccepts(h, 0, f)
    BY <1>1, FirstAccepts
  <2> QED BY <2>1, <1>1 DEF chain_insert, Tables, Put
<1>2. CASE f.key.wildcards # {}
  <2>1. ~HashAccepts(h, 0, f) /\ ~HashAccepts(h, 1, f)
    BY <1>2 DEF HashAccepts
  <2> QED BY <2>1, <1>2 DEF chain_insert, Tables, Put
<1> QED BY <1>1, <1>2

(* The new flow takes the place of its entry and of nothing else.           *)
Replaced(h, l, f, newh, newl) ==
  \A x : x \in ChainFlows(Tables(newh, newl)) <=>
           \/ x \in ChainFlows(Tables(h, l)) /\ ~SameEntry(x, f)
           \/ x = f

LEMMA PutOK ==
  ASSUME NoCollisions, NEW h, NEW l, NEW newh, NEW newl,
         HashOK(h), LinearOK(l, FALSE), Split(h, l),
         NEW f \in GoodFlow, f.emerg_flow = FALSE, Put(h, l, f, newh, newl)
  PROVE  /\ Split(newh, newl)
         /\ Replaced(h, l, f, newh, newl)
<1>1. CASE f.key.wildcards = {}
  <2> DEFINE b == Hash(0, f.key.flow)
  <2>1. newh = HashPut(h, 0, f) /\ newl = l
    BY <1>1 DEF Put
  <2>2. b \in Buckets /\ With(newh, h, 0, b, f)
    <3>1. 0 \in 0 .. 1
      OBVIOUS
    <3> QED BY <3>1, <2>1, <1>1, HashPutOK
  <2>3. Slot(h, 0, b) # NoFlow => SameEntry(Slot(h, 0, b), f)
    BY <1>1, FirstAccepts, HashAcceptsFacts
  <2>4. \A c \in Buckets : c # b /\ Slot(h, 0, c) # NoFlow => ~SameEntry(Slot(h, 0, c), f)
    <3> SUFFICES ASSUME NEW c \in Buckets, Slot(h, 0, c) # NoFlow,
                        SameEntry(Slot(h, 0, c), f)
                 PROVE  c = b
      OBVIOUS
    <3>1. 0 \in 0 .. 1
      OBVIOUS
    <3>2. /\ Slot(h, 0, c) \in GoodFlow /\ Slot(h, 0, c).key.wildcards = {}
          /\ c = Hash(0, Slot(h, 0, c).key.flow)
      BY <3>1, SlotFacts
    <3>3. Slot(h, 0, c).key.flow = f.key.flow
      BY <3>2, <1>1, ExactSameEntry
    <3> QED BY <3>2, <3>3
  <2>5. \A x \in LinearFlows(l) : ~SameEntry(x, f)
    BY <1>1 DEF SameEntry, Split
  <2> HIDE DEF b
  <2>6. /\ Slot(newh, 0, b) = f
        /\ \A c \in Buckets : c # b => Slot(newh, 0, c) = Slot(h, 0, c)
        /\ \A c \in Buckets : Slot(newh, 1, c) = NoFlow /\ Slot(h, 1, c) = NoFlow
    BY <2>2 DEF With, Split
  <2>7. f # NoFlow
    BY FlowFacts
  <2>8. \A t \in 0 .. 1 : t = 0 \/ t = 1
    OBVIOUS
  <2>9. \A x : x \in HashFlows(h) <=> x # NoFlow /\ \E c \in Buckets : Slot(h, 0, c) = x
    BY <2>6, <2>8, HashFlowsFacts
  <2>10. \A x : x \in HashFlows(newh) <=>
                  x # NoFlow /\ \E c \in Buckets : Slot(newh, 0, c) = x
    BY <2>6, <2>8, HashFlowsFacts
  <2>11. \A x : x \in HashFlows(newh) <=>
                  (x \in HashFlows(h) /\ ~SameEntry(x, f)) \/ x = f
    BY <2>2, <2>3, <2>4, <2>6, <2>7, <2>9, <2>10
  <2>12. Split(newh, newl)
    BY <2>1, <2>6 DEF Split
  <2> QED BY <2>1, <2>5, <2>11, <2>12, ChainFlowsFacts DEF Replaced
<1>2. CASE f.key.wildcards # {}
  <2>1. newh = h /\ newl = table_linear_insert(l, f)
    BY <1>2 DEF Put
  <2>2. LinearFlows(newl) = {g \in LinearFlows(l) : ~SameEntry(g, f)} \cup {f}
    BY <2>1, LinearInsert
  <2>3. \A x \in HashFlows(h) : ~SameEntry(x, f)
    BY <1>2, HashFlowsGood DEF SameEntry
  <2>4. Split(newh, newl)
    BY <1>2, <2>1, <2>2 DEF Split
  <2> QED BY <2>1, <2>2, <2>3, <2>4, ChainFlowsFacts DEF Replaced
<1> QED BY <1>1, <1>2

(* A table that refuses a flow is full.                                     *)
LEMMA FullTable ==
  ASSUME NEW h, NEW l, HashOK(h), LinearOK(l, FALSE), NEW f \in GoodFlow,
         f.emerg_flow = FALSE, f.key.wildcards # {}, ~LinearAccepts(l, f)
  PROVE  /\ \A g \in ChainFlows(Tables(h, l)) : ~SameEntry(g, f)
         /\ Cardinality(ChainFlows(Tables(h, l))) >= TABLE_LINEAR_MAX_FLOWS
<1>1. ~Replaces(l, f) /\ ~(l.n_flows < TABLE_LINEAR_MAX_FLOWS)
  BY DEF LinearAccepts
<1>2. \A g \in LinearFlows(l) : ~SameEntry(g, f)
  BY <1>1, LinearAppend
<1>3. \A g \in HashFlows(h) : ~SameEntry(g, f)
  BY HashFlowsGood DEF SameEntry
<1>4. Len(l.flows) \in Nat /\ l.n_flows = Len(l.flows)
  BY LinearFacts
<1>5. Cardinality(LinearFlows(l)) = Len(l.flows) /\ IsFiniteSet(LinearFlows(l))
  <2>1. LinearFlows(l) \in SUBSET LinearFlows(l)
    OBVIOUS
  <2>2. /\ IsFiniteSet(LinearFlows(l)) /\ Cardinality(LinearFlows(l)) \in Nat
        /\ Cardinality(Kept(l.flows, LinearFlows(l)))
             = Len(l.flows) - Cardinality(LinearFlows(l))
    BY <2>1, LinearCount
  <2>3. Kept(l.flows, LinearFlows(l)) = {}
    BY LinearFacts DEF Kept
  <2>4. Cardinality(Kept(l.flows, LinearFlows(l))) = 0
    BY <2>3, FS_EmptySet
  <2> QED BY <2>2, <2>4, <1>4
<1>6. IsFiniteSet(HashFlows(h))
  <2> DEFINE Of(t) == {Slot(h, t, b) : b \in Buckets}
  <2>1. IsFiniteSet(Buckets)
    BY BucketsFinite
  <2>2. ASSUME NEW t \in 0 .. 1 PROVE IsFiniteSet(Of(t))
    <3> DEFINE g == [b \in Buckets |-> Slot(h, t, b)]
    <3>1. g \in Surjection(Buckets, Of(t))
      BY DEF Surjection
    <3> HIDE DEF g, Of
    <3> QED BY <3>1, <2>1, FS_Surjection
  <2>3. IsFiniteSet(Of(0) \cup Of(1))
    <3>1. IsFiniteSet(Of(0)) /\ IsFiniteSet(Of(1))
      BY <2>2
    <3> HIDE DEF Of
    <3> QED BY <3>1, FS_Union
  <2>4. HashFlows(h) \subseteq Of(0) \cup Of(1)
    BY HashFlowsFacts
  <2> QED BY <2>3, <2>4, FS_Subset
<1>7. IsFiniteSet(ChainFlows(Tables(h, l)))
  <2>1. ChainFlows(Tables(h, l)) \subseteq HashFlows(h) \cup LinearFlows(l)
    BY ChainFlowsFacts
  <2> QED BY <2>1, <1>5, <1>6, FS_Union, FS_Subset
<1>8. LinearFlows(l) \subseteq ChainFlows(Tables(h, l))
  BY ChainFlowsFacts
<1>9. /\ Cardinality(LinearFlows(l)) <= Cardinality(ChainFlows(Tables(h, l)))
      /\ Cardinality(ChainFlows(Tables(h, l))) \in Nat
  BY <1>7, <1>8, FS_Subset, FS_CardinalityType
<1>10. Cardinality(ChainFlows(Tables(h, l))) >= TABLE_LINEAR_MAX_FLOWS
  BY <1>1, <1>4, <1>5, <1>9, TableAssumption
<1> QED BY <1>2, <1>3, <1>10, ChainFlowsFacts

(* From here on: what a step of the tables is for the set of entries.       *)
LEMMA InsertIsPut ==
  ASSUME OneTableSetting, TableInv, SplitInv, NEW f \in GoodFlow,
         f.emerg_flow = FALSE, Insert(f)
  PROVE  Split(hash2', linear') /\ OneTable!Put(f)
<1> DEFINE r == chain_insert(Tables(hash2, linear), f)
<1>1. /\ hash2' = r.chain.hash2 /\ linear' = r.chain.linear
      /\ sent' = IF r.ok THEN {} ELSE {Error("ALL_TABLES_FULL")}
  BY ChainIs DEF Insert, Working
<1>2. /\ NoCollisions /\ HashOK(hash2) /\ LinearOK(linear, FALSE)
      /\ Split(hash2, linear)
  BY SplitIs DEF OneTableSetting, TableInv
<1>3. \/ r.ok /\ Put(hash2, linear, f, r.chain.hash2, r.chain.linear)
      \/ /\ ~r.ok /\ r.chain = Tables(hash2, linear)
         /\ f.key.wildcards # {} /\ ~LinearAccepts(linear, f)
  BY <1>2, SplitInsert
<1> HIDE DEF r
<1>4. CASE r.ok /\ Put(hash2, linear, f, r.chain.hash2, r.chain.linear)
  <2>1. Put(hash2, linear, f, hash2', linear') /\ sent' = {}
    BY <1>1, <1>4
  <2>2. /\ Split(hash2', linear')
        /\ Replaced(hash2, linear, f, hash2', linear')
    BY <2>1, <1>2, PutOK
  <2>3. ChainFlows(Chain)' = {g \in ChainFlows(Chain) : ~SameEntry(g, f)} \cup {f}
    BY <2>2, ChainIs DEF Replaced
  <2> QED BY <2>1, <2>2, <2>3 DEF OneTable!Put
<1>5. CASE /\ ~r.ok /\ r.chain = Tables(hash2, linear)
           /\ f.key.wildcards # {} /\ ~LinearAccepts(linear, f)
  <2>1. hash2' = hash2 /\ linear' = linear /\ sent' = {Error("ALL_TABLES_FULL")}
    BY <1>1, <1>5 DEF Tables
  <2>2. /\ \A g \in ChainFlows(Chain) : ~SameEntry(g, f)
        /\ Cardinality(ChainFlows(Chain)) >= TABLE_LINEAR_MAX_FLOWS
    BY <1>2, <1>5, FullTable, ChainIs
  <2>3. ChainFlows(Chain)' = ChainFlows(Chain)
    BY <2>1, ChainIs
  <2>4. OneTable!Put(f)
    <3>1. OneTable!Cardinality(ChainFlows(Chain)) = Cardinality(ChainFlows(Chain))
      BY DEF OneTable!Cardinality, Cardinality
    <3> QED BY <3>1, <2>1, <2>2, <2>3 DEF OneTable!Put, OneTable!Error, Error
  <2>5. Split(hash2', linear')
    BY <2>1, <1>2
  <2> QED BY <2>4, <2>5
<1> QED BY <1>3, <1>4, <1>5

LEMMA ConflictIs ==
  ASSUME TableInv, NEW f \in GoodFlow
  PROVE  chain_has_conflict(Chain, f.key, f.priority) <=>
           \E g \in ChainFlows(Chain) : /\ flow_matches_2wild(g.key, f.key)
                                        /\ g.priority = f.priority
<1>1. ASSUME ~chain_has_conflict(Chain, f.key, f.priority)
      PROVE  ~ \E g \in ChainFlows(Chain) : /\ flow_matches_2wild(g.key, f.key)
                                            /\ g.priority = f.priority
  BY <1>1, NoConflict DEF Apart
<1>2. ASSUME chain_has_conflict(Chain, f.key, f.priority)
      PROVE  \E g \in ChainFlows(Chain) : /\ flow_matches_2wild(g.key, f.key)
                                          /\ g.priority = f.priority
  BY <1>2 DEF chain_has_conflict, ChainFlows, HashFlows, Chain
<1> QED BY <1>1, <1>2

LEMMA SameTables ==
  ASSUME UNCHANGED tables
  PROVE  ChainFlows(Chain)' = ChainFlows(Chain)
BY DEF tables, ChainFlows, Chain, HashFlows, LinearFlows, Buckets

LEMMA AddIsAdd ==
  ASSUME OneTableSetting, TableInv, SplitInv, AddFlow
  PROVE  Split(hash2', linear') /\ OneTable!Add
<1>1. PICK m \in FlowMods :
        LET f == NewFlow(m)
        IN  /\ m.command = "ADD"
            /\ IF ~validate_actions(f.key, f.actions) THEN Refuse("BAD_OUT_PORT")
               ELSE IF Overlaps(m, f) THEN Refuse("OVERLAP")
               ELSE IF /\ Emerg(m)
                       /\ \/ f.idle_timeout # PERMANENT
                          \/ f.hard_timeout # PERMANENT
               THEN Refuse("BAD_EMERG_TIMEOUT")
               ELSE Insert(f)
  BY DEF AddFlow
<1> DEFINE f == NewFlow(m)
<1>2. m \in UNION Controllers
  BY DEF TableInv
<1>3. ~Emerg(m)
  BY <1>2 DEF OneTableSetting
<1>4. f \in GoodFlow /\ f.actions = m.actions /\ f.emerg_flow = Emerg(m)
  BY <1>2, NewFlowGood
<1>5. f.emerg_flow = FALSE
  <2>1. Emerg(m) \in BOOLEAN
    BY DEF Emerg
  <2> QED BY <2>1, <1>3, <1>4
<1>6. due' = due
  BY DEF AddFlow
<1>7. Split(hash2, linear)
  BY SplitIs
<1>8. Overlaps(m, f) <=> InConflict(m, f, ChainFlows(Chain))
  <2>1. chain_has_conflict(Chain, f.key, f.priority) <=>
           \E g \in ChainFlows(Chain) : /\ flow_matches_2wild(g.key, f.key)
                                        /\ g.priority = f.priority
    BY <1>4, ConflictIs
  <2> HIDE DEF f
  <2> QED BY <2>1 DEF Overlaps, InConflict
<1>9. ValidActions(m, f) <=> validate_actions(f.key, f.actions)
  BY <1>4 DEF ValidActions
<1> DEFINE Added ==
      \/ /\ ValidActions(m, f) /\ ~InConflict(m, f, ChainFlows(Chain))
         /\ OneTable!Put(f)
      \/ /\ ValidActions(m, f) /\ InConflict(m, f, ChainFlows(Chain))
         /\ sent' = {Error("OVERLAP")}
         /\ ChainFlows(Chain)' = ChainFlows(Chain)
      \/ /\ ~ValidActions(m, f)
         /\ sent' = {Error("BAD_OUT_PORT")}
         /\ ChainFlows(Chain)' = ChainFlows(Chain)
<1>10. ASSUME NEW code, Refuse(code)
       PROVE  /\ Split(hash2', linear') /\ sent' = {Error(code)}
              /\ ChainFlows(Chain)' = ChainFlows(Chain)
  <2>1. UNCHANGED tables /\ sent' = {Error(code)}
    BY <1>10 DEF Refuse
  <2>2. hash2' = hash2 /\ linear' = linear
    BY <2>1 DEF tables
  <2> QED BY <2>1, <2>2, <1>7, SameTables
<1>11. ASSUME Insert(f) PROVE Split(hash2', linear') /\ OneTable!Put(f)
  BY <1>11, <1>4, <1>5, InsertIsPut
<1>12. Split(hash2', linear') /\ Added
  <2>1. CASE ~validate_actions(f.key, f.actions)
    BY <2>1, <1>1, <1>9, <1>10
  <2>2. CASE validate_actions(f.key, f.actions) /\ Overlaps(m, f)
    BY <2>2, <1>1, <1>8, <1>9, <1>10
  <2>3. CASE validate_actions(f.key, f.actions) /\ ~Overlaps(m, f)
    <3>1. Insert(f)
      BY <2>3, <1>1, <1>3
    <3> QED BY <3>1, <2>3, <1>8, <1>9, <1>11
  <2> QED BY <2>1, <2>2, <2>3
<1>13. OneTable!Add
  BY <1>1, <1>2, <1>6, <1>12 DEF OneTable!Add, OneTable!Error, Error
<1> QED BY <1>12, <1>13

(* The flows after a MODIFY.                                                *)
AllModified(h, l, d, a, newh, newl) ==
  \A x : x \in ChainFlows(Tables(newh, newl))
           <=> \E f \in ChainFlows(Tables(h, l)) : x = Modified(d, a, f)

LEMMA ModifiedFlows ==
  ASSUME NEW h, NEW l, HashOK(h), LinearOK(l, FALSE), NEW d, Proper(d),
         NEW a \in SUBSET Nat
  PROVE  AllModified(h, l, d, a, HashModify(h, d, a), LinearModify(l, d, a))
<1> DEFINE newh == HashModify(h, d, a)
           newl == LinearModify(l, d, a)
<1>1. \A t \in 0 .. 1, b \in Buckets :
        Slot(newh, t, b) = IF Slot(h, t, b) = NoFlow THEN NoFlow
                           ELSE Modified(d, a, Slot(h, t, b))
  BY HashModifyOK
<1>2. /\ LinearOK(newl, FALSE) /\ Len(newl.flows) = Len(l.flows)
      /\ \A i \in 1 .. Len(l.flows) : newl.flows[i] = Modified(d, a, l.flows[i])
  BY LinearModifyOK
<1> HIDE DEF newh, newl
<1>3. \A x : x \in LinearFlows(newl) <=>
               \E f \in LinearFlows(l) : x = Modified(d, a, f)
  <2>1. Len(l.flows) = Len(newl.flows)
    BY <1>2
  <2>2. \A x : x \in LinearFlows(l) <=> \E i \in 1 .. Len(l.flows) : l.flows[i] = x
    BY LinearFacts
  <2>3. \A x : x \in LinearFlows(newl) <=>
                 \E i \in 1 .. Len(l.flows) : newl.flows[i] = x
    BY <1>2, <2>1, LinearFacts
  <2>4. \A i \in 1 .. Len(l.flows) : newl.flows[i] = Modified(d, a, l.flows[i])
    BY <1>2
  <2> QED BY ONLY <2>2, <2>3, <2>4
<1>4. \A t \in 0 .. 1, b \in Buckets :
        Slot(h, t, b) # NoFlow => Modified(d, a, Slot(h, t, b)) # NoFlow
  BY SlotFacts, ModifiedFacts, FlowFacts
<1>5. ASSUME NEW x PROVE x \in HashFlows(newh) <=>
                           \E f \in HashFlows(h) : x = Modified(d, a, f)
  <2>1. ASSUME x \in HashFlows(newh)
        PROVE  \E f \in HashFlows(h) : x = Modified(d, a, f)
    <3>1. PICK t \in 0 .. 1, b \in Buckets : Slot(newh, t, b) = x /\ x # NoFlow
      BY <2>1, HashFlowsFacts
    <3>2. Slot(h, t, b) # NoFlow /\ x = Modified(d, a, Slot(h, t, b))
      BY <3>1, <1>1
    <3> QED BY <3>2, HashFlowsFacts
  <2>2. ASSUME NEW f \in HashFlows(h), x = Modified(d, a, f)
        PROVE  x \in HashFlows(newh)
    <3>1. PICK t \in 0 .. 1, b \in Buckets : Slot(h, t, b) = f /\ f # NoFlow
      BY <2>2, HashFlowsFacts
    <3>2. Slot(newh, t, b) = x /\ x # NoFlow
      BY <3>1, <2>2, <1>1, <1>4
    <3> QED BY <3>2, HashFlowsFacts
  <2> QED BY <2>1, <2>2
<1>6. ASSUME NEW x
      PROVE  x \in ChainFlows(Tables(newh, newl))
               <=> \E f \in ChainFlows(Tables(h, l)) : x = Modified(d, a, f)
  BY <1>5, <1>3, ChainFlowsFacts
<1> QED BY <1>6 DEF newh, newl, AllModified

LEMMA ModIsModify ==
  ASSUME OneTableSetting, TableInv, SplitInv, ModFlow
  PROVE  Split(hash2', linear') /\ OneTable!Modify
<1>1. PICK m \in FlowMods :
        LET f == NewFlow(m)
            d == Request(m, m.command = "MODIFY_STRICT", OFPP_NONE)
        IN  /\ m.command \in {"MODIFY", "MODIFY_STRICT"}
            /\ IF ~validate_actions(f.key, f.actions) THEN Refuse("BAD_OUT_PORT")
               ELSE Emerg(m) \/
                    IF ChainSelected(Chain, d) # {}
                    THEN /\ hash2' = HashModify(hash2, d, m.actions)
                         /\ linear' = LinearModify(linear, d, m.actions)
                         /\ sent' = {}
                    ELSE Insert(f)
  BY DEF ModFlow
<1> DEFINE f == NewFlow(m)
           d == Request(m, m.command = "MODIFY_STRICT", OFPP_NONE)
           E == ChainFlows(Chain)
           hit == {e \in E : Selects(d, e)}
<1>2. m \in UNION Controllers
  BY DEF TableInv
<1>3. ~Emerg(m)
  BY <1>2 DEF OneTableSetting
<1>4. f \in GoodFlow /\ f.actions = m.actions /\ f.emerg_flow = Emerg(m)
  BY <1>2, NewFlowGood
<1>5. f.emerg_flow = FALSE
  <2>1. Emerg(m) \in BOOLEAN
    BY DEF Emerg
  <2> QED BY <2>1, <1>3, <1>4
<1>6. due' = due
  BY DEF ModFlow
<1>7. HashOK(hash2) /\ LinearOK(linear, FALSE) /\ Split(hash2, linear)
  BY SplitIs DEF TableInv
<1>8. Proper(d) /\ m.actions \in SUBSET Nat
  BY <1>2, RequestFacts, TableAssumption DEF OfpFlowMod
<1>9. RequestOf(m) = d
  BY <1>1 DEF RequestOf
<1>10. {e \in E : AskedFor(m, e)} = hit
  BY <1>9 DEF AskedFor
<1>11. ValidActions(m, f) <=> validate_actions(f.key, f.actions)
  BY <1>4 DEF ValidActions
<1>12. ChainSelected(Chain, d) = hit
  BY <1>7, <1>8, ChainSelectedFacts, ChainIs
<1> HIDE DEF d, f
<1> DEFINE Done ==
      \/ /\ ValidActions(m, f) /\ hit # {}
         /\ E' = (E \ hit) \cup {[e EXCEPT !.actions = m.actions] : e \in hit}
         /\ sent' = {}
      \/ ValidActions(m, f) /\ hit = {} /\ OneTable!Put(f)
      \/ ~ValidActions(m, f) /\ sent' = {Error("BAD_OUT_PORT")} /\ E' = E
<1>13. Split(hash2', linear') /\ Done
  <2>1. CASE ~validate_actions(f.key, f.actions)
    <3>1. UNCHANGED tables /\ sent' = {Error("BAD_OUT_PORT")}
      BY <2>1, <1>1 DEF Refuse, f
    <3>2. hash2' = hash2 /\ linear' = linear
      BY <3>1 DEF tables
    <3> QED BY <2>1, <3>1, <3>2, <1>7, <1>11, SameTables
  <2>2. CASE validate_actions(f.key, f.actions) /\ hit # {}
    <3>1. /\ hash2' = HashModify(hash2, d, m.actions)
          /\ linear' = LinearModify(linear, d, m.actions)
          /\ sent' = {}
      BY <2>2, <1>1, <1>3, <1>12 DEF f, d
    <3>2. HashFrom(hash2, hash2') /\ LinearFrom(linear, linear')
      BY <3>1, <1>7, <1>8, ModifyFrom
    <3>3. LinearOK(linear', FALSE)
      BY <3>1, <1>7, <1>8, LinearModifyOK
    <3>4. Split(hash2', linear')
      BY <3>2, <3>3, <1>7, SplitKept
    <3>5. AllModified(hash2, linear, d, m.actions, hash2', linear')
      BY <3>1, <1>7, <1>8, ModifiedFlows
    <3>6. \A x : x \in E' <=> \E e \in E : x = Modified(d, m.actions, e)
      BY <3>5, ChainIs DEF AllModified
    <3>7. \A e \in hit : Modified(d, m.actions, e) = [e EXCEPT !.actions = m.actions]
      BY DEF Modified
    <3>8. \A e \in E \ hit : Modified(d, m.actions, e) = e
      BY DEF Modified
    <3>9. E' = (E \ hit) \cup {[e EXCEPT !.actions = m.actions] : e \in hit}
      <4> DEFINE M(e) == [e EXCEPT !.actions = m.actions]
      <4>1. \A e \in hit : e \in E
        OBVIOUS
      <4>2. \A e \in hit : Modified(d, m.actions, e) = M(e)
        BY <3>7
      <4> HIDE DEF M, E, hit
      <4>3. E' = (E \ hit) \cup {M(e) : e \in hit}
        BY <4>1, <4>2, <3>6, <3>8
      <4> QED BY <4>3 DEF M
    <3> QED BY <2>2, <3>1, <3>4, <3>9, <1>11
  <2>3. CASE validate_actions(f.key, f.actions) /\ hit = {}
    <3>1. Insert(f)
      BY <2>3, <1>1, <1>3, <1>12 DEF f, d
    <3>2. Split(hash2', linear') /\ OneTable!Put(f)
      BY <3>1, <1>4, <1>5, InsertIsPut
    <3> QED BY <2>3, <3>2, <1>11
  <2> QED BY <2>1, <2>2, <2>3
<1>14. OneTable!Modify
  BY <1>1, <1>2, <1>6, <1>10, <1>13 DEF OneTable!Modify, OneTable!Error, Error, f
<1> QED BY <1>13, <1>14

LEMMA DeleteIsDelete ==
  ASSUME OneTableSetting, TableInv, DeleteFlows
  PROVE  OneTable!Delete
<1>1. PICK m \in FlowMods :
        LET d == Request(m, m.command = "DELETE_STRICT", m.out_port)
            r == chain_delete(Tables(hash2, linear), d)
        IN  /\ m \in UNION Controllers /\ Proper(d)
            /\ m.command \in {"DELETE", "DELETE_STRICT"}
            /\ \/ Emerg(m)
               \/ /\ hash2' = r.hash2 /\ linear' = r.linear
                  /\ sent' = dp_send_flow_end(
                       ChainSelected(Tables(hash2, linear), d), TRUE)
  BY DeleteFacts
<1> DEFINE d == Request(m, m.command = "DELETE_STRICT", m.out_port)
           r == chain_delete(Tables(hash2, linear), d)
           E == ChainFlows(Chain)
           hit == {e \in E : Selects(d, e)}
<1>2. ~Emerg(m)
  BY <1>1 DEF OneTableSetting
<1>3. RequestOf(m) = d
  BY <1>1 DEF RequestOf
<1>4. {e \in E : AskedFor(m, e)} = hit
  BY <1>3 DEF AskedFor
<1>5. HashOK(hash2) /\ LinearOK(linear, FALSE) /\ Proper(d)
  BY <1>1 DEF TableInv
<1>6. /\ hash2' = r.hash2 /\ linear' = r.linear
      /\ sent' = dp_send_flow_end(ChainSelected(Tables(hash2, linear), d), TRUE)
  BY <1>1, <1>2
<1> HIDE DEF d
<1>7. ChainSelected(Tables(hash2, linear), d) = hit
  BY <1>5, ChainSelectedFacts, ChainIs
<1>8. \A x : x \in ChainFlows(Tables(r.hash2, r.linear)) <=>
               x \in ChainFlows(Tables(hash2, linear)) /\ ~Selects(d, x)
  BY <1>5, ChainDelete
<1> HIDE DEF r
<1>9. E' = E \ hit
  BY <1>6, <1>8, ChainIs
<1>10. \A e \in hit : e.emerg_flow = FALSE
  BY <1>5, ChainFlowsGood, ChainIs
<1>11. due' = due
  BY DEF DeleteFlows
<1>12. sent' = {[type |-> "FLOW_REMOVED", entry |-> Name(e), reason |-> "DELETE"] :
                  e \in {g \in hit : g.send_flow_rem}}
  <2>1. {g \in hit : g.send_flow_rem /\ ~g.emerg_flow} = {g \in hit : g.send_flow_rem}
    BY <1>10
  <2> HIDE DEF hit
  <2> QED BY <2>1, <1>6, <1>7 DEF dp_send_flow_end, Reason
<1> QED BY <1>1, <1>4, <1>9, <1>11, <1>12 DEF OneTable!Delete, OneTable!Report

(* The entry that a packet renews is in one place.                          *)
LEMMA PacketHashIs ==
  ASSUME TableInv, SplitInv, PacketInHash
  PROVE  OneTable!Packet
<1>1. PICK p \in Packets, t \in 0 .. 1 :
        /\ t \in HashFound(Chain, flow_extract(p))
        /\ Hash(t, flow_extract(p)) \in Buckets
        /\ Slot(hash2, t, Hash(t, flow_extract(p))) # NoFlow
        /\ hash2' = [hash2 EXCEPT
             ![t].buckets[Hash(t, flow_extract(p))].idle_age = 0]
  BY PacketHashFacts
<1> DEFINE b == Hash(t, flow_extract(p))
           e == Slot(hash2, t, b)
           g == [e EXCEPT !.idle_age = 0]
           E == ChainFlows(Chain)
<1>2. linear' = linear /\ due' = due /\ sent' = {}
  BY DEF PacketInHash
<1>3. HashOK(hash2) /\ LinearOK(linear, FALSE) /\ Split(hash2, linear)
  BY SplitIs DEF TableInv
<1>4. b \in Buckets /\ e # NoFlow
  BY <1>1
<1>5. g \in GoodFlow /\ With(hash2', hash2, t, b, g)
  BY <1>1, <1>3, HashUsedOK
<1>6. t = 0
  <2>1. \A c \in Buckets : Slot(hash2, 1, c) = NoFlow
    BY <1>3 DEF Split
  <2> QED BY <2>1, <1>4
<1>7. e \in Found(flow_extract(p))
  BY <1>1 DEF Found, Slot
<1>8. e \in Matching(flow_extract(p))
      /\ \A x \in Matching(flow_extract(p)) : x.priority <= e.priority
  BY <1>7, LookupBest
<1> HIDE DEF e
<1>9. Matching(flow_extract(p)) = {x \in E : MatchesPacket(p, x)}
  BY DEF Matching, MatchesPacket
<1> HIDE DEF b, g
<1>10. e \in GoodFlow /\ e.key.wildcards = {} /\ b = Hash(0, e.key.flow)
  <2>1. Slot(hash2, t, b) # NoFlow
    BY <1>4 DEF e
  <2>2. /\ Slot(hash2, t, b) \in GoodFlow /\ Slot(hash2, t, b).key.wildcards = {}
        /\ b = Hash(t, Slot(hash2, t, b).key.flow)
    BY <2>1, <1>3, <1>4, SlotFacts
  <2> QED BY <2>2, <1>6 DEF e
<1>11. g # NoFlow
  BY <1>5, FlowFacts
<1>12. \A c \in Buckets : Slot(hash2, 0, c) = e => c = b
  <2> SUFFICES ASSUME NEW c \in Buckets, Slot(hash2, 0, c) = e PROVE c = b
    OBVIOUS
  <2>1. 0 \in 0 .. 1
    OBVIOUS
  <2>2. c = Hash(0, e.key.flow)
    BY <2>1, <1>3, <1>4, SlotFacts
  <2> QED BY <2>2, <1>10
<1>13. e \notin LinearFlows(linear)
  BY <1>3, <1>10 DEF Split
<1>14. /\ Slot(hash2', 0, b) = g /\ Slot(hash2, 0, b) = e
       /\ \A c \in Buckets : c # b => Slot(hash2', 0, c) = Slot(hash2, 0, c)
       /\ \A c \in Buckets : Slot(hash2', 1, c) = NoFlow /\ Slot(hash2, 1, c) = NoFlow
  BY <1>3, <1>4, <1>5, <1>6 DEF With, Split, e
<1>15. \A u \in 0 .. 1 : u = 0 \/ u = 1
  OBVIOUS
<1>16. \A x : x \in HashFlows(hash2) <=>
                x # NoFlow /\ \E c \in Buckets : Slot(hash2, 0, c) = x
  BY <1>14, <1>15, HashFlowsFacts
<1>17. \A x : x \in HashFlows(hash2') <=>
                x # NoFlow /\ \E c \in Buckets : Slot(hash2', 0, c) = x
  BY <1>14, <1>15, HashFlowsFacts
<1>18. \A x : x \in HashFlows(hash2') <=> (x \in HashFlows(hash2) /\ x # e) \/ x = g
  BY <1>4, <1>11, <1>12, <1>14, <1>16, <1>17
<1>19. E' = (E \ {e}) \cup {g}
  BY <1>2, <1>13, <1>18, ChainFlowsFacts, ChainIs
<1> QED BY <1>1, <1>2, <1>8, <1>9, <1>19 DEF OneTable!Packet, g

LEMMA PacketLinearIs ==
  ASSUME TableInv, SplitInv, PacketInLinear
  PROVE  OneTable!Packet
<1>1. PICK p \in Packets, i \in 1 .. Len(linear.flows) :
        /\ i \in LinearFound(Chain, flow_extract(p))
        /\ linear' = [linear EXCEPT !.flows[i].idle_age = 0]
  BY PacketLinearFacts
<1> DEFINE e == linear.flows[i]
           g == [e EXCEPT !.idle_age = 0]
           E == ChainFlows(Chain)
<1>2. hash2' = hash2 /\ due' = due /\ sent' = {}
  BY DEF PacketInLinear
<1>3. HashOK(hash2) /\ LinearOK(linear, FALSE) /\ Split(hash2, linear)
  BY SplitIs DEF TableInv
<1>4. e \in LinearFlows(linear)
  BY <1>3, LinearFacts
<1>5. e.key.wildcards # {}
  BY <1>3, <1>4 DEF Split
<1>6. e \notin HashFlows(hash2)
  BY <1>3, <1>5, HashFlowsGood
<1>7. e \in Found(flow_extract(p))
  BY <1>1 DEF Found
<1>8. e \in Matching(flow_extract(p))
      /\ \A x \in Matching(flow_extract(p)) : x.priority <= e.priority
  BY <1>7, LookupBest
<1>9. Matching(flow_extract(p)) = {x \in E : MatchesPacket(p, x)}
  BY DEF Matching, MatchesPacket
<1>10. LinearFlows(linear') = (LinearFlows(linear) \ {e}) \cup {g}
  BY <1>1, <1>3, LinearUsedOK
<1> HIDE DEF e, g
<1>11. E' = (E \ {e}) \cup {g}
  BY <1>2, <1>6, <1>10, ChainFlowsFacts, ChainIs
<1> QED BY <1>1, <1>2, <1>8, <1>9, <1>11 DEF OneTable!Packet, g

LEMMA MissIs ==
  ASSUME TableInv, PacketMiss
  PROVE  OneTable!Packet
<1>1. PICK p \in Packets : /\ HashFound(Chain, flow_extract(p)) = {}
                           /\ LinearFound(Chain, flow_extract(p)) = {}
  BY DEF PacketMiss
<1> DEFINE E == ChainFlows(Chain)
<1>2. Found(flow_extract(p)) = {}
  BY <1>1 DEF Found
<1>3. Matching(flow_extract(p)) = {}
  BY <1>2, LookupBest
<1>4. Matching(flow_extract(p)) = {x \in E : MatchesPacket(p, x)}
  BY DEF Matching, MatchesPacket
<1>5. UNCHANGED tables /\ due' = due /\ sent' = {[type |-> "PACKET_IN"]}
  BY DEF PacketMiss
<1>6. E' = E
  BY <1>5, SameTables
<1> QED BY <1>3, <1>4, <1>5, <1>6 DEF OneTable!Packet

LEMMA TickIs ==
  ASSUME TableInv, Tick
  PROVE  OneTable!Tick
<1> DEFINE E == ChainFlows(Chain)
<1>1. HashOK(hash2) /\ LinearOK(linear, FALSE)
  BY DEF TableInv
<1>2. \A t \in 0 .. 1, b \in Buckets :
        Slot(hash2', t, b) = IF Slot(hash2, t, b) = NoFlow THEN NoFlow
                             ELSE Aged(Slot(hash2, t, b))
  BY <1>1, HashAgedOK DEF Tick
<1>3. LinearFlows(linear') = {Aged(f) : f \in LinearFlows(linear)}
  BY <1>1, LinearAgedOK DEF Tick
<1>4. ASSUME NEW x PROVE x \in HashFlows(hash2') <=>
                           \E f \in HashFlows(hash2) : x = Aged(f)
  <2>1. ASSUME x \in HashFlows(hash2') PROVE \E f \in HashFlows(hash2) : x = Aged(f)
    <3>1. PICK t \in 0 .. 1, b \in Buckets : Slot(hash2', t, b) = x /\ x # NoFlow
      BY <2>1, HashFlowsFacts
    <3>2. Slot(hash2, t, b) # NoFlow /\ x = Aged(Slot(hash2, t, b))
      BY <3>1, <1>2
    <3> QED BY <3>2, HashFlowsFacts
  <2>2. ASSUME NEW f \in HashFlows(hash2), x = Aged(f) PROVE x \in HashFlows(hash2')
    <3>1. PICK t \in 0 .. 1, b \in Buckets : Slot(hash2, t, b) = f /\ f # NoFlow
      BY <2>2, HashFlowsFacts
    <3>2. x # NoFlow
      BY <2>2, <1>1, HashFlowsGood, AgedGood, FlowFacts
    <3>3. Slot(hash2', t, b) = x
      BY <3>1, <2>2, <1>2
    <3> QED BY <3>2, <3>3, HashFlowsFacts
  <2> QED BY <2>1, <2>2
<1>5. E' = {Aged(f) : f \in E}
  <2>1. \A x : x \in E' <=> \E f \in E : x = Aged(f)
    BY <1>3, <1>4, ChainFlowsFacts, ChainIs
  <2> HIDE DEF E
  <2> QED BY <2>1
<1>6. due' = TRUE /\ sent' = {}
  BY DEF Tick
<1> QED BY <1>5, <1>6 DEF OneTable!Tick

LEMMA TimeoutIsSweep ==
  ASSUME TableInv, Timeout
  PROVE  OneTable!Sweep
<1> DEFINE E == ChainFlows(Chain)
           gone == {e \in E : flow_timeout(e)}
<1>1. HashOK(hash2) /\ LinearOK(linear, FALSE)
  BY DEF TableInv
<1>2. ChainFlows(Tables(hash2', linear')) =
        {f \in ChainFlows(Tables(hash2, linear)) : ~flow_timeout(f)}
  BY <1>1, ChainTimeout DEF Timeout
<1>3. E' = E \ gone
  BY <1>2, ChainIs
<1>4. due /\ due' = FALSE /\ sent' = dp_send_flow_end(gone, FALSE)
  BY DEF Timeout
<1>5. \A e \in gone : e.emerg_flow = FALSE
  BY <1>1, ChainFlowsGood, ChainIs
<1>6. sent' = OneTable!Report(gone, TimedOut)
  <2>1. {g \in gone : g.send_flow_rem /\ ~g.emerg_flow} = {g \in gone : g.send_flow_rem}
    BY <1>5
  <2> HIDE DEF gone
  <2> QED BY <2>1, <1>4 DEF OneTable!Report, dp_send_flow_end, Reason
<1> QED BY <1>3, <1>4, <1>6 DEF OneTable!Sweep

LEMMA EmptyIsInit == Init => SplitInv /\ OneTable!Init
<1> SUFFICES ASSUME Init PROVE SplitInv /\ OneTable!Init
  OBVIOUS
<1>1. linear = EmptyLinear /\ copying = <<>> /\ due = FALSE /\ sent = {}
  BY DEF Init
<1>2. hash2 = [t \in 0 .. 1 |->
                [buckets |-> [b \in Buckets |-> NoFlow], n_flows |-> 0]]
  BY DEF Init, Buckets
<1>3. \A t \in 0 .. 1, b \in Buckets : Slot(hash2, t, b) = NoFlow
  BY <1>2 DEF Slot
<1>4. LinearFlows(linear) = {}
  BY <1>1, EmptyLinearOK
<1>5. SplitInv
  BY <1>1, <1>3, <1>4 DEF SplitInv
<1>6. ChainFlows(Chain) = {}
  BY <1>3, <1>4, HashFlowsFacts, ChainFlowsFacts, ChainIs
<1> QED BY <1>1, <1>5, <1>6 DEF OneTable!Init

LEMMA StepIsStep ==
  ASSUME OneTableSetting
  PROVE  TableInv /\ TableInv' /\ SplitInv /\ [Next]_vars
           => SplitInv' /\ [OneTable!Next]_(OneTable!vars)
<1> SUFFICES ASSUME TableInv, TableInv', SplitInv, [Next]_vars
             PROVE  SplitInv' /\ [OneTable!Next]_(OneTable!vars)
  OBVIOUS
<1>1. copying = <<>> /\ Split(hash2, linear)
  BY SplitIs
<1>2. LinearOK(linear, FALSE) /\ LinearOK(linear', FALSE)
  BY DEF TableInv
<1>3. ~EmergProtection /\ ~CopyEmergFlow
  BY <1>1 DEF OneTableSetting, EmergProtection, CopyEmergFlow, Idle
<1>4. copying' = <<>>
  BY <1>1, <1>3 DEF Next, vars, AddFlow, ModFlow, DeleteFlows, PacketInHash,
                    PacketInLinear, PacketMiss, Tick, Timeout
<1>5. ASSUME \/ DeleteFlows \/ PacketInHash \/ PacketInLinear \/ PacketMiss
             \/ Tick \/ Timeout \/ UNCHANGED tables
      PROVE  Split(hash2', linear')
  <2>1. HashFrom(hash2, hash2') /\ LinearFrom(linear, linear')
    BY <1>5, NothingNew
  <2> QED BY <2>1, <1>1, <1>2, SplitKept
<1>6. CASE UNCHANGED vars
  <2>1. UNCHANGED tables /\ due' = due /\ sent' = sent
    BY <1>6 DEF vars, tables
  <2>2. ChainFlows(Chain)' = ChainFlows(Chain)
    BY <2>1, SameTables
  <2>3. SplitInv'
    BY <2>1, <1>4, <1>5, SplitIs
  <2> QED BY <2>1, <2>2, <2>3 DEF OneTable!vars
<1>7. CASE AddFlow
  <2>1. Split(hash2', linear') /\ OneTable!Add
    BY <1>7, AddIsAdd
  <2> QED BY <2>1, <1>4, SplitIs DEF OneTable!Next
<1>8. CASE ModFlow
  <2>1. Split(hash2', linear') /\ OneTable!Modify
    BY <1>8, ModIsModify
  <2> QED BY <2>1, <1>4, SplitIs DEF OneTable!Next
<1>9. CASE DeleteFlows
  <2>1. Split(hash2', linear') /\ OneTable!Delete
    BY <1>5, <1>9, DeleteIsDelete
  <2> QED BY <2>1, <1>4, SplitIs DEF OneTable!Next
<1>10. CASE PacketInHash \/ PacketInLinear \/ PacketMiss
  <2>1. Split(hash2', linear') /\ OneTable!Packet
    BY <1>5, <1>10, PacketHashIs, PacketLinearIs, MissIs
  <2> QED BY <2>1, <1>4, SplitIs DEF OneTable!Next
<1>11. CASE Tick
  <2>1. Split(hash2', linear') /\ OneTable!Tick
    BY <1>5, <1>11, TickIs
  <2> QED BY <2>1, <1>4, SplitIs DEF OneTable!Next
<1>12. CASE Timeout
  <2>1. Split(hash2', linear') /\ OneTable!Sweep
    BY <1>5, <1>12, TimeoutIsSweep
  <2> QED BY <2>1, <1>4, SplitIs DEF OneTable!Next
<1> QED
  BY <1>3, <1>6, <1>7, <1>8, <1>9, <1>10, <1>11, <1>12 DEF Next

(* THEOREM: where no two exact keys share a bucket of the first subtable    *)
(* and the emergency table is not used, the two hash subtables and the      *)
(* linear table behave as ONE set of entries: every handler, lookup, tick   *)
(* and sweep is a step of FlowTableSpec, with the same messages.            *)
THEOREM OneSetOfEntries ==
  ASSUME OneTableSetting
  PROVE  Spec => ImplementsOneTable
<1>1. Init => SplitInv /\ OneTable!Init
  BY EmptyIsInit
<1>2. TableInv /\ TableInv' /\ SplitInv /\ [Next]_vars
        => SplitInv' /\ [OneTable!Next]_(OneTable!vars)
  BY StepIsStep
<1> QED
  BY <1>1, <1>2, TableInvariant, PTL DEF Spec, ImplementsOneTable, OneTable!Spec
=============================================================================
