-------------------------- MODULE RouteTreeProofs --------------------------
(***************************************************************************)
(* Proofs about the router, for every set of patterns and any number of    *)
(* registrations.  The terms they speak in are those of RouteTreeTerms.    *)
(***************************************************************************)
EXTENDS RouteTreeTerms, SequenceTheorems, FiniteSetTheorems, WellFoundedInduction, TLAPS

----------------------------------------------------------------------------
(* Induction and recursion *)

\* Induction: a set that has 0, and with each number the next one, has all.
LEMMA AllNumbers ==
  ASSUME NEW S, 0 \in S, \A n \in Nat : n \in S => n + 1 \in S
  PROVE  \A n \in Nat : n \in S
<1> DEFINE T == Nat \ S
<1> SUFFICES ASSUME T # {} PROVE FALSE
  OBVIOUS
<1>1. IsWellFoundedOn(OpToRel(<, Nat), Nat)
  BY NatLessThanWellFounded
<1>2. PICK x \in T : \A y \in T : ~ (<<y, x>> \in OpToRel(<, Nat))
  BY <1>1, WFMin
<1>3. \A m, n \in Nat : <<m, n>> \in OpToRel(<, Nat) <=> m < n
  BY DEF OpToRel
<1>4. x \in Nat /\ x # 0
  OBVIOUS
<1>5. x - 1 \in Nat /\ x - 1 < x /\ (x - 1) + 1 = x
  BY <1>4
<1>6. x - 1 \in S
  BY <1>2, <1>3, <1>4, <1>5
<1> QED BY <1>5, <1>6

\* A set of numbers that is not empty has a least one, and a greatest one if it
\* has a bound.
LEMMA LeastNumber ==
  ASSUME NEW S \in SUBSET Nat, S # {}
  PROVE  \E n \in S : \A m \in S : n <= m
<1> SUFFICES ASSUME \A n \in S : \E m \in S : m < n PROVE FALSE
  OBVIOUS
<1> DEFINE Below == {n \in Nat : \A m \in S : n <= m}
<1>1. 0 \in Below
  OBVIOUS
<1>2. \A n \in Nat : n \in Below => n + 1 \in Below
  OBVIOUS
<1>3. \A n \in Nat : n \in Below
  <2> HIDE DEF Below
  <2> QED BY <1>1, <1>2, AllNumbers
<1>4. PICK n \in S : TRUE
  OBVIOUS
<1>5. n + 1 \in Below
  BY <1>3, <1>4
<1> QED BY <1>4, <1>5

LEMMA GreatestNumber ==
  ASSUME NEW S \in SUBSET Nat, S # {}, NEW b \in Nat, \A n \in S : n <= b
  PROVE  \E n \in S : \A m \in S : m <= n
<1> DEFINE T == {k \in Nat : \E n \in S : k = b - n}
<1>1. T \in SUBSET Nat /\ T # {}
  <2>1. PICK n \in S : TRUE
    OBVIOUS
  <2>2. b - n \in Nat /\ b - n = b - n
    BY <2>1
  <2> QED BY <2>2
<1>2. PICK k \in T : \A l \in T : k <= l
  <2> HIDE DEF T
  <2> QED BY <1>1, LeastNumber
<1>3. PICK n \in S : k = b - n
  BY <1>2
<1>4. ASSUME NEW m \in S PROVE m <= n
  <2>1. b - m \in Nat /\ b - m \in T
    OBVIOUS
  <2> QED BY <1>2, <1>3, <2>1
<1> QED BY <1>4

\* Recursion: a function can be defined by what it is at each place in terms of
\* its values at places of a smaller measure.
LooksDown(D, V, measure, G) ==
  /\ G \in [D \X [D -> V] -> V]
  /\ \A x \in D, f, g \in [D -> V] :
       (\A y \in D : measure[y] < measure[x] => f[y] = g[y]) =>
         G[<<x, f>>] = G[<<x, g>>]
Follows(f, D, G) == \A x \in D : f[x] = G[<<x, f>>]

LEMMA RecursionExists ==
  ASSUME NEW D, NEW V, NEW f0 \in [D -> V], NEW B \in Nat, NEW measure \in [D -> 0 .. B],
         NEW G, LooksDown(D, V, measure, G)
  PROVE  \E f \in [D -> V] : Follows(f, D, G)
<1> USE DEF LooksDown, Follows
<1> DEFINE Good(f, n) == \A x \in D : measure[x] < n => f[x] = G[<<x, f>>]
           S == {n \in Nat : \E f \in [D -> V] : Good(f, n)}
<1>1. 0 \in S
  BY DEF S
<1>2. ASSUME NEW n \in Nat, n \in S PROVE n + 1 \in S
  <2>1. PICK f \in [D -> V] : Good(f, n)
    BY <1>2
  <2> DEFINE g == [x \in D |-> IF measure[x] < n THEN f[x] ELSE G[<<x, f>>]]
  <2>2. \A x \in D : <<x, f>> \in D \X [D -> V]
    OBVIOUS
  <2>3. g \in [D -> V]
    BY <2>2
  <2>4. ASSUME NEW x \in D, measure[x] < n + 1 PROVE g[x] = G[<<x, g>>]
    <3>1. measure[x] \in Nat /\ measure[x] <= n
      BY <2>4
    <3>2. \A y \in D : measure[y] < measure[x] => f[y] = g[y]
      BY <3>1
    <3>3. G[<<x, f>>] = G[<<x, g>>]
      <4> HIDE DEF g
      <4> QED BY <2>3, <3>2
    <3>4. measure[x] < n => f[x] = G[<<x, f>>]
      BY <2>1
    <3> QED BY <3>3, <3>4
  <2>5. Good(g, n + 1)
    BY <2>4
  <2> HIDE DEF g, Good
  <2> QED BY <2>3, <2>5
<1>3. B + 1 \in S
  <2> HIDE DEF S
  <2> QED BY <1>1, <1>2, AllNumbers
<1>4. PICK f \in [D -> V] : Good(f, B + 1)
  BY <1>3
<1>5. \A x \in D : measure[x] < B + 1
  OBVIOUS
<1> QED BY <1>4, <1>5

----------------------------------------------------------------------------
(* Positions in patterns *)

\* A log and its positions are typed.
LEMMA PatternTypes ==
  ASSUME NEW p \in Patterns
  PROVE  /\ Len(p) \in Nat \ {0} /\ DOMAIN p = 1 .. Len(p) /\ p # NoRoute
         /\ \A i \in 1 .. Len(p) : Edge(p, i) \in AllEdges
<1>1. p \in Seq(ToSet(p)) /\ p # <<>>
  BY PatternsAssumption DEF PatternIsLegal
<1>2. Len(p) \in Nat \ {0} /\ DOMAIN p = 1 .. Len(p)
  BY <1>1
<1> QED BY <1>1, <1>2 DEF AllEdges, NoRoute

LEMMA LogTypes ==
  ASSUME NEW reg, IsLog(reg), NEW k \in 1 .. Len(reg)
  PROVE  /\ reg[k][1] \in Ops /\ reg[k][2] \in Patterns
         /\ reg[k] = <<reg[k][1], reg[k][2]>>
BY DEF IsLog

\* A type is that of some token.
LEMMA EdgeTypes ==
  ASSUME NEW p, NEW i
  PROVE  /\ TypeOf(p[i]) \in NodeTypes /\ Edge(p, i).typ = TypeOf(p[i])
         /\ (TypeOf(p[i]) = "static") = (p[i] \notin Wild)
<1>1. Edge(p, i).typ = TypeOf(p[i])
  BY DEF Edge
<1>2. CASE p[i] \in Params
  BY <1>1, <1>2 DEF TypeOf, NodeTypes, Wild
<1>3. CASE p[i] \notin Params /\ p[i] \in Regexps
  BY <1>1, <1>3 DEF TypeOf, NodeTypes, Wild
<1>4. CASE p[i] \notin Params /\ p[i] \notin Regexps /\ p[i] = Star
  BY <1>1, <1>4 DEF TypeOf, NodeTypes, Wild
<1>5. CASE p[i] \notin Params /\ p[i] \notin Regexps /\ p[i] # Star
  BY <1>1, <1>5 DEF TypeOf, NodeTypes, Wild
<1> QED BY <1>2, <1>3, <1>4, <1>5

LEMMA PositionTypes ==
  ASSUME NEW reg, IsLog(reg), NEW n \in Positions(reg)
  PROVE  /\ n \in Nat \X Nat /\ n[1] \in Nat /\ n[2] \in Nat /\ n = <<n[1], n[2]>>
         /\ n # Top => n[1] \in 1 .. Len(reg) /\ n[2] \in 1 .. Len(reg[n[1]][2])
         /\ n = Top => n[2] = 0
BY DEF Positions, Top

LEMMA LeadsOn ==
  ASSUME NEW reg, NEW l \in Nat \X Nat, NEW m \in Nat \X Nat, NEW n \in Nat \X Nat
  PROVE  /\ Leads(reg, n, n)
         /\ Leads(reg, l, m) /\ Leads(reg, m, n) => Leads(reg, l, n)
         /\ Leads(reg, l, n) /\ Leads(reg, m, n) /\ l[2] <= m[2] => Leads(reg, l, m)
BY DEF Leads

\* Two nodes with one way are one node.
LEMMA OneNodePerWay ==
  ASSUME NEW reg, NEW nodes, IsLog(reg), IsTree(nodes, reg),
         NEW m \in DOMAIN nodes, NEW n \in DOMAIN nodes,
         Leads(reg, m, n), n[2] <= m[2]
  PROVE  m = n
<1> SUFFICES ASSUME m # n PROVE FALSE
  OBVIOUS
<1>1. PICK k \in Kids(nodes, m) : Leads(reg, k, n)
  BY DEF IsTree, Connected
<1>2. PICK t \in NodeTypes : k \in ToSet(nodes[m].kids[t])
  BY <1>1 DEF Kids
<1>3. m[2] < k[2]
  BY <1>2 DEF IsTree, KidsFit, Spans
<1>4. k[2] <= n[2]
  BY <1>1 DEF Leads
<1>5. nodes[m].kids[t] \in Seq(DOMAIN nodes)
  BY <1>2 DEF IsTree, IsHeap, NodesOn
<1>6. k \in DOMAIN nodes
  BY <1>2, <1>5 DEF ToSet
<1>7. m[2] \in Nat /\ n[2] \in Nat /\ k[2] \in Nat
  BY <1>6, PositionTypes DEF IsTree, Placed
<1> QED BY <1>3, <1>4, <1>7

\* The child of a node is a node, and its prefix begins with the edge to it.
LEMMA KidFacts ==
  ASSUME NEW reg, NEW nodes, IsLog(reg), IsTree(nodes, reg),
         NEW n \in DOMAIN nodes, NEW k \in Kids(nodes, n)
  PROVE  /\ k \in DOMAIN nodes /\ k \in Nat \X Nat /\ n \in Nat \X Nat
         /\ Spans(reg, nodes[k].prefix, n, k)
         /\ nodes[k].prefix \in Seq(AllEdges)
         /\ nodes[k].prefix[1] = Way(reg, k, n[2] + 1)
         /\ nodes[k].prefix[1].typ \in NodeTypes
         /\ k \in ToSet(nodes[n].kids[nodes[k].prefix[1].typ])
<1>1. PICK t \in NodeTypes : k \in ToSet(nodes[n].kids[t])
  BY DEF Kids
<1>2. Spans(reg, nodes[k].prefix, n, k) /\ nodes[k].prefix[1].typ = t
  BY <1>1 DEF IsTree, KidsFit
<1>3. nodes[n].kids[t] \in Seq(DOMAIN nodes)
  BY <1>1 DEF IsTree, IsHeap, NodesOn
<1>4. k \in DOMAIN nodes
  BY <1>1, <1>3 DEF ToSet
<1>5. nodes[k].prefix \in Seq(AllEdges)
  BY <1>4 DEF IsTree, IsHeap, NodesOn
<1>6. k \in Nat \X Nat /\ n \in Nat \X Nat
  BY <1>4, PositionTypes DEF IsTree, Placed
<1>7. nodes[k].prefix[1] = Way(reg, k, n[2] + 1)
  BY <1>2, <1>6 DEF Spans
<1> QED BY <1>1, <1>2, <1>4, <1>5, <1>6, <1>7

\* longestPrefix: as far as both go and are the same.
LEMMA CommonLenIs ==
  ASSUME NEW prefix, Len(prefix) \in Nat, NEW p, Len(p) \in Nat, NEW used \in 0 .. Len(p)
  PROVE  IsCommonLen(prefix, p, used, CommonLen(prefix, p, used))
<1> DEFINE Upto(c) == /\ used + c <= Len(p)
                      /\ \A i \in 1 .. c : prefix[i] = Edge(p, used + i)
           Stop(c) == \/ c = Len(prefix) \/ used + c = Len(p)
                      \/ prefix[c + 1] # Edge(p, used + c + 1)
<1>1. \E c \in 0 .. Len(prefix) : Upto(c) /\ Stop(c)
  <2> SUFFICES ASSUME \A c \in 0 .. Len(prefix) : Upto(c) => ~Stop(c) PROVE FALSE
    OBVIOUS
  <2> DEFINE S == {c \in Nat : c <= Len(prefix) /\ Upto(c)}
  <2>1. 0 \in S
    OBVIOUS
  <2>2. ASSUME NEW c \in Nat, c \in S PROVE c + 1 \in S
    <3>1. c \in 0 .. Len(prefix) /\ Upto(c)
      BY <2>2
    <3>2. ~Stop(c)
      BY <3>1
    <3>3. c + 1 <= Len(prefix) /\ used + (c + 1) <= Len(p) /\ prefix[c + 1] = Edge(p, used + (c + 1))
      BY <3>1, <3>2
    <3>4. ASSUME NEW i \in 1 .. c + 1 PROVE prefix[i] = Edge(p, used + i)
      <4>1. i \in 1 .. c \/ i = c + 1
        OBVIOUS
      <4> QED BY <3>1, <3>3, <4>1
    <3> QED BY <3>3, <3>4
  <2>3. \A c \in Nat : c \in S
    <3> HIDE DEF S
    <3> QED BY <2>1, <2>2, AllNumbers
  <2>4. Len(prefix) + 1 \in S
    BY <2>3
  <2> QED BY <2>4
<1> DEFINE c == CommonLen(prefix, p, used)
<1>2. c = CHOOSE x \in 0 .. Len(prefix) : Upto(x) /\ Stop(x)
  BY DEF CommonLen
<1>3. c \in 0 .. Len(prefix) /\ Upto(c) /\ Stop(c)
  <2> HIDE DEF c, Upto, Stop
  <2> QED BY <1>1, <1>2
<1> HIDE DEF c
<1>4. IsCommonLen(prefix, p, used, c)
  BY <1>3 DEF IsCommonLen
<1> QED BY <1>4 DEF c

\* The end of the segment after a place, and the one before.
LEMMA NextEndIs ==
  ASSUME NEW p, Len(p) \in Nat, NEW from \in 0 .. Len(p) - 1
  PROVE  /\ NextEnd(p, from) \in from + 1 .. Len(p) /\ EndsAt(p, NextEnd(p, from))
         /\ \A f \in from + 1 .. NextEnd(p, from) - 1 : ~EndsAt(p, f)
<1> DEFINE S == {e \in from + 1 .. Len(p) : EndsAt(p, e)}
<1>1. S \in SUBSET Nat /\ Len(p) \in S
  BY DEF EndsAt
<1>2. PICK e \in S : \A f \in S : e <= f
  BY <1>1, LeastNumber
<1>3. \A f \in from + 1 .. e - 1 : ~EndsAt(p, f)
  BY <1>2
<1> QED BY <1>2, <1>3 DEF NextEnd

LEMMA LastEndIs ==
  ASSUME NEW p, Len(p) \in Nat, NEW from \in 0 .. Len(p) - 1, NEW e \in from + 1 .. Len(p)
  PROVE  /\ LastEnd(p, from, e) \in from .. e - 1
         /\ LastEnd(p, from, e) = from \/ EndsAt(p, LastEnd(p, from, e))
         /\ \A f \in LastEnd(p, from, e) + 1 .. e - 1 : ~EndsAt(p, f)
<1> DEFINE S == {s \in from .. e - 1 : s = from \/ EndsAt(p, s)}
<1>1. S \in SUBSET Nat /\ from \in S /\ \A s \in S : s <= Len(p)
  OBVIOUS
<1>2. PICK s \in S : \A f \in S : f <= s
  BY <1>1, GreatestNumber
<1>3. \A f \in s + 1 .. e - 1 : ~EndsAt(p, f)
  BY <1>2
<1> QED BY <1>2, <1>3 DEF LastEnd

\* Segments follow each other.
LEMMA LastOfNext ==
  ASSUME NEW p, Len(p) \in Nat, NEW from \in 0 .. Len(p) - 1,
         NEW s \in from .. Len(p) - 1, s = from \/ EndsAt(p, s)
  PROVE  LastEnd(p, from, NextEnd(p, s)) = s
<1> DEFINE e == NextEnd(p, s)
<1>1. /\ e \in s + 1 .. Len(p) /\ \A f \in s + 1 .. e - 1 : ~EndsAt(p, f)
  BY NextEndIs
<1>2. /\ LastEnd(p, from, e) \in from .. e - 1
      /\ LastEnd(p, from, e) = from \/ EndsAt(p, LastEnd(p, from, e))
      /\ \A f \in LastEnd(p, from, e) + 1 .. e - 1 : ~EndsAt(p, f)
  BY <1>1, LastEndIs
<1> DEFINE l == LastEnd(p, from, e)
<1> SUFFICES l = s
  OBVIOUS
<1>3. l \in Nat /\ e \in Nat /\ s \in Nat /\ l < e /\ s < e /\ from <= l
  BY <1>1, <1>2
<1>4. CASE l < s
  <2>1. s \in l + 1 .. e - 1 /\ EndsAt(p, s)
    BY <1>3, <1>4
  <2> QED BY <1>2, <2>1
<1>5. CASE s < l
  <2>1. l \in s + 1 .. e - 1 /\ EndsAt(p, l)
    BY <1>2, <1>3, <1>5
  <2> QED BY <1>1, <2>1
<1> QED BY <1>3, <1>4, <1>5

\* A segment is one edge, or all its edges are static.
LEMMA SegmentTypes ==
  ASSUME NEW p \in Patterns, NEW from \in 0 .. Len(p) - 1, NEW e \in from + 1 .. Len(p),
         \A f \in from + 1 .. e - 1 : ~EndsAt(p, f), e - from > 1
  PROVE  \A i \in from + 1 .. e : Edge(p, i).typ = "static"
<1>1. Len(p) \in Nat
  BY PatternTypes
<1> TAKE i \in from + 1 .. e
<1>2. CASE i < e
  <2>1. ~EndsAt(p, i)
    BY <1>2
  <2> QED BY <2>1, EdgeTypes DEF EndsAt
<1>3. CASE i = e
  <2>1. e - 1 \in from + 1 .. e - 1 /\ (e - 1) + 1 = e
    OBVIOUS
  <2>2. ~EndsAt(p, e - 1)
    BY <2>1
  <2> QED BY <1>3, <2>1, <2>2, EdgeTypes DEF EndsAt
<1> QED BY <1>2, <1>3

----------------------------------------------------------------------------
(* Adding a child *)

\* tailSort only changes places.
LEMMA TailSortKeeps ==
  ASSUME NEW nodes, NEW S, NEW ns \in Seq(S)
  PROVE  TailSort(nodes, ns) \in Seq(S) /\ ToSet(TailSort(nodes, ns)) = ToSet(ns)
<1> DEFINE slashes == {i \in DOMAIN ns : nodes[ns[i]].prefix[1].tail = "/"}
           last == CHOOSE i \in slashes : \A j \in slashes : j <= i
           s == [ns EXCEPT ![last] = ns[Len(ns)], ![Len(ns)] = ns[last]]
<1>1. CASE slashes = {}
  BY <1>1 DEF TailSort
<1>2. CASE slashes # {}
  <2>1. TailSort(nodes, ns) = s
    BY <1>2 DEF TailSort
  <2>2. Len(ns) \in Nat /\ DOMAIN ns = 1 .. Len(ns)
    OBVIOUS
  <2>3. \E i \in slashes : \A j \in slashes : j <= i
    <3>1. slashes \in SUBSET Nat /\ \A i \in slashes : i <= Len(ns)
      BY <2>2
    <3> HIDE DEF slashes
    <3> QED BY <1>2, <2>2, <3>1, GreatestNumber
  <2>4. last \in slashes
    <3> HIDE DEF slashes
    <3> QED BY <2>3
  <2> HIDE DEF last
  <2>5. last \in 1 .. Len(ns) /\ Len(ns) \in 1 .. Len(ns)
    BY <2>2, <2>4
  <2> HIDE DEF slashes
  <2>6. s \in Seq(S) /\ DOMAIN s = 1 .. Len(ns)
    BY <2>2, <2>5
  <2>7. \A i \in 1 .. Len(ns) : s[i] = IF i = Len(ns) THEN ns[last]
                                       ELSE IF i = last THEN ns[Len(ns)] ELSE ns[i]
    BY <2>2, <2>5
  <2>8. ASSUME NEW x \in ToSet(ns) PROVE x \in ToSet(s)
    <3>1. PICK i \in 1 .. Len(ns) : x = ns[i]
      BY <2>2 DEF ToSet
    <3>2. \E j \in 1 .. Len(ns) : s[j] = x
      <4>1. CASE i = Len(ns)
        <5>1. s[last] = x
          BY <2>5, <2>7, <3>1, <4>1
        <5> QED BY <2>5, <5>1
      <4>2. CASE i = last
        BY <2>5, <2>7, <3>1, <4>2
      <4>3. CASE i # last /\ i # Len(ns)
        BY <2>7, <3>1, <4>3
      <4> QED BY <4>1, <4>2, <4>3
    <3> QED BY <2>6, <3>2 DEF ToSet
  <2>9. ASSUME NEW x \in ToSet(s) PROVE x \in ToSet(ns)
    <3>1. PICK i \in 1 .. Len(ns) : x = s[i]
      BY <2>6 DEF ToSet
    <3>2. \E j \in 1 .. Len(ns) : ns[j] = x
      <4> HIDE DEF s
      <4> QED BY <2>5, <2>7, <3>1
    <3> QED BY <2>2, <3>2 DEF ToSet
  <2> QED BY <2>1, <2>6, <2>8, <2>9
<1> QED BY <1>1, <1>2

\* What WithKid does: only the children of one node and type change.
KidAdded(all, N, n, t, kid) ==
  /\ N \in [DOMAIN all -> NodesOn(DOMAIN all)]
  /\ \A m \in DOMAIN all : N[m].prefix = all[m].prefix /\ N[m].eps = all[m].eps
  /\ \A m \in DOMAIN all, u \in NodeTypes :
       m # n \/ u # t => N[m].kids[u] = all[m].kids[u]
  /\ ToSet(N[n].kids[t]) = ToSet(all[n].kids[t]) \cup {kid}

LEMMA WithKidIs ==
  ASSUME NEW all, IsHeap(all), NEW n \in DOMAIN all, NEW kid \in DOMAIN all,
         NEW t \in NodeTypes, all[kid].prefix[1].typ = t
  PROVE  KidAdded(all, WithKid(all, n, kid), n, t, kid)
<1> DEFINE more == Append(all[n].kids[t], kid)
           N == WithKid(all, n, kid)
<1>1. all[n].kids[t] \in Seq(DOMAIN all)
  BY DEF IsHeap, NodesOn
<1>2. more \in Seq(DOMAIN all) /\ ToSet(more) = ToSet(all[n].kids[t]) \cup {kid}
  <2>1. more \in Seq(DOMAIN all)
    BY <1>1
  <2>2. Len(more) = Len(all[n].kids[t]) + 1 /\ Len(all[n].kids[t]) \in Nat
    BY <1>1
  <2>3. /\ \A i \in 1 .. Len(all[n].kids[t]) : more[i] = all[n].kids[t][i]
        /\ more[Len(all[n].kids[t]) + 1] = kid
    BY <1>1
  <2>4. DOMAIN more = 1 .. Len(more) /\ DOMAIN all[n].kids[t] = 1 .. Len(all[n].kids[t])
    BY <1>1, <2>1
  <2> HIDE DEF more
  <2>5. ToSet(more) \subseteq ToSet(all[n].kids[t]) \cup {kid}
    BY <2>2, <2>3, <2>4 DEF ToSet
  <2>6. \A i \in 1 .. Len(all[n].kids[t]) : i \in 1 .. Len(more)
    BY <2>2
  <2>7. ToSet(all[n].kids[t]) \subseteq ToSet(more)
    BY <2>3, <2>4, <2>6 DEF ToSet
  <2>8. kid \in ToSet(more)
    BY <2>2, <2>3, <2>4 DEF ToSet
  <2> QED BY <2>1, <2>5, <2>7, <2>8
<1>3. TailSort(all, more) \in Seq(DOMAIN all) /\ ToSet(TailSort(all, more)) = ToSet(more)
  <2> HIDE DEF more
  <2> QED BY <1>2, TailSortKeeps
<1> DEFINE sorted == TailSort(all, more)
<1>4. N = [all EXCEPT ![n].kids[t] = sorted]
  BY DEF WithKid
<1> HIDE DEF sorted, N
<1>5. /\ DOMAIN all[n] = {"prefix", "eps", "kids"} /\ DOMAIN all[n].kids = NodeTypes
      /\ DOMAIN N = DOMAIN all
  BY <1>4 DEF IsHeap, NodesOn
<1>6. N[n].kids[t] = sorted
  BY <1>4, <1>5
<1>7. \A m \in DOMAIN all : N[m].prefix = all[m].prefix /\ N[m].eps = all[m].eps
  BY <1>4, <1>5
<1>8. \A m \in DOMAIN all, u \in NodeTypes :
        m # n \/ u # t => N[m].kids[u] = all[m].kids[u]
  BY <1>4, <1>5
<1>9. N \in [DOMAIN all -> NodesOn(DOMAIN all)]
  <2>1. \A m \in DOMAIN all : all[m] \in NodesOn(DOMAIN all)
    BY DEF IsHeap
  <2>2. sorted \in Seq(DOMAIN all)
    BY <1>3 DEF sorted
  <2>3. [all[n].kids EXCEPT ![t] = sorted] \in [NodeTypes -> Seq(DOMAIN all)]
    BY <2>1, <2>2 DEF NodesOn
  <2>4. [all[n] EXCEPT !.kids = [all[n].kids EXCEPT ![t] = sorted]] \in NodesOn(DOMAIN all)
    BY <2>1, <2>3 DEF NodesOn
  <2>5. N = [all EXCEPT ![n] = [all[n] EXCEPT !.kids = [all[n].kids EXCEPT ![t] = sorted]]]
    BY <1>4
  <2> QED BY <2>1, <2>4, <2>5 DEF IsHeap
<1> QED BY <1>2, <1>3, <1>6, <1>7, <1>8, <1>9 DEF KidAdded, sorted, N

----------------------------------------------------------------------------
(* Descending *)

\* The child that a pattern goes on through, if there is one: its prefix begins
\* with the pattern's next edge.
LEMMA EdgeTakenIs ==
  ASSUME NEW reg, NEW nodes, IsLog(reg), IsTree(nodes, reg), NEW n \in DOMAIN nodes,
         NEW p \in Patterns, NEW i \in 1 .. Len(p)
  PROVE  /\ Edges(nodes, n, p, i) # {} =>
              /\ EdgeTaken(nodes, n, p, i) \in Kids(nodes, n)
              /\ nodes[EdgeTaken(nodes, n, p, i)].prefix[1] = Edge(p, i)
              /\ EdgeTaken(nodes, n, p, i) \in ToSet(nodes[n].kids[TypeOf(p[i])])
         /\ Edges(nodes, n, p, i) = {} =>
              \A k \in Kids(nodes, n) : nodes[k].prefix[1] # Edge(p, i)
<1>1. TypeOf(p[i]) \in NodeTypes /\ Edge(p, i).typ = TypeOf(p[i])
  BY EdgeTypes
<1>2. ASSUME Edges(nodes, n, p, i) # {}
      PROVE  EdgeTaken(nodes, n, p, i) \in Edges(nodes, n, p, i)
  BY <1>2 DEF EdgeTaken
<1>3. ASSUME NEW k \in Kids(nodes, n), nodes[k].prefix[1] = Edge(p, i)
      PROVE  k \in Edges(nodes, n, p, i)
  BY <1>1, <1>3, KidFacts DEF Edges
<1> QED BY <1>1, <1>2, <1>3 DEF Edges, Kids

\* Where a descent ends: at a node on the way of the pattern, with no child whose
\* whole prefix the pattern goes through.
Stuck(nodes, n, p, used) ==
  used = Len(p) \/ Edges(nodes, n, p, used + 1) = {} \/
    CommonLen(nodes[EdgeTaken(nodes, n, p, used + 1)].prefix, p, used) <
      Len(nodes[EdgeTaken(nodes, n, p, used + 1)].prefix)

\* A step of it: to a child, with that child's length.
LEMMA DescendStep ==
  ASSUME NEW reg, NEW nodes, IsLog(reg), IsTree(nodes, reg), NEW i \in 1 .. Len(reg),
         NEW p, p = reg[i][2], NEW n \in DOMAIN nodes, NEW used \in 0 .. Len(p),
         ~Stuck(nodes, n, p, used)
  PROVE  LET kid == EdgeTaken(nodes, n, p, used + 1)
             c == CommonLen(nodes[kid].prefix, p, used)
         IN /\ kid \in DOMAIN nodes /\ used + c \in 0 .. Len(p) /\ c \in Nat /\ c >= 1
            /\ n[2] = used /\ Leads(reg, n, <<i, used>>) =>
                 kid[2] = used + c /\ Leads(reg, kid, <<i, used + c>>)
<1> DEFINE kid == EdgeTaken(nodes, n, p, used + 1)
           c == CommonLen(nodes[kid].prefix, p, used)
<1>1. p \in Patterns /\ Len(p) \in Nat /\ used + 1 \in 1 .. Len(p)
  BY LogTypes, PatternTypes DEF Stuck
<1>2. Edges(nodes, n, p, used + 1) # {} /\ ~(c < Len(nodes[kid].prefix))
  BY DEF Stuck
<1>3. kid \in Kids(nodes, n) /\ nodes[kid].prefix[1] = Edge(p, used + 1)
  BY <1>1, <1>2, EdgeTakenIs
<1>4. /\ kid \in DOMAIN nodes /\ kid \in Nat \X Nat /\ n \in Nat \X Nat
      /\ Spans(reg, nodes[kid].prefix, n, kid) /\ nodes[kid].prefix \in Seq(AllEdges)
  BY <1>3, KidFacts
<1> HIDE DEF kid
<1>5. Len(nodes[kid].prefix) \in Nat
  BY <1>4
<1> DEFINE prefix == nodes[kid].prefix
<1> HIDE DEF prefix
<1>6. /\ CommonLen(prefix, p, used) \in 0 .. Len(prefix)
      /\ used + CommonLen(prefix, p, used) <= Len(p)
      /\ \A x \in 1 .. CommonLen(prefix, p, used) : prefix[x] = Edge(p, used + x)
  <2>1. Len(prefix) \in Nat /\ Len(p) \in Nat
    BY <1>1, <1>5 DEF prefix
  <2>2. IsCommonLen(prefix, p, used, CommonLen(prefix, p, used))
    BY <2>1, CommonLenIs
  <2> QED BY <2>2 DEF IsCommonLen
<1>61. /\ c \in 0 .. Len(nodes[kid].prefix) /\ used + c <= Len(p)
      /\ \A x \in 1 .. c : nodes[kid].prefix[x] = Edge(p, used + x)
  BY <1>6 DEF prefix
<1> HIDE DEF c
<1>7. c = Len(nodes[kid].prefix)
  BY <1>2, <1>5, <1>61
<1>8. c = kid[2] - n[2] /\ c >= 1
  BY <1>4, <1>7 DEF Spans
<1>9. ASSUME n[2] = used, Leads(reg, n, <<i, used>>)
      PROVE  kid[2] = used + c /\ Leads(reg, kid, <<i, used + c>>)
  <2>1. kid[2] = used + c
    BY <1>4, <1>8, <1>9
  <2>2. ASSUME NEW x \in 1 .. kid[2] PROVE Way(reg, kid, x) = Way(reg, <<i, used + c>>, x)
    <3>1. CASE x <= used
      <4>1. Way(reg, n, x) = Way(reg, kid, x)
        BY <1>4, <1>9, <3>1 DEF Spans, Leads
      <4>2. Way(reg, n, x) = Way(reg, <<i, used>>, x)
        BY <1>4, <1>9, <3>1 DEF Leads
      <4> QED BY <4>1, <4>2 DEF Way
    <3>2. CASE x > used
      <4>0. c \in Nat /\ used \in Nat /\ x \in Nat /\ x <= used + c
        BY <1>1, <1>5, <1>61, <2>1
      <4>1. x - used \in 1 .. c /\ used + (x - used) = x
        BY <4>0, <3>2
      <4>2. nodes[kid].prefix[x - used] = Edge(p, x)
        BY <1>61, <4>1
      <4>3. nodes[kid].prefix[x - used] = Way(reg, kid, x)
        BY <1>4, <1>8, <1>9, <4>1 DEF Spans
      <4> QED BY <4>2, <4>3 DEF Way
    <3> QED BY <3>1, <3>2, <1>4
  <2> QED BY <2>1, <2>2, <1>4 DEF Leads
<1>10. used + c \in 0 .. Len(p) /\ c \in Nat
  BY <1>1, <1>5, <1>61
<1> QED BY <1>4, <1>8, <1>9, <1>10 DEF c, kid

LEMMA Pairs ==
  ASSUME NEW S, NEW T
  PROVE  /\ \A x \in S \X T : x[1] \in S /\ x[2] \in T /\ x = <<x[1], x[2]>>
         /\ \A a \in S, b \in T : <<a, b>> \in S \X T
OBVIOUS

\* The loop of InsertRoute ends at a node on the way of the pattern, as long as
\* what was used of it, that has no child to go on through.
LEMMA DescendIs ==
  ASSUME NEW reg, NEW nodes, IsLog(reg), IsTree(nodes, reg), NEW i \in 1 .. Len(reg),
         NEW p, p = reg[i][2]
  PROVE  \E n \in DOMAIN nodes, used \in 0 .. Len(p) :
           /\ Descend(nodes, p) = <<n, used>> /\ n[2] = used
           /\ Leads(reg, n, <<i, used>>) /\ Stuck(nodes, n, p, used)
<1> DEFINE D == (DOMAIN nodes) \X (0 .. Len(p))
           Kid(x) == EdgeTaken(nodes, x[1], p, x[2] + 1)
           Further(x) == x[2] + CommonLen(nodes[Kid(x)].prefix, p, x[2])
           Ends(x) == Stuck(nodes, x[1], p, x[2])
           On(x) == x[1][2] = x[2] /\ Leads(reg, x[1], <<i, x[2]>>)
<1>1. p \in Patterns /\ Len(p) \in Nat
  BY LogTypes, PatternTypes
<1>2. ASSUME NEW x \in D
      PROVE  x[1] \in DOMAIN nodes /\ x[2] \in 0 .. Len(p) /\ x[2] \in Nat /\ x = <<x[1], x[2]>>
  BY <1>1, Pairs
<1>3. ASSUME NEW x \in D, NEW f
      PROVE  DescendFrom(f, nodes, p, x[1], x[2]) =
               IF Ends(x) THEN x ELSE f[<<Kid(x), Further(x)>>]
  BY <1>2 DEF DescendFrom, Stuck
<1>4. ASSUME NEW x \in D, ~Ends(x)
      PROVE  /\ <<Kid(x), Further(x)>> \in D /\ Further(x) \in Nat /\ x[2] < Further(x)
             /\ On(x) => On(<<Kid(x), Further(x)>>)
  <2>1. x[1] \in DOMAIN nodes /\ x[2] \in 0 .. Len(p) /\ x[2] \in Nat
    BY <1>2
  <2>2. /\ Kid(x) \in DOMAIN nodes /\ Further(x) \in 0 .. Len(p)
        /\ CommonLen(nodes[Kid(x)].prefix, p, x[2]) \in Nat
        /\ CommonLen(nodes[Kid(x)].prefix, p, x[2]) >= 1
        /\ On(x) => Kid(x)[2] = Further(x) /\ Leads(reg, Kid(x), <<i, Further(x)>>)
    BY <1>4, <2>1, DescendStep
  <2> QED BY <1>1, <2>1, <2>2
<1> DEFINE measure == [x \in D |-> Len(p) - x[2]]
           f0 == [x \in D |-> x]
           B == Len(p)
           G == [y \in D \X [D -> D] |-> DescendFrom(y[2], nodes, p, y[1][1], y[1][2])]
<1>5. measure \in [D -> 0 .. Len(p)] /\ f0 \in [D -> D]
  <2>1. \A x \in D : x[2] \in 0 .. Len(p)
    BY <1>2
  <2> HIDE DEF D
  <2>2. \A x \in D : Len(p) - x[2] \in 0 .. Len(p)
    BY <1>1, <2>1
  <2> QED BY <2>2
<1>6. \A x \in D, f \in [D -> D] :
        G[<<x, f>>] = IF Ends(x) THEN x ELSE f[<<Kid(x), Further(x)>>]
  <2> TAKE x \in D, f \in [D -> D]
  <2>1. G[<<x, f>>] = DescendFrom(f, nodes, p, x[1], x[2])
    <3> HIDE DEF D
    <3> QED OBVIOUS
  <2> HIDE DEF G, Ends, Kid, Further
  <2> QED BY <1>3, <2>1
<1>7. \A x \in D : measure[x] = Len(p) - x[2]
  OBVIOUS
<1>8. \A x \in D, f \in [D -> D] : DescendFrom(f, nodes, p, x[1], x[2]) \in D
  <2> TAKE x \in D, f \in [D -> D]
  <2> HIDE DEF D, Ends, Kid, Further
  <2> QED BY <1>3, <1>4
<1>9. G \in [D \X [D -> D] -> D]
  <2>1. \A y \in D \X [D -> D] : DescendFrom(y[2], nodes, p, y[1][1], y[1][2]) \in D
    <3> HIDE DEF D
    <3> QED BY <1>8
  <2> HIDE DEF D
  <2> QED BY <2>1
<1> HIDE DEF Kid, Further, Ends, On, D
<1>10. ASSUME NEW x \in D, NEW f \in [D -> D], NEW g \in [D -> D],
              \A y \in D : measure[y] < measure[x] => f[y] = g[y]
       PROVE  G[<<x, f>>] = G[<<x, g>>]
  <2>1. CASE Ends(x)
    <3> HIDE DEF G
    <3> QED BY <1>6, <2>1
  <2>2. CASE ~Ends(x)
    <3> DEFINE y == <<Kid(x), Further(x)>>
    <3>1. y \in D /\ x[2] < y[2] /\ y[2] \in Nat /\ x[2] \in Nat
      BY <1>2, <1>4, <2>2
    <3>2. measure[y] < measure[x]
      <4> HIDE DEF y, measure
      <4> QED BY <1>1, <1>7, <3>1
    <3>3. f[y] = g[y]
      BY <1>10, <3>1, <3>2
    <3> HIDE DEF G
    <3> QED BY <1>6, <2>2, <3>3
  <2> QED BY <2>1, <2>2
<1>11. PICK down \in [D -> D] : Follows(down, D, G)
  <2>1. LooksDown(D, D, measure, G)
    <3> HIDE DEF measure, G
    <3> QED BY <1>9, <1>10 DEF LooksDown
  <2>2. B \in Nat /\ measure \in [D -> 0 .. B]
    BY <1>1, <1>5
  <2> HIDE DEF measure, f0, G, B
  <2> QED BY <1>5, <2>1, <2>2, RecursionExists
<1> DEFINE IsDown(d) == d = [x \in D |-> DescendFrom(d, nodes, p, x[1], x[2])]
           d0 == CHOOSE d : IsDown(d)
<1>12. IsDown(down)
  <2>1. \A x \in D : down[x] = DescendFrom(down, nodes, p, x[1], x[2])
    <3> TAKE x \in D
    <3>1. <<x, down>> \in D \X [D -> D]
      OBVIOUS
    <3> QED BY <1>11, <3>1 DEF Follows
  <2> QED BY <2>1
<1>13. IsDown(d0)
  <2> HIDE DEF IsDown
  <2> QED BY <1>12
<1>14. Descend(nodes, p) = d0[<<Top, 0>>]
  BY DEF Descend, D
<1> HIDE DEF d0
<1>15. \A x \in D : d0[x] = IF Ends(x) THEN x ELSE d0[<<Kid(x), Further(x)>>]
  <2>1. \A x \in D : d0[x] = DescendFrom(d0, nodes, p, x[1], x[2])
    BY <1>13
  <2> HIDE DEF IsDown
  <2> QED BY <1>3, <2>1
<1> HIDE DEF IsDown
<1> DEFINE Found(x) == \E m \in D : d0[x] = m /\ On(m) /\ Ends(m)
           S == {b \in Nat : \A x \in D : On(x) /\ Len(p) - x[2] < b => Found(x)}
<1>16. 0 \in S
  <2>1. \A x \in D : ~(Len(p) - x[2] < 0)
    BY <1>1, <1>2
  <2> QED BY <2>1
<1>17. ASSUME NEW b \in Nat, b \in S PROVE b + 1 \in S
  <2> SUFFICES ASSUME NEW x \in D, On(x), Len(p) - x[2] < b + 1 PROVE Found(x)
    OBVIOUS
  <2>1. CASE Ends(x)
    <3>1. d0[x] = x
      BY <1>15, <2>1
    <3> QED BY <2>1, <3>1
  <2>2. CASE ~Ends(x)
    <3> DEFINE y == <<Kid(x), Further(x)>>
    <3>1. y \in D /\ On(y) /\ x[2] < y[2] /\ y[2] \in Nat /\ x[2] \in Nat
      BY <1>2, <1>4, <2>2
    <3>2. d0[x] = d0[y]
      BY <1>15, <2>2
    <3> HIDE DEF y
    <3>3. Len(p) - y[2] < b
      BY <1>1, <3>1
    <3>4. Found(y)
      BY <1>17, <3>1, <3>3
    <3> QED BY <3>2, <3>4
  <2> QED BY <2>1, <2>2
<1>18. Len(p) + 1 \in S
  <2> HIDE DEF S
  <2> QED BY <1>1, <1>16, <1>17, AllNumbers
<1> DEFINE start == <<Top, 0>>
<1>19. start \in D /\ On(start) /\ start[2] = 0
  BY <1>1 DEF IsTree, Placed, Top, Leads, D, On
<1>20. Len(p) - start[2] < Len(p) + 1
  BY <1>1, <1>19
<1> HIDE DEF start
<1>21. PICK m \in D : d0[start] = m /\ On(m) /\ Ends(m)
  BY <1>18, <1>19, <1>20
<1>22. m[1] \in DOMAIN nodes /\ m[2] \in 0 .. Len(p) /\ m = <<m[1], m[2]>>
  BY <1>2
<1> QED BY <1>14, <1>21, <1>22 DEF start, On, Ends

----------------------------------------------------------------------------
(* What keeps the tree a tree *)

\* More registrations.
LEMMA LogGrows ==
  ASSUME NEW reg, NEW more, NEW nodes, IsLog(reg), IsLog(more), Len(reg) <= Len(more),
         \A i \in 1 .. Len(reg) : more[i] = reg[i], IsTree(nodes, reg)
  PROVE  IsTree(nodes, more)
<1>1. Len(reg) \in Nat /\ Len(more) \in Nat
  BY DEF IsLog
<1>2. DOMAIN nodes \subseteq Positions(reg)
  BY DEF IsTree, Placed
<1>3. ASSUME NEW n \in DOMAIN nodes, n # Top PROVE reg[n[1]] = more[n[1]]
  BY <1>2, <1>3, PositionTypes
<1>4. ASSUME NEW m \in DOMAIN nodes, NEW n \in DOMAIN nodes
      PROVE  Leads(reg, m, n) = Leads(more, m, n)
  <2>1. m[2] \in Nat /\ n[2] \in Nat /\ (m = Top => m[2] = 0) /\ (n = Top => n[2] = 0)
    BY <1>2, PositionTypes
  <2>2. CASE m = Top
    BY <2>1, <2>2 DEF Leads
  <2>3. CASE m # Top /\ n = Top
    <3>1. 1 <= m[2]
      BY <1>2, <2>3, PositionTypes
    <3> QED BY <2>1, <2>3, <3>1 DEF Leads
  <2>4. CASE m # Top /\ n # Top
    BY <1>3, <2>4 DEF Leads, Way
  <2> QED BY <2>2, <2>3, <2>4
<1>5. Placed(nodes, more)
  <2>1. \A n \in Positions(reg) : n \in Positions(more)
    BY <1>1 DEF Positions
  <2> QED BY <1>2, <2>1 DEF IsTree, Placed
<1>6. KidsFit(nodes, more)
  <2> SUFFICES ASSUME NEW n \in DOMAIN nodes, NEW t \in NodeTypes,
                      NEW k \in ToSet(nodes[n].kids[t])
               PROVE  Spans(more, nodes[k].prefix, n, k) /\ nodes[k].prefix[1].typ = t
    BY DEF KidsFit
  <2>1. Spans(reg, nodes[k].prefix, n, k) /\ nodes[k].prefix[1].typ = t
    BY DEF IsTree, KidsFit
  <2>2. k \in DOMAIN nodes
    BY KidFacts DEF Kids
  <2>3. n[2] \in Nat /\ (k = Top => k[2] = 0)
    BY <1>2, <2>2, PositionTypes
  <2>4. k # Top
    BY <2>1, <2>3 DEF Spans
  <2>5. reg[k[1]] = more[k[1]]
    BY <1>3, <2>2, <2>4
  <2>6. Leads(more, n, k)
    BY <1>4, <2>1, <2>2 DEF Spans
  <2> QED BY <2>1, <2>5, <2>6 DEF Spans, Way
<1>7. Connected(nodes, more)
  <2> SUFFICES ASSUME NEW n \in DOMAIN nodes, NEW m \in DOMAIN nodes,
                      Leads(more, n, m), n # m
               PROVE  \E k \in Kids(nodes, n) : Leads(more, k, m)
    BY DEF Connected
  <2>1. Leads(reg, n, m)
    BY <1>4
  <2>2. PICK k \in Kids(nodes, n) : Leads(reg, k, m)
    BY <2>1 DEF IsTree, Connected
  <2>3. k \in DOMAIN nodes
    BY KidFacts
  <2> QED BY <1>4, <2>2, <2>3
<1> QED BY <1>5, <1>6, <1>7 DEF IsTree

\* Endpoints do not matter to it.
LEMMA SameShapeIsTree ==
  ASSUME NEW reg, NEW nodes, NEW N, IsTree(nodes, reg), IsHeap(N), DOMAIN N = DOMAIN nodes,
         \A m \in DOMAIN nodes : N[m].prefix = nodes[m].prefix /\ N[m].kids = nodes[m].kids
  PROVE  IsTree(N, reg)
<1>1. \A m \in DOMAIN nodes : Kids(N, m) = Kids(nodes, m)
  BY DEF Kids
<1>2. \A n \in DOMAIN nodes, t \in NodeTypes :
        \A k \in ToSet(nodes[n].kids[t]) : k \in DOMAIN nodes
  BY DEF IsTree, IsHeap, NodesOn, ToSet
<1>3. \A n \in DOMAIN nodes : \A k \in Kids(nodes, n) : k \in DOMAIN nodes
  BY <1>2 DEF Kids
<1>4. Placed(N, reg)
  BY DEF IsTree, Placed
<1>5. KidsFit(N, reg)
  BY <1>2 DEF IsTree, KidsFit
<1>6. SiblingsDiffer(N)
  BY <1>1, <1>3 DEF IsTree, SiblingsDiffer
<1>7. Connected(N, reg)
  BY <1>1 DEF IsTree, Connected
<1> QED BY <1>4, <1>5, <1>6, <1>7 DEF IsTree

\* What SetEndpoint does.
LEMMA SetEndpointIs ==
  ASSUME NEW nodes, IsHeap(nodes), NEW n \in DOMAIN nodes, NEW op \in Ops, NEW p \in Patterns
  PROVE  EndpointIsSet(nodes, SetEndpoint(nodes, n, op, p), n, op, p)
<1> DEFINE N == SetEndpoint(nodes, n, op, p)
<1>1. N = [nodes EXCEPT ![n].eps[op] = p]
  BY DEF SetEndpoint
<1> HIDE DEF N
<1>2. \A m \in DOMAIN nodes : nodes[m] \in NodesOn(DOMAIN nodes)
  BY DEF IsHeap
<1>3. /\ DOMAIN nodes[n] = {"prefix", "eps", "kids"} /\ DOMAIN nodes[n].eps = Ops
      /\ DOMAIN N = DOMAIN nodes
  BY <1>1, <1>2 DEF NodesOn
<1>4. N[n].eps[op] = p
  BY <1>1, <1>3
<1>5. \A m \in DOMAIN nodes : N[m].prefix = nodes[m].prefix /\ N[m].kids = nodes[m].kids
  BY <1>1, <1>3
<1>6. \A m \in DOMAIN nodes, o \in Ops : m # n \/ o # op => N[m].eps[o] = nodes[m].eps[o]
  BY <1>1, <1>3
<1>7. IsHeap(N)
  <2>1. [nodes[n].eps EXCEPT ![op] = p] \in [Ops -> Patterns \cup {NoRoute}]
    BY <1>2 DEF NodesOn
  <2>2. [nodes[n] EXCEPT !.eps = [nodes[n].eps EXCEPT ![op] = p]] \in NodesOn(DOMAIN nodes)
    BY <1>2, <2>1 DEF NodesOn
  <2>3. N = [nodes EXCEPT ![n] = [nodes[n] EXCEPT !.eps = [nodes[n].eps EXCEPT ![op] = p]]]
    BY <1>1
  <2>4. N \in [DOMAIN nodes -> NodesOn(DOMAIN nodes)]
    BY <1>2, <2>2, <2>3 DEF IsHeap
  <2> QED BY <1>3, <2>4 DEF IsHeap
<1> QED BY <1>3, <1>4, <1>5, <1>6, <1>7 DEF EndpointIsSet, N

----------------------------------------------------------------------------
(* Splitting a child *)

\* What Split does.
IsSplit(nodes, N, n, kid, upper, c) ==
  /\ IsHeap(N) /\ DOMAIN N = DOMAIN nodes \cup {upper}
  /\ Len(N[upper].prefix) = c
  /\ \A i \in 1 .. c : N[upper].prefix[i] = nodes[kid].prefix[i]
  /\ \A op \in Ops : N[upper].eps[op] = NoRoute
  /\ \A t \in NodeTypes : ToSet(N[upper].kids[t]) = IF t = "static" THEN {kid} ELSE {}
  /\ Len(N[kid].prefix) = Len(nodes[kid].prefix) - c
  /\ \A i \in 1 .. Len(nodes[kid].prefix) - c : N[kid].prefix[i] = nodes[kid].prefix[c + i]
  /\ \A m \in DOMAIN nodes : m # kid => N[m].prefix = nodes[m].prefix
  /\ \A m \in DOMAIN nodes : N[m].eps = nodes[m].eps
  /\ \A m \in DOMAIN nodes, t \in NodeTypes :
       m # n \/ t # "static" => N[m].kids[t] = nodes[m].kids[t]
  /\ ToSet(N[n].kids["static"]) = (ToSet(nodes[n].kids["static"]) \ {kid}) \cup {upper}

InPlace(ns, old, new) == [i \in DOMAIN ns |-> IF ns[i] = old THEN new ELSE ns[i]]

LEMMA PutInPlace ==
  ASSUME NEW S, NEW ns \in Seq(S), NEW old \in ToSet(ns), NEW new \in S
  PROVE  /\ InPlace(ns, old, new) \in Seq(S)
         /\ ToSet(InPlace(ns, old, new)) = (ToSet(ns) \ {old}) \cup {new}
<1> DEFINE s == [i \in DOMAIN ns |-> IF ns[i] = old THEN new ELSE ns[i]]
<1>0. s = InPlace(ns, old, new)
  BY DEF InPlace
<1>1. Len(ns) \in Nat /\ DOMAIN ns = 1 .. Len(ns) /\ \A i \in 1 .. Len(ns) : ns[i] \in S
  OBVIOUS
<1>2. s \in [1 .. Len(ns) -> S]
  BY <1>1
<1>3. s \in Seq(S)
  BY <1>1, <1>2
<1>4. PICK i \in DOMAIN ns : ns[i] = old
  BY DEF ToSet
<1>5. new \in ToSet(s)
  BY <1>4 DEF ToSet
<1>6. ToSet(s) \subseteq (ToSet(ns) \ {old}) \cup {new}
  BY DEF ToSet
<1>7. ToSet(ns) \ {old} \subseteq ToSet(s)
  BY DEF ToSet
<1> QED BY <1>0, <1>3, <1>5, <1>6, <1>7

LEMMA Subsequence ==
  ASSUME NEW S, NEW s \in Seq(S), NEW from \in 1 .. Len(s), NEW to \in from .. Len(s)
  PROVE  /\ SubSeq(s, from, to) \in Seq(S) /\ Len(SubSeq(s, from, to)) = to - from + 1
         /\ \A i \in 1 .. to - from + 1 : SubSeq(s, from, to)[i] = s[from + i - 1]
<1>1. Len(s) \in Nat
  OBVIOUS
<1>2. SubSeq(s, from, to) \in Seq(S)
  OBVIOUS
<1>3. Len(SubSeq(s, from, to)) = to - from + 1
  BY <1>1
<1>4. \A i \in 1 .. to - from + 1 : SubSeq(s, from, to)[i] = s[from + i - 1]
  BY <1>1
<1> QED BY <1>2, <1>3, <1>4

LEMMA SplitIs ==
  ASSUME NEW nodes, IsHeap(nodes), NEW n \in DOMAIN nodes,
         NEW kid \in ToSet(nodes[n].kids["static"]), kid # n, NEW upper, upper \notin DOMAIN nodes,
         NEW c \in 1 .. Len(nodes[kid].prefix) - 1
  PROVE  IsSplit(nodes, Split(nodes, n, kid, upper, c), n, kid, upper, c)
<1> DEFINE prefix == nodes[kid].prefix
           D == DOMAIN nodes \cup {upper}
           above == [NewNode(SubSeq(prefix, 1, c)) EXCEPT !.kids["static"] = <<kid>>]
           below == [nodes[kid] EXCEPT !.prefix = SubSeq(@, c + 1, Len(@))]
           kids == [i \in DOMAIN nodes[n].kids["static"] |->
                      IF nodes[n].kids["static"][i] = kid THEN upper
                      ELSE nodes[n].kids["static"][i]]
           parent == [nodes[n] EXCEPT !.kids["static"] = kids]
           N == Split(nodes, n, kid, upper, c)
<1>1. "static" \in NodeTypes
  BY DEF NodeTypes
<1>2. nodes[n].kids["static"] \in Seq(DOMAIN nodes)
  BY <1>1 DEF IsHeap, NodesOn
<1>3. kid \in DOMAIN nodes
  BY <1>2 DEF ToSet
<1>4. N = [m \in D |-> CASE m = upper -> above [] m = kid -> below
                         [] m = n -> parent [] OTHER -> nodes[m]]
  BY DEF Split
<1> HIDE DEF N, above, below, parent
<1>5. /\ DOMAIN N = D /\ N[upper] = above /\ N[kid] = below /\ N[n] = parent
      /\ \A m \in DOMAIN nodes : m # kid /\ m # n => N[m] = nodes[m]
  BY <1>3, <1>4
<1>6. \A m \in DOMAIN nodes : nodes[m] \in NodesOn(DOMAIN nodes)
  BY DEF IsHeap
<1>7. \A r \in NodesOn(DOMAIN nodes) : r \in NodesOn(D)
  <2>1. \A s : s \in Seq(DOMAIN nodes) => s \in Seq(D)
    OBVIOUS
  <2> QED BY <2>1 DEF NodesOn
<1>8. prefix \in Seq(AllEdges) /\ Len(prefix) \in Nat
  BY <1>3, <1>6 DEF NodesOn
<1> HIDE DEF D
<1> DEFINE new == NewNode(SubSeq(prefix, 1, c))
<1>91. /\ new = [prefix |-> SubSeq(prefix, 1, c), eps |-> [op \in Ops |-> NoRoute],
                kids |-> [t \in NodeTypes |-> <<>>]]
       /\ above = [new EXCEPT !.kids = [new.kids EXCEPT !["static"] = <<kid>>]]
  BY DEF above, NewNode
<1>92. /\ new.prefix = SubSeq(prefix, 1, c) /\ new.eps = [op \in Ops |-> NoRoute]
       /\ new.kids = [t \in NodeTypes |-> <<>>] /\ DOMAIN new = {"prefix", "eps", "kids"}
  <2> HIDE DEF new, prefix
  <2> QED BY <1>91
<1> HIDE DEF new
<1>9. /\ above.prefix = SubSeq(prefix, 1, c) /\ above.eps = [op \in Ops |-> NoRoute]
      /\ above.kids = [[t \in NodeTypes |-> <<>>] EXCEPT !["static"] = <<kid>>]
  BY <1>91, <1>92
<1>10. /\ SubSeq(prefix, 1, c) \in Seq(AllEdges) /\ Len(SubSeq(prefix, 1, c)) = c
       /\ \A i \in 1 .. c : SubSeq(prefix, 1, c)[i] = prefix[i]
  <2> HIDE DEF prefix
  <2>1. SubSeq(prefix, 1, c) \in Seq(AllEdges)
    BY <1>8, Subsequence DEF prefix
  <2> QED BY <1>8, <2>1, Subsequence DEF prefix
<1>11. above \in NodesOn(D)
  <2>1. <<kid>> \in Seq(D) /\ <<>> \in Seq(D)
    BY <1>3 DEF D
  <2>2. [[t \in NodeTypes |-> <<>>] EXCEPT !["static"] = <<kid>>] \in [NodeTypes -> Seq(D)]
    BY <2>1
  <2>3. [op \in Ops |-> NoRoute] \in [Ops -> Patterns \cup {NoRoute}]
    OBVIOUS
  <2>4. new \in NodesOn(D)
    <3>1. [t \in NodeTypes |-> <<>>] \in [NodeTypes -> Seq(D)]
      BY <2>1
    <3> QED BY <1>10, <1>91, <2>3, <3>1 DEF NodesOn
  <2> QED BY <1>91, <1>92, <2>2, <2>4 DEF NodesOn
<1>12. /\ below.prefix = SubSeq(prefix, c + 1, Len(prefix))
       /\ below.eps = nodes[kid].eps /\ below.kids = nodes[kid].kids
       /\ below = [nodes[kid] EXCEPT !.prefix = below.prefix]
  <2>1. DOMAIN nodes[kid] = {"prefix", "eps", "kids"}
    BY <1>3, <1>6 DEF NodesOn
  <2> QED BY <2>1 DEF below
<1>13. /\ below.prefix \in Seq(AllEdges) /\ Len(below.prefix) = Len(prefix) - c
       /\ \A i \in 1 .. Len(prefix) - c : below.prefix[i] = prefix[c + i]
  <2>1. c + 1 \in 1 .. Len(prefix) /\ Len(prefix) \in c + 1 .. Len(prefix)
    BY <1>8
  <2>2. Len(prefix) - (c + 1) + 1 = Len(prefix) - c /\ \A i \in Nat : c + 1 + i - 1 = c + i
    BY <1>8
  <2> HIDE DEF prefix
  <2>3. /\ SubSeq(prefix, c + 1, Len(prefix)) \in Seq(AllEdges)
        /\ Len(SubSeq(prefix, c + 1, Len(prefix))) = Len(prefix) - (c + 1) + 1
        /\ \A i \in 1 .. Len(prefix) - (c + 1) + 1 :
             SubSeq(prefix, c + 1, Len(prefix))[i] = prefix[c + 1 + i - 1]
    BY <1>8, <2>1, Subsequence
  <2> QED BY <1>12, <2>2, <2>3
<1>14. below \in NodesOn(D)
  <2>1. nodes[kid] \in NodesOn(D)
    BY <1>3, <1>6, <1>7
  <2> QED BY <1>12, <1>13, <2>1 DEF NodesOn
<1>15. kids \in Seq(D) /\ ToSet(kids) = (ToSet(nodes[n].kids["static"]) \ {kid}) \cup {upper}
  <2> DEFINE ns == nodes[n].kids["static"]
  <2>1. ns \in Seq(DOMAIN nodes) /\ kid \in ToSet(ns)
    BY <1>2
  <2>2. kids = InPlace(ns, kid, upper)
    BY DEF InPlace
  <2>3. upper \in D /\ DOMAIN nodes \subseteq D
    BY DEF D
  <2> HIDE DEF ns, D
  <2>30. ns \in Seq(D)
    BY <2>1, <2>3
  <2> HIDE DEF kids
  <2>4. /\ InPlace(ns, kid, upper) \in Seq(D)
        /\ ToSet(InPlace(ns, kid, upper)) = (ToSet(ns) \ {kid}) \cup {upper}
    BY <2>1, <2>3, <2>30, PutInPlace
  <2> QED BY <2>2, <2>4 DEF ns
<1> HIDE DEF kids
<1>16. /\ parent.prefix = nodes[n].prefix /\ parent.eps = nodes[n].eps
       /\ parent.kids = [nodes[n].kids EXCEPT !["static"] = kids]
       /\ parent = [nodes[n] EXCEPT !.kids = [nodes[n].kids EXCEPT !["static"] = kids]]
  <2>1. DOMAIN nodes[n] = {"prefix", "eps", "kids"}
    BY <1>6 DEF NodesOn
  <2> QED BY <2>1 DEF parent
<1>17. nodes[n] \in NodesOn(D) /\ DOMAIN nodes[n].kids = NodeTypes
  BY <1>6, <1>7 DEF NodesOn
<1>18. parent \in NodesOn(D)
  <2>1. [nodes[n].kids EXCEPT !["static"] = kids] \in [NodeTypes -> Seq(D)]
    BY <1>15, <1>17 DEF NodesOn
  <2> QED BY <1>16, <1>17, <2>1 DEF NodesOn
<1>19. IsHeap(N)
  <2>1. \A m \in D : N[m] \in NodesOn(D)
    BY <1>5, <1>6, <1>7, <1>11, <1>14, <1>18 DEF D
  <2>2. N \in [D -> NodesOn(D)]
    BY <1>4, <2>1
  <2> QED BY <1>5, <2>2 DEF IsHeap
<1>20. \A t \in NodeTypes : ToSet(N[upper].kids[t]) = IF t = "static" THEN {kid} ELSE {}
  BY <1>5, <1>9 DEF ToSet
<1>21. \A m \in DOMAIN nodes : m # kid => N[m].prefix = nodes[m].prefix
  BY <1>5, <1>16
<1>22. \A m \in DOMAIN nodes : N[m].eps = nodes[m].eps
  BY <1>5, <1>12, <1>16
<1>23. ASSUME NEW m \in DOMAIN nodes, NEW t \in NodeTypes, m # n \/ t # "static"
       PROVE  N[m].kids[t] = nodes[m].kids[t]
  <2>1. CASE m = n
    BY <1>5, <1>16, <1>17, <1>23, <2>1
  <2>2. CASE m = kid
    BY <1>5, <1>12, <2>2
  <2>3. CASE m # n /\ m # kid
    BY <1>5, <2>3
  <2> QED BY <2>1, <2>2, <2>3
<1>24. ToSet(N[n].kids["static"]) = (ToSet(nodes[n].kids["static"]) \ {kid}) \cup {upper}
  BY <1>1, <1>5, <1>15, <1>16, <1>17
<1>25. \A op \in Ops : N[upper].eps[op] = NoRoute
  BY <1>5, <1>9
<1>26. /\ DOMAIN N = DOMAIN nodes \cup {upper} /\ Len(N[upper].prefix) = c
       /\ \A i \in 1 .. c : N[upper].prefix[i] = nodes[kid].prefix[i]
       /\ Len(N[kid].prefix) = Len(nodes[kid].prefix) - c
       /\ \A i \in 1 .. Len(nodes[kid].prefix) - c : N[kid].prefix[i] = nodes[kid].prefix[c + i]
  BY <1>5, <1>9, <1>10, <1>13 DEF D
<1> QED BY <1>19, <1>20, <1>21, <1>22, <1>23, <1>24, <1>25, <1>26 DEF IsSplit, N

LEMMA SplitIsTree ==
  ASSUME NEW reg, NEW nodes, IsLog(reg), IsTree(nodes, reg), NEW n \in DOMAIN nodes,
         NEW kid \in ToSet(nodes[n].kids["static"]),
         NEW upper \in Positions(reg), upper \notin DOMAIN nodes,
         NEW c \in 1 .. Len(nodes[kid].prefix) - 1, upper[2] = n[2] + c, Leads(reg, upper, kid),
         NEW N, IsSplit(nodes, N, n, kid, upper, c)
  PROVE  IsTree(N, reg)
<1> DEFINE prefix == nodes[kid].prefix
<1>1. "static" \in NodeTypes
  BY DEF NodeTypes
<1>2. kid \in Kids(nodes, n)
  BY <1>1 DEF Kids
<1>3. /\ kid \in DOMAIN nodes /\ Spans(reg, prefix, n, kid) /\ prefix \in Seq(AllEdges)
      /\ Len(prefix) \in Nat
  BY <1>2, KidFacts
<1>4. prefix[1].typ = "static" /\ prefix[1] = Way(reg, kid, n[2] + 1)
  BY <1>1, <1>2, KidFacts DEF IsTree, KidsFit
<1>5. \A m \in DOMAIN nodes : m \in Positions(reg) /\ m \in Nat \X Nat /\ m[2] \in Nat
  BY PositionTypes DEF IsTree, Placed
<1>6. upper \in Nat \X Nat /\ upper[2] \in Nat /\ n[2] < upper[2] /\ upper[2] < kid[2]
  BY <1>3, <1>5, PositionTypes DEF Spans
<1>7. Leads(reg, n, kid) /\ Leads(reg, n, upper)
  BY <1>3, <1>5, <1>6, LeadsOn DEF Spans
<1>8. ASSUME NEW m \in DOMAIN nodes, kid \in Kids(nodes, m) PROVE m = n
  <2>1. Spans(reg, prefix, m, kid)
    BY <1>8, KidFacts
  <2>2. m[2] = n[2] /\ Leads(reg, m, kid)
    BY <1>3, <1>5, <2>1 DEF Spans
  <2>3. Leads(reg, n, m)
    <3>1. n \in Nat \X Nat /\ m \in Nat \X Nat /\ kid \in Nat \X Nat /\ n[2] <= m[2]
      BY <1>3, <1>5, <2>2
    <3> QED BY <1>7, <2>2, <3>1, LeadsOn
  <2> QED BY <1>5, <2>2, <2>3, OneNodePerWay
<1>9. ASSUME NEW m \in DOMAIN N, m # upper, NEW t \in NodeTypes, NEW k \in ToSet(N[m].kids[t])
      PROVE  \/ m = n /\ t = "static" /\ k = upper
             \/ m \in DOMAIN nodes /\ k # kid /\ k \in ToSet(nodes[m].kids[t])
  <2>1. m \in DOMAIN nodes
    BY <1>9 DEF IsSplit
  <2>2. CASE m = n /\ t = "static"
    BY <1>9, <2>1, <2>2 DEF IsSplit
  <2>3. CASE m # n \/ t # "static"
    <3>1. k \in ToSet(nodes[m].kids[t])
      BY <2>1, <2>3 DEF IsSplit
    <3>2. k # kid
      <4>1. CASE m # n
        BY <1>8, <2>1, <3>1, <4>1 DEF Kids
      <4>2. CASE t # "static"
        <5>1. nodes[k].prefix[1].typ = t
          BY <2>1, <3>1 DEF IsTree, KidsFit
        <5> QED BY <1>4, <4>2, <5>1
      <4> QED BY <2>3, <4>1, <4>2
    <3> QED BY <2>1, <3>1, <3>2
  <2> QED BY <2>2, <2>3
<1>10. ASSUME NEW m \in DOMAIN nodes, NEW k \in Kids(nodes, m)
       PROVE  /\ k # kid => k \in Kids(N, m) /\ k \in DOMAIN nodes /\ N[k].prefix = nodes[k].prefix
              /\ k = kid => m = n
  <2>1. PICK t \in NodeTypes : k \in ToSet(nodes[m].kids[t])
    BY <1>10 DEF Kids
  <2>2. k \in DOMAIN nodes
    BY KidFacts
  <2>3. ASSUME k # kid PROVE k \in ToSet(N[m].kids[t])
    BY <2>1, <2>3 DEF IsSplit
  <2> QED BY <1>8, <2>2, <2>3 DEF Kids, IsSplit
<1>11. upper \in Kids(N, n) /\ kid \in Kids(N, upper)
  BY <1>1 DEF Kids, IsSplit
<1>12. Placed(N, reg)
  BY DEF IsSplit, IsTree, Placed
<1>13. KidsFit(N, reg)
  <2> SUFFICES ASSUME NEW m \in DOMAIN N, NEW t \in NodeTypes, NEW k \in ToSet(N[m].kids[t])
               PROVE  Spans(reg, N[k].prefix, m, k) /\ N[k].prefix[1].typ = t
    BY DEF KidsFit
  <2>1. CASE m = upper
    <3>1. t = "static" /\ k = kid
      BY <2>1 DEF IsSplit
    <3>2. /\ Len(N[kid].prefix) = Len(prefix) - c
          /\ \A i \in 1 .. Len(prefix) - c : N[kid].prefix[i] = prefix[c + i]
      BY DEF IsSplit
    <3>3. \A i \in 1 .. Len(prefix) : prefix[i] = Way(reg, kid, n[2] + i) /\ prefix[i].typ = "static"
      BY <1>3, <1>5 DEF Spans
    <3>4. Len(prefix) - c = kid[2] - upper[2]
      BY <1>3, <1>5, <1>6 DEF Spans
    <3>5. ASSUME NEW i \in 1 .. kid[2] - upper[2]
          PROVE  N[kid].prefix[i] = Way(reg, kid, upper[2] + i) /\ N[kid].prefix[i].typ = "static"
      <4>1. c + i \in 1 .. Len(prefix) /\ n[2] + (c + i) = upper[2] + i
        <5> DEFINE l == Len(prefix)
                   u == upper[2]
                   b == kid[2]
                   d == n[2]
        <5>1. /\ c \in Nat /\ l \in Nat /\ u \in Nat /\ b \in Nat /\ d \in Nat
              /\ l - c = b - u /\ d + c = u /\ i \in 1 .. b - u
          BY <1>3, <1>5, <1>6, <3>4
        <5> HIDE DEF l, u, b, d
        <5>2. c + i \in 1 .. l /\ d + (c + i) = u + i
          BY <5>1
        <5> QED BY <5>2 DEF l, u, d
      <4>2. N[kid].prefix[i] = prefix[c + i]
        BY <3>2, <3>4
      <4> QED BY <3>3, <4>1, <4>2
    <3>6. 1 \in 1 .. kid[2] - upper[2]
      BY <1>3, <1>5, <1>6
    <3>7. Spans(reg, N[kid].prefix, upper, kid)
      BY <1>6, <3>2, <3>4, <3>5 DEF Spans
    <3> QED BY <2>1, <3>1, <3>5, <3>6, <3>7
  <2>2. CASE m = n /\ t = "static" /\ k = upper
    <3>1. /\ Len(N[upper].prefix) = c /\ \A i \in 1 .. c : N[upper].prefix[i] = prefix[i]
      BY DEF IsSplit
    <3>2. ASSUME NEW i \in 1 .. c
          PROVE  N[upper].prefix[i] = Way(reg, upper, n[2] + i) /\ N[upper].prefix[i].typ = "static"
      <4>1. i \in 1 .. kid[2] - n[2] /\ kid[2] - n[2] > 1
        BY <1>3, <1>5, <1>6 DEF Spans
      <4>2. prefix[i] = Way(reg, kid, n[2] + i) /\ prefix[i].typ = "static"
        BY <1>3, <4>1 DEF Spans
      <4>3. n[2] + i \in 1 .. upper[2]
        BY <1>5, <1>6
      <4>4. Way(reg, upper, n[2] + i) = Way(reg, kid, n[2] + i)
        BY <4>3 DEF Leads
      <4> QED BY <3>1, <4>2, <4>4
    <3>3. c = upper[2] - n[2]
      BY <1>5, <1>6
    <3>4. Spans(reg, N[upper].prefix, n, upper)
      BY <1>6, <1>7, <3>1, <3>2, <3>3 DEF Spans
    <3>5. 1 \in 1 .. c
      OBVIOUS
    <3> QED BY <2>2, <3>2, <3>4, <3>5
  <2>3. CASE m \in DOMAIN nodes /\ k # kid /\ k \in ToSet(nodes[m].kids[t])
    <3>1. Spans(reg, nodes[k].prefix, m, k) /\ nodes[k].prefix[1].typ = t
      BY <2>3 DEF IsTree, KidsFit
    <3>2. N[k].prefix = nodes[k].prefix
      BY <1>10, <2>3 DEF Kids
    <3> QED BY <3>1, <3>2
  <2> QED BY <1>9, <2>1, <2>2, <2>3
<1>14. SiblingsDiffer(N)
  <2> SUFFICES ASSUME NEW m \in DOMAIN N, NEW k \in Kids(N, m), NEW l \in Kids(N, m),
                      N[k].prefix[1] = N[l].prefix[1]
               PROVE  k = l
    BY DEF SiblingsDiffer
  <2>1. CASE m = upper
    BY <2>1 DEF IsSplit, Kids
  <2>2. CASE m # upper
    <3>1. ASSUME NEW x \in Kids(N, m)
          PROVE  \/ m = n /\ x = upper /\ N[x].prefix[1] = prefix[1]
                 \/ /\ m \in DOMAIN nodes /\ x # kid /\ x \in Kids(nodes, m)
                    /\ N[x].prefix[1] = nodes[x].prefix[1]
      <4>1. PICK t \in NodeTypes : x \in ToSet(N[m].kids[t])
        BY DEF Kids
      <4>2. CASE m = n /\ x = upper
        <5>1. 1 \in 1 .. c
          OBVIOUS
        <5> QED BY <4>2, <5>1 DEF IsSplit
      <4>3. CASE m \in DOMAIN nodes /\ x # kid /\ x \in ToSet(nodes[m].kids[t])
        <5>1. x \in Kids(nodes, m)
          BY <4>3 DEF Kids
        <5> QED BY <1>10, <4>3, <5>1
      <4> QED BY <1>9, <2>2, <4>1, <4>2, <4>3
    <3>2. \A x \in Kids(nodes, n) : nodes[x].prefix[1] = prefix[1] => x = kid
      BY <1>2 DEF IsTree, SiblingsDiffer
    <3>3. m \in DOMAIN nodes => \A x, y \in Kids(nodes, m) :
            nodes[x].prefix[1] = nodes[y].prefix[1] => x = y
      BY DEF IsTree, SiblingsDiffer
    <3> HIDE DEF prefix
    <3> QED BY <3>1, <3>2, <3>3
  <2> QED BY <2>1, <2>2
<1>15. Connected(N, reg)
  <2> SUFFICES ASSUME NEW a \in DOMAIN N, NEW b \in DOMAIN N, Leads(reg, a, b), a # b
               PROVE  \E k \in Kids(N, a) : Leads(reg, k, b)
    BY DEF Connected
  <2>1. /\ a \in Nat \X Nat /\ b \in Nat \X Nat /\ a[2] \in Nat /\ b[2] \in Nat
        /\ n \in Nat \X Nat /\ kid \in Nat \X Nat /\ n[2] \in Nat /\ kid[2] \in Nat
    BY <1>3, <1>5, <1>6 DEF IsSplit
  <2>2. a \in DOMAIN nodes \/ a = upper
    BY DEF IsSplit
  <2>3. b \in DOMAIN nodes \/ b = upper
    BY DEF IsSplit
  <2>4. CASE a \in DOMAIN nodes /\ b \in DOMAIN nodes
    <3>1. PICK l \in Kids(nodes, a) : Leads(reg, l, b)
      BY <2>4 DEF IsTree, Connected
    <3>2. CASE l = kid
      <4>1. a = n
        BY <1>10, <2>4, <3>2
      <4>2. Leads(reg, upper, b)
        BY <1>6, <2>1, <3>1, <3>2, LeadsOn
      <4> QED BY <1>11, <4>1, <4>2
    <3>3. CASE l # kid
      BY <1>10, <2>4, <3>1, <3>3
    <3> QED BY <3>2, <3>3
  <2>5. CASE a = upper /\ b \in DOMAIN nodes
    <3>1. Leads(reg, n, b)
      BY <1>6, <1>7, <2>1, <2>5, LeadsOn
    <3>2. upper[2] <= b[2]
      BY <2>5 DEF Leads
    <3>3. n # b
      BY <1>6, <2>1, <3>2
    <3>4. PICK l \in Kids(nodes, n) : Leads(reg, l, b)
      BY <2>5, <3>1, <3>3 DEF IsTree, Connected
    <3>5. l = kid
      <4>1. l \in DOMAIN nodes /\ n[2] < l[2] /\ nodes[l].prefix[1] = Way(reg, l, n[2] + 1)
        BY <3>4, KidFacts DEF Spans
      <4>2. l[2] \in Nat
        BY <1>5, <4>1
      <4>3. n[2] + 1 \in 1 .. l[2] /\ n[2] + 1 \in 1 .. upper[2]
        <5>1. n[2] < upper[2] /\ upper[2] \in Nat
          BY <1>6, <2>1
        <5>2. n[2] + 1 \in 1 .. upper[2]
          BY <2>1, <5>1
        <5>3. n[2] + 1 \in 1 .. l[2]
          BY <2>1, <4>1, <4>2
        <5> QED BY <5>2, <5>3
      <4>4. /\ Way(reg, l, n[2] + 1) = Way(reg, b, n[2] + 1)
            /\ Way(reg, upper, n[2] + 1) = Way(reg, b, n[2] + 1)
            /\ Way(reg, upper, n[2] + 1) = Way(reg, kid, n[2] + 1)
        BY <2>5, <3>4, <4>3 DEF Leads
      <4>5. nodes[l].prefix[1] = nodes[kid].prefix[1]
        BY <1>4, <4>1, <4>4
      <4> QED BY <1>2, <3>4, <4>5 DEF IsTree, SiblingsDiffer
    <3> QED BY <1>11, <2>5, <3>4, <3>5
  <2>6. CASE a \in DOMAIN nodes /\ b = upper
    <3>1. Leads(reg, a, kid)
      BY <1>6, <2>1, <2>6, LeadsOn
    <3>2. a # kid
      <4>1. a[2] <= upper[2]
        BY <2>6 DEF Leads
      <4> QED BY <1>6, <2>1, <4>1
    <3>3. PICK l \in Kids(nodes, a) : Leads(reg, l, kid)
      BY <1>3, <2>6, <3>1, <3>2 DEF IsTree, Connected
    <3>4. CASE l = kid
      <4>1. a = n
        BY <1>10, <2>6, <3>4
      <4> QED BY <1>6, <1>11, <2>6, <4>1, LeadsOn
    <3>5. CASE l # kid
      <4>1. l \in DOMAIN nodes /\ l \in Kids(N, a)
        BY <1>10, <2>6, <3>5
      <4>2. l \in Nat \X Nat /\ l[2] \in Nat
        BY <1>5, <4>1
      <4>3. l[2] <= n[2]
        <5> SUFFICES ASSUME n[2] < l[2] PROVE FALSE
          BY <2>1, <4>2
        <5>1. Leads(reg, n, l) /\ n # l
          BY <1>7, <2>1, <3>3, <4>2, LeadsOn
        <5>2. PICK x \in Kids(nodes, n) : Leads(reg, x, l)
          BY <4>1, <5>1 DEF IsTree, Connected
        <5>3. x \in DOMAIN nodes /\ n[2] < x[2] /\ nodes[x].prefix[1] = Way(reg, x, n[2] + 1)
          BY <5>2, KidFacts DEF Spans
        <5>4. x \in Nat \X Nat /\ x[2] \in Nat
          BY <1>5, <5>3
        <5>5. Leads(reg, x, kid)
          BY <2>1, <3>3, <4>2, <5>2, <5>4, LeadsOn
        <5>6. n[2] + 1 \in 1 .. x[2]
          BY <2>1, <5>3, <5>4
        <5>7. Way(reg, x, n[2] + 1) = Way(reg, kid, n[2] + 1)
          BY <5>5, <5>6 DEF Leads
        <5>8. x = kid
          BY <1>2, <1>4, <5>2, <5>3, <5>7 DEF IsTree, SiblingsDiffer
        <5>9. kid[2] <= l[2]
          BY <5>2, <5>8 DEF Leads
        <5>10. l = kid
          BY <1>3, <3>3, <4>1, <5>9, OneNodePerWay
        <5> QED BY <3>5, <5>10
      <4>4. Leads(reg, l, n)
        BY <1>7, <2>1, <3>3, <4>2, <4>3, LeadsOn
      <4>5. Leads(reg, l, upper)
        BY <1>6, <1>7, <2>1, <4>2, <4>4, LeadsOn
      <4> QED BY <2>6, <4>1, <4>5
    <3> QED BY <3>4, <3>5
  <2> QED BY <2>2, <2>3, <2>4, <2>5, <2>6
<1>16. IsHeap(N)
  BY DEF IsSplit
<1> QED BY <1>12, <1>13, <1>14, <1>15, <1>16 DEF IsTree

----------------------------------------------------------------------------
(* Adding a chain *)

\* Where the segments of what is left of a pattern end, and the nodes for them.
Ends(p, used) == {f \in used + 1 .. Len(p) : EndsAt(p, f)}
NewIds(k, p, used) == {<<k, e>> : e \in Ends(p, used)}

\* What a node of the chain is.
IsLink(node, k, op, p, used, e) ==
  /\ node \in NodesOn(NewIds(k, p, used))
  /\ Len(node.prefix) = e - LastEnd(p, used, e)
  /\ \A i \in 1 .. e - LastEnd(p, used, e) : node.prefix[i] = Edge(p, LastEnd(p, used, e) + i)
  /\ \A o \in Ops : node.eps[o] = IF o = op /\ e = Len(p) THEN p ELSE NoRoute
  /\ \A t \in NodeTypes : ToSet(node.kids[t]) =
       IF e # Len(p) /\ t = TypeOf(p[e + 1]) THEN {<<k, NextEnd(p, e)>>} ELSE {}

LEMMA ChainIs ==
  ASSUME NEW k, NEW op \in Ops, NEW p \in Patterns, NEW used \in 0 .. Len(p) - 1
  PROVE  /\ DOMAIN Chain(k, op, p, used) = NewIds(k, p, used)
         /\ \A e \in Ends(p, used) : IsLink(Chain(k, op, p, used)[<<k, e>>], k, op, p, used, e)
<1> DEFINE chain == Chain(k, op, p, used)
           ids == NewIds(k, p, used)
           From(e) == LastEnd(p, used, e)
           New(e) == NewNode(EdgesOf(p, From(e), e))
           Final(e) == [New(e) EXCEPT !.eps[op] = p]
           Link(e) == [New(e) EXCEPT !.kids[TypeOf(p[e + 1])] = <<<<k, NextEnd(p, e)>>>>]
<1>1. Len(p) \in Nat /\ Len(p) \in Nat \ {0}
  BY PatternTypes
<1>2. chain = [n \in ids |-> IF n[2] = Len(p) THEN Final(n[2]) ELSE Link(n[2])]
  BY DEF Chain, NewIds, Ends
<1> HIDE DEF chain, Final, Link, ids
<1>3. DOMAIN chain = ids
  BY <1>2
<1> SUFFICES ASSUME NEW e \in Ends(p, used) PROVE IsLink(chain[<<k, e>>], k, op, p, used, e)
  BY <1>3 DEF chain, ids
<1>4. <<k, e>> \in ids /\ e \in used + 1 .. Len(p) /\ e \in Nat /\ EndsAt(p, e)
  BY <1>1 DEF ids, NewIds, Ends
<1>5. chain[<<k, e>>] = IF e = Len(p) THEN Final(e) ELSE Link(e)
  BY <1>2, <1>4
<1>6. From(e) \in used .. e - 1 /\ From(e) \in Nat
  BY <1>1, <1>4, LastEndIs
<1> HIDE DEF From
<1>7. /\ EdgesOf(p, From(e), e) \in Seq(AllEdges) /\ Len(EdgesOf(p, From(e), e)) = e - From(e)
      /\ \A i \in 1 .. e - From(e) : EdgesOf(p, From(e), e)[i] = Edge(p, From(e) + i)
  <2>1. EdgesOf(p, From(e), e) = [i \in 1 .. e - From(e) |-> Edge(p, From(e) + i)]
    BY DEF EdgesOf
  <2>2. \A i \in 1 .. e - From(e) : Edge(p, From(e) + i) \in AllEdges
    <3> TAKE i \in 1 .. e - From(e)
    <3>1. From(e) + i \in 1 .. Len(p)
      BY <1>1, <1>4, <1>6
    <3> QED BY <3>1, PatternTypes
  <2>3. e - From(e) \in Nat
    BY <1>4, <1>6
  <2>4. EdgesOf(p, From(e), e) \in [1 .. e - From(e) -> AllEdges]
    BY <2>1, <2>2
  <2>5. EdgesOf(p, From(e), e) \in Seq(AllEdges) /\ Len(EdgesOf(p, From(e), e)) = e - From(e)
    BY <2>3, <2>4
  <2> QED BY <2>1, <2>5
<1> DEFINE edges == EdgesOf(p, From(e), e)
<1>8. New(e) = [prefix |-> edges, eps |-> [o \in Ops |-> NoRoute],
                kids |-> [t \in NodeTypes |-> <<>>]]
  BY DEF NewNode
<1> HIDE DEF New, edges
<1>9. /\ New(e).prefix = edges /\ New(e).eps = [o \in Ops |-> NoRoute]
      /\ New(e).kids = [t \in NodeTypes |-> <<>>] /\ DOMAIN New(e) = {"prefix", "eps", "kids"}
  BY <1>8
<1>10. /\ edges \in Seq(AllEdges) /\ Len(edges) = e - From(e)
       /\ \A i \in 1 .. e - From(e) : edges[i] = Edge(p, From(e) + i)
  BY <1>7 DEF edges
<1>11. New(e) \in NodesOn(ids)
  <2>1. [t \in NodeTypes |-> <<>>] \in [NodeTypes -> Seq(ids)]
    OBVIOUS
  <2>2. [o \in Ops |-> NoRoute] \in [Ops -> Patterns \cup {NoRoute}]
    OBVIOUS
  <2> QED BY <1>8, <1>10, <2>1, <2>2 DEF NodesOn
<1>12. \A t \in NodeTypes : ToSet(New(e).kids[t]) = {}
  BY <1>9 DEF ToSet
<1>13. CASE e = Len(p)
  <2>1. Final(e) = [New(e) EXCEPT !.eps = [New(e).eps EXCEPT ![op] = p]]
    BY DEF Final
  <2>2. /\ Final(e).prefix = edges /\ Final(e).kids = New(e).kids
        /\ Final(e).eps = [[o \in Ops |-> NoRoute] EXCEPT ![op] = p]
    BY <1>9, <2>1
  <2>3. Final(e).eps \in [Ops -> Patterns \cup {NoRoute}]
    BY <2>2
  <2>4. Final(e) \in NodesOn(ids)
    BY <1>9, <1>11, <2>1, <2>2, <2>3 DEF NodesOn
  <2>5. \A o \in Ops : Final(e).eps[o] = IF o = op THEN p ELSE NoRoute
    BY <2>2
  <2> QED BY <1>5, <1>10, <1>12, <1>13, <2>2, <2>4, <2>5 DEF IsLink, ids, From
<1>14. CASE e # Len(p)
  <2> DEFINE t0 == TypeOf(p[e + 1])
             next == <<k, NextEnd(p, e)>>
  <2>1. Link(e) = [New(e) EXCEPT !.kids = [New(e).kids EXCEPT ![t0] = <<next>>]]
    BY DEF Link
  <2>2. e \in 0 .. Len(p) - 1 /\ t0 \in NodeTypes
    BY <1>1, <1>4, <1>14, EdgeTypes
  <2>3. /\ NextEnd(p, e) \in e + 1 .. Len(p) /\ EndsAt(p, NextEnd(p, e))
    BY <1>1, <2>2, NextEndIs
  <2>4. next \in ids
    <3>1. NextEnd(p, e) \in Ends(p, used)
      BY <1>1, <1>4, <2>3 DEF Ends
    <3> QED BY <3>1 DEF ids, NewIds
  <2> HIDE DEF next, t0
  <2>5. /\ Link(e).prefix = edges /\ Link(e).eps = New(e).eps
        /\ Link(e).kids = [[t \in NodeTypes |-> <<>>] EXCEPT ![t0] = <<next>>]
    BY <1>9, <2>1
  <2>6. <<next>> \in Seq(ids) /\ ToSet(<<next>>) = {next}
    BY <2>4 DEF ToSet
  <2>7. Link(e).kids \in [NodeTypes -> Seq(ids)]
    <3>1. <<next>> \in Seq(ids) /\ <<>> \in Seq(ids)
      BY <2>6
    <3> QED BY <2>5, <3>1
  <2>8. Link(e) \in NodesOn(ids)
    BY <1>9, <1>11, <2>1, <2>5, <2>7 DEF NodesOn
  <2>9. \A t \in NodeTypes : Link(e).kids[t] = IF t = t0 THEN <<next>> ELSE <<>>
    BY <2>2, <2>5
  <2>10. \A t \in NodeTypes : ToSet(Link(e).kids[t]) = IF t = t0 THEN {next} ELSE {}
    BY <2>6, <2>9 DEF ToSet
  <2>11. \A o \in Ops : Link(e).eps[o] = NoRoute
    BY <1>9, <2>5
  <2> QED BY <1>5, <1>10, <1>14, <2>5, <2>8, <2>10, <2>11 DEF IsLink, ids, From, next, t0
<1> QED BY <1>13, <1>14

\* What AddChain does.
ChainAdded(nodes, N, n, k, op, p, used) ==
  /\ IsHeap(N) /\ DOMAIN N = DOMAIN nodes \cup NewIds(k, p, used)
  /\ \A m \in DOMAIN nodes : N[m].prefix = nodes[m].prefix /\ N[m].eps = nodes[m].eps
  /\ \A m \in DOMAIN nodes, t \in NodeTypes :
       m # n \/ t # TypeOf(p[used + 1]) => N[m].kids[t] = nodes[m].kids[t]
  /\ ToSet(N[n].kids[TypeOf(p[used + 1])]) =
       ToSet(nodes[n].kids[TypeOf(p[used + 1])]) \cup {<<k, NextEnd(p, used)>>}
  /\ \A e \in Ends(p, used) :
       /\ Len(N[<<k, e>>].prefix) = e - LastEnd(p, used, e)
       /\ \A i \in 1 .. e - LastEnd(p, used, e) :
            N[<<k, e>>].prefix[i] = Edge(p, LastEnd(p, used, e) + i)
       /\ \A o \in Ops : N[<<k, e>>].eps[o] = IF o = op /\ e = Len(p) THEN p ELSE NoRoute
       /\ \A t \in NodeTypes : ToSet(N[<<k, e>>].kids[t]) =
            IF e # Len(p) /\ t = TypeOf(p[e + 1]) THEN {<<k, NextEnd(p, e)>>} ELSE {}

LEMMA AddChainIs ==
  ASSUME NEW nodes, IsHeap(nodes), NEW n \in DOMAIN nodes, NEW k, NEW op \in Ops,
         NEW p \in Patterns, NEW used \in 0 .. Len(p) - 1,
         NewIds(k, p, used) \cap DOMAIN nodes = {}
  PROVE  ChainAdded(nodes, AddChain(nodes, n, k, op, p, used), n, k, op, p, used)
<1> DEFINE chain == Chain(k, op, p, used)
           ids == NewIds(k, p, used)
           D == DOMAIN nodes \cup ids
           all == [m \in DOMAIN nodes \cup DOMAIN chain |->
                     IF m \in DOMAIN chain THEN chain[m] ELSE nodes[m]]
           first == <<k, NextEnd(p, used)>>
           t0 == TypeOf(p[used + 1])
           N == AddChain(nodes, n, k, op, p, used)
<1>1. N = WithKid(all, n, first)
  BY DEF AddChain
<1>2. DOMAIN chain = ids /\ \A e \in Ends(p, used) : IsLink(chain[<<k, e>>], k, op, p, used, e)
  BY ChainIs
<1> HIDE DEF N, chain, ids
<1>3. /\ DOMAIN all = D /\ \A m \in DOMAIN nodes : all[m] = nodes[m]
      /\ \A m \in ids : all[m] = chain[m]
  BY <1>2 DEF ids
<1> HIDE DEF all
<1>4. \A e \in Ends(p, used) : <<k, e>> \in ids /\ IsLink(all[<<k, e>>], k, op, p, used, e)
  BY <1>2, <1>3 DEF ids, NewIds
<1>5. IsHeap(all)
  <2>1. \A r : r \in NodesOn(DOMAIN nodes) \/ r \in NodesOn(ids) => r \in NodesOn(D)
    <3>1. \A s : s \in Seq(DOMAIN nodes) \/ s \in Seq(ids) => s \in Seq(D)
      OBVIOUS
    <3> HIDE DEF D
    <3> QED BY <3>1 DEF NodesOn
  <2>2. \A m \in DOMAIN nodes : all[m] \in NodesOn(D)
    BY <1>3, <2>1 DEF IsHeap
  <2>3. \A m \in ids : all[m] \in NodesOn(D)
    BY <1>4, <2>1 DEF ids, NewIds, IsLink
  <2>4. \A m \in D : all[m] \in NodesOn(D)
    BY <2>2, <2>3
  <2> HIDE DEF D
  <2>5. all = [m \in D |-> all[m]]
    BY <1>3 DEF all
  <2>6. all \in [D -> NodesOn(D)]
    BY <2>4, <2>5
  <2> QED BY <1>3, <2>6 DEF IsHeap
<1>6. Len(p) \in Nat /\ used + 1 \in 1 .. Len(p)
  BY PatternTypes
<1>7. NextEnd(p, used) \in Ends(p, used) /\ LastEnd(p, used, NextEnd(p, used)) = used
  BY <1>6, NextEndIs, LastOfNext DEF Ends
<1>8. first \in DOMAIN all /\ all[first].prefix[1].typ = t0 /\ t0 \in NodeTypes
  <2>1. NextEnd(p, used) \in used + 1 .. Len(p)
    BY <1>7 DEF Ends
  <2>2. 1 \in 1 .. NextEnd(p, used) - used
    BY <1>6, <2>1
  <2>3. all[first].prefix[1] = Edge(p, used + 1)
    <3>1. IsLink(all[first], k, op, p, used, NextEnd(p, used))
      BY <1>4, <1>7
    <3> HIDE DEF first
    <3> QED BY <1>7, <2>2, <3>1 DEF IsLink
  <2>4. first \in D
    BY <1>4, <1>7
  <2> QED BY <1>3, <2>3, <2>4, EdgeTypes
<1>9. KidAdded(all, N, n, t0, first)
  <2>1. n \in DOMAIN all
    BY <1>3
  <2> HIDE DEF first, t0
  <2> QED BY <1>1, <1>5, <1>8, <2>1, WithKidIs
<1>10. IsHeap(N) /\ DOMAIN N = D
  BY <1>3, <1>9 DEF KidAdded, IsHeap
<1>11. \A m \in DOMAIN nodes : N[m].prefix = nodes[m].prefix /\ N[m].eps = nodes[m].eps
  BY <1>3, <1>9 DEF KidAdded
<1>12. \A m \in DOMAIN nodes, t \in NodeTypes :
         m # n \/ t # t0 => N[m].kids[t] = nodes[m].kids[t]
  BY <1>3, <1>9 DEF KidAdded
<1>13. ToSet(N[n].kids[t0]) = ToSet(nodes[n].kids[t0]) \cup {first}
  BY <1>3, <1>9 DEF KidAdded
<1>14. ASSUME NEW e \in Ends(p, used)
       PROVE  /\ Len(N[<<k, e>>].prefix) = e - LastEnd(p, used, e)
              /\ \A i \in 1 .. e - LastEnd(p, used, e) :
                   N[<<k, e>>].prefix[i] = Edge(p, LastEnd(p, used, e) + i)
              /\ \A o \in Ops : N[<<k, e>>].eps[o] = IF o = op /\ e = Len(p) THEN p ELSE NoRoute
              /\ \A t \in NodeTypes : ToSet(N[<<k, e>>].kids[t]) =
                   IF e # Len(p) /\ t = TypeOf(p[e + 1]) THEN {<<k, NextEnd(p, e)>>} ELSE {}
  <2>1. <<k, e>> \in DOMAIN all /\ <<k, e>> # n
    BY <1>3, <1>4 DEF ids
  <2>2. /\ N[<<k, e>>].prefix = all[<<k, e>>].prefix /\ N[<<k, e>>].eps = all[<<k, e>>].eps
        /\ \A t \in NodeTypes : N[<<k, e>>].kids[t] = all[<<k, e>>].kids[t]
    BY <1>9, <2>1 DEF KidAdded
  <2>3. IsLink(all[<<k, e>>], k, op, p, used, e)
    BY <1>4
  <2> QED BY <2>2, <2>3 DEF IsLink
<1> QED BY <1>10, <1>11, <1>12, <1>13, <1>14 DEF ChainAdded, N, ids

LEMMA GrownIsTree ==
  ASSUME NEW reg, NEW nodes, IsLog(reg), IsTree(nodes, reg), NEW n \in DOMAIN nodes,
         NEW k \in 1 .. Len(reg), NEW p, p = reg[k][2], NEW used \in 0 .. Len(p) - 1,
         n[2] = used, Leads(reg, n, <<k, used>>),
         \A l \in Kids(nodes, n) : nodes[l].prefix[1] # Edge(p, used + 1),
         NewIds(k, p, used) \cap DOMAIN nodes = {},
         NEW op, NEW N, ChainAdded(nodes, N, n, k, op, p, used)
  PROVE  IsTree(N, reg)
<1> DEFINE ids == NewIds(k, p, used)
           first == <<k, NextEnd(p, used)>>
           t0 == TypeOf(p[used + 1])
<1>1. p \in Patterns /\ Len(p) \in Nat /\ k \in Nat /\ used \in Nat
  BY LogTypes, PatternTypes DEF IsLog
<1>2. /\ IsHeap(N) /\ DOMAIN N = DOMAIN nodes \cup ids
      /\ \A m \in DOMAIN nodes : N[m].prefix = nodes[m].prefix
      /\ \A m \in DOMAIN nodes, t \in NodeTypes :
           m # n \/ t # t0 => N[m].kids[t] = nodes[m].kids[t]
      /\ ToSet(N[n].kids[t0]) = ToSet(nodes[n].kids[t0]) \cup {first}
  BY DEF ChainAdded
<1>3. ASSUME NEW m \in ids
      PROVE  /\ m[1] = k /\ m[2] \in Ends(p, used) /\ m = <<k, m[2]>> /\ m \in Nat \X Nat
             /\ m[2] \in used + 1 .. Len(p) /\ m[2] \in Nat /\ EndsAt(p, m[2])
             /\ m \in Positions(reg)
  <2>1. PICK e \in Ends(p, used) : m = <<k, e>>
    BY DEF NewIds
  <2>2. e \in used + 1 .. Len(p) /\ e \in Nat /\ EndsAt(p, e) /\ 1 <= e
    BY <1>1 DEF Ends
  <2>3. m[1] = k /\ m[2] = e
    BY <2>1
  <2>4. m \in Nat \X Nat
    BY <1>1, <2>1, <2>2
  <2>5. m \in Positions(reg)
    BY <1>1, <2>2, <2>3, <2>4 DEF Positions
  <2> QED BY <2>1, <2>2, <2>3, <2>4, <2>5
<1>4. \A m \in ids : \A x : Way(reg, m, x) = Edge(p, x)
  BY <1>3 DEF Way
<1>5. \A m \in DOMAIN nodes : m \in Positions(reg) /\ m \in Nat \X Nat /\ m[2] \in Nat
  BY PositionTypes DEF IsTree, Placed
<1>6. /\ first \in ids /\ NextEnd(p, used) \in used + 1 .. Len(p)
      /\ LastEnd(p, used, NextEnd(p, used)) = used
      /\ \A f \in used + 1 .. NextEnd(p, used) - 1 : ~EndsAt(p, f)
  BY <1>1, NextEndIs, LastOfNext DEF Ends, NewIds
<1>7. ASSUME NEW m \in ids, m[2] # Len(p)
      PROVE  /\ <<k, NextEnd(p, m[2])>> \in ids
             /\ NextEnd(p, m[2]) \in m[2] + 1 .. Len(p)
             /\ LastEnd(p, used, NextEnd(p, m[2])) = m[2]
             /\ \A f \in m[2] + 1 .. NextEnd(p, m[2]) - 1 : ~EndsAt(p, f)
  <2>1. m[2] \in used .. Len(p) - 1 /\ m[2] \in 0 .. Len(p) - 1 /\ EndsAt(p, m[2]) /\ m[2] \in Nat
    BY <1>1, <1>3, <1>7
  <2>2. /\ NextEnd(p, m[2]) \in m[2] + 1 .. Len(p) /\ EndsAt(p, NextEnd(p, m[2]))
        /\ \A f \in m[2] + 1 .. NextEnd(p, m[2]) - 1 : ~EndsAt(p, f)
    BY <1>1, <2>1, NextEndIs
  <2>3. LastEnd(p, used, NextEnd(p, m[2])) = m[2]
    BY <1>1, <2>1, LastOfNext
  <2>4. NextEnd(p, m[2]) \in Ends(p, used)
    BY <1>1, <2>1, <2>2 DEF Ends
  <2> QED BY <2>2, <2>3, <2>4 DEF NewIds
<1>8. ASSUME NEW m \in ids, NEW t \in NodeTypes
      PROVE  ToSet(N[m].kids[t]) = IF m[2] # Len(p) /\ t = TypeOf(p[m[2] + 1])
                                   THEN {<<k, NextEnd(p, m[2])>>} ELSE {}
  <2>1. \A e \in Ends(p, used) : \A u \in NodeTypes : ToSet(N[<<k, e>>].kids[u]) =
          IF e # Len(p) /\ u = TypeOf(p[e + 1]) THEN {<<k, NextEnd(p, e)>>} ELSE {}
    BY DEF ChainAdded
  <2>2. m[2] \in Ends(p, used) /\ m = <<k, m[2]>>
    BY <1>3
  <2>3. ToSet(N[<<k, m[2]>>].kids[t]) =
          IF m[2] # Len(p) /\ t = TypeOf(p[m[2] + 1]) THEN {<<k, NextEnd(p, m[2])>>} ELSE {}
    BY <2>1, <2>2
  <2> QED BY <2>2, <2>3
<1>9. ASSUME NEW m \in ids
      PROVE  /\ Len(N[m].prefix) = m[2] - LastEnd(p, used, m[2])
             /\ \A i \in 1 .. m[2] - LastEnd(p, used, m[2]) :
                  N[m].prefix[i] = Edge(p, LastEnd(p, used, m[2]) + i)
  <2>1. \A e \in Ends(p, used) :
          /\ Len(N[<<k, e>>].prefix) = e - LastEnd(p, used, e)
          /\ \A i \in 1 .. e - LastEnd(p, used, e) :
               N[<<k, e>>].prefix[i] = Edge(p, LastEnd(p, used, e) + i)
    BY DEF ChainAdded
  <2> DEFINE e == m[2]
  <2>2. e \in Ends(p, used) /\ m = <<k, e>>
    BY <1>3
  <2> HIDE DEF e
  <2>3. /\ Len(N[m].prefix) = e - LastEnd(p, used, e)
        /\ \A i \in 1 .. e - LastEnd(p, used, e) :
             N[m].prefix[i] = Edge(p, LastEnd(p, used, e) + i)
    BY <2>1, <2>2
  <2> QED BY <2>3 DEF e
\* A link of the chain spans what is between the ends of segments.
<1>10. ASSUME NEW m, NEW from \in used .. Len(p) - 1, NEW e \in from + 1 .. Len(p), <<k, e>> \in ids,
              LastEnd(p, used, e) = from, \A f \in from + 1 .. e - 1 : ~EndsAt(p, f),
              m[2] = from, Leads(reg, m, <<k, from>>)
       PROVE  /\ Spans(reg, N[<<k, e>>].prefix, m, <<k, e>>)
              /\ N[<<k, e>>].prefix[1].typ = TypeOf(p[from + 1])
  <2> DEFINE id == <<k, e>>
             new == N[id].prefix
  <2>1. from \in Nat /\ e \in Nat /\ from < e /\ id[2] = e
    BY <1>1
  <2>2. Len(new) = e - from /\ \A i \in 1 .. e - from : new[i] = Edge(p, from + i)
    <3> HIDE DEF new
    <3>1. /\ Len(N[id].prefix) = id[2] - LastEnd(p, used, id[2])
          /\ \A i \in 1 .. id[2] - LastEnd(p, used, id[2]) :
               N[id].prefix[i] = Edge(p, LastEnd(p, used, id[2]) + i)
      <4>1. id \in ids
        BY <1>10
      <4> HIDE DEF id, ids
      <4> QED BY <1>9, <4>1
    <3> HIDE DEF id
    <3> QED BY <1>10, <2>1, <3>1 DEF new
  <2>3. Leads(reg, m, id)
    <3>1. m[2] <= id[2]
      BY <1>10, <2>1
    <3>2. ASSUME NEW x \in 1 .. m[2] PROVE Way(reg, m, x) = Way(reg, id, x)
      BY <1>10 DEF Leads, Way
    <3> QED BY <3>1, <3>2 DEF Leads
  <2>4. \A i \in 1 .. e - from : new[i] = Way(reg, id, from + i)
    <3>1. \A x : Way(reg, id, x) = Edge(p, x)
      BY <1>4, <1>10
    <3> HIDE DEF id, new
    <3> QED BY <2>2, <3>1
  <2>5. ASSUME e - from > 1 PROVE \A i \in 1 .. e - from : new[i].typ = "static"
    <3>1. from \in 0 .. Len(p) - 1
      BY <1>1, <2>1
    <3>2. \A x \in from + 1 .. e : Edge(p, x).typ = "static"
      BY <1>1, <1>10, <2>5, <3>1, SegmentTypes
    <3>3. \A i \in 1 .. e - from : from + i \in from + 1 .. e
      BY <2>1
    <3> QED BY <2>2, <3>2, <3>3
  <2>6. new[1].typ = TypeOf(p[from + 1])
    <3>1. 1 \in 1 .. e - from
      BY <2>1
    <3>2. new[1] = Edge(p, from + 1)
      BY <2>2, <3>1
    <3> QED BY <3>2, EdgeTypes
  <2> HIDE DEF new, id
  <2>7. Spans(reg, new, m, id)
    BY <1>10, <2>1, <2>2, <2>3, <2>4, <2>5 DEF Spans
  <2> QED BY <2>6, <2>7 DEF new, id
<1>11. Placed(N, reg)
  BY <1>2, <1>3 DEF IsTree, Placed
<1>12. \A m \in DOMAIN nodes, t \in NodeTypes : \A x \in ToSet(N[m].kids[t]) :
         \/ m = n /\ t = t0 /\ x = first
         \/ x \in ToSet(nodes[m].kids[t]) /\ x \in DOMAIN nodes /\ x \in Kids(nodes, m)
  <2> SUFFICES ASSUME NEW m \in DOMAIN nodes, NEW t \in NodeTypes, NEW x \in ToSet(N[m].kids[t]),
                      ~(m = n /\ t = t0 /\ x = first)
               PROVE  x \in ToSet(nodes[m].kids[t]) /\ x \in DOMAIN nodes /\ x \in Kids(nodes, m)
    OBVIOUS
  <2>1. x \in ToSet(nodes[m].kids[t])
    <3> HIDE DEF first, t0
    <3> QED BY <1>2
  <2>2. x \in Kids(nodes, m)
    BY <2>1 DEF Kids
  <2> QED BY <2>1, <2>2, KidFacts
<1>13. KidsFit(N, reg)
  <2> SUFFICES ASSUME NEW m \in DOMAIN N, NEW t \in NodeTypes, NEW x \in ToSet(N[m].kids[t])
               PROVE  Spans(reg, N[x].prefix, m, x) /\ N[x].prefix[1].typ = t
    BY DEF KidsFit
  <2>1. CASE m \in ids
    <3>1. m[2] # Len(p) /\ t = TypeOf(p[m[2] + 1]) /\ x = <<k, NextEnd(p, m[2])>>
      BY <1>8, <2>1
    <3>2. Leads(reg, m, <<k, m[2]>>)
      BY <1>3, <2>1, LeadsOn
    <3>3. m[2] \in used .. Len(p) - 1
      BY <1>1, <1>3, <2>1, <3>1
    <3> DEFINE e == NextEnd(p, m[2])
               from == m[2]
    <3>4. /\ <<k, e>> \in ids /\ e \in from + 1 .. Len(p) /\ LastEnd(p, used, e) = from
          /\ \A f \in from + 1 .. e - 1 : ~EndsAt(p, f)
      BY <1>7, <2>1, <3>1
    <3>5. m[2] = from /\ Leads(reg, m, <<k, from>>) /\ from \in used .. Len(p) - 1
      BY <3>2, <3>3
    <3> HIDE DEF e, from
    <3>6. Spans(reg, N[<<k, e>>].prefix, m, <<k, e>>) /\ N[<<k, e>>].prefix[1].typ = TypeOf(p[from + 1])
      BY <1>10, <3>4, <3>5
    <3> QED BY <3>1, <3>6 DEF e, from
  <2>2. CASE m \in DOMAIN nodes /\ m = n /\ t = t0 /\ x = first
    <3>1. used \in used .. Len(p) - 1
      BY <1>1
    <3> QED BY <1>6, <1>10, <2>2, <3>1
  <2>3. CASE m \in DOMAIN nodes /\ x \in ToSet(nodes[m].kids[t]) /\ x \in DOMAIN nodes
    <3>1. Spans(reg, nodes[x].prefix, m, x) /\ nodes[x].prefix[1].typ = t
      BY <2>3 DEF IsTree, KidsFit
    <3> QED BY <1>2, <2>3, <3>1
  <2> QED BY <1>2, <1>12, <2>1, <2>2, <2>3
<1>14. first \notin DOMAIN nodes /\ N[first].prefix[1] = Edge(p, used + 1)
  <2>1. first \notin DOMAIN nodes
    BY <1>6
  <2>2. first[2] = NextEnd(p, used)
    OBVIOUS
  <2> HIDE DEF first
  <2>3. 1 \in 1 .. first[2] - LastEnd(p, used, first[2])
    BY <1>1, <1>6, <2>2
  <2>4. N[first].prefix[1] = Edge(p, LastEnd(p, used, first[2]) + 1)
    BY <1>6, <1>9, <2>3
  <2> QED BY <1>6, <2>1, <2>2, <2>4
<1>15. SiblingsDiffer(N)
  <2> SUFFICES ASSUME NEW m \in DOMAIN N, NEW a \in Kids(N, m), NEW b \in Kids(N, m),
                      N[a].prefix[1] = N[b].prefix[1]
               PROVE  a = b
    BY DEF SiblingsDiffer
  <2>1. CASE m \in ids
    <3>1. PICK t \in NodeTypes : a \in ToSet(N[m].kids[t])
      BY DEF Kids
    <3>2. PICK u \in NodeTypes : b \in ToSet(N[m].kids[u])
      BY DEF Kids
    <3>3. a = <<k, NextEnd(p, m[2])>> /\ b = <<k, NextEnd(p, m[2])>>
      <4> HIDE DEF ids
      <4> QED BY <1>8, <2>1, <3>1, <3>2
    <3> QED BY <3>3
  <2>2. CASE m \in DOMAIN nodes
    <3>1. ASSUME NEW x \in Kids(N, m)
          PROVE  \/ m = n /\ x = first
                 \/ x \in Kids(nodes, m) /\ N[x].prefix = nodes[x].prefix
      <4>1. PICK t \in NodeTypes : x \in ToSet(N[m].kids[t])
        BY DEF Kids
      <4> HIDE DEF first, t0
      <4> QED BY <1>2, <1>12, <2>2, <4>1
    <3>2. \A x, y \in Kids(nodes, m) : nodes[x].prefix[1] = nodes[y].prefix[1] => x = y
      BY <2>2 DEF IsTree, SiblingsDiffer
    <3> HIDE DEF first
    <3> QED BY <1>14, <3>1, <3>2
  <2> QED BY <1>2, <2>1, <2>2
<1>16. ASSUME NEW m \in DOMAIN nodes, NEW x \in Kids(nodes, m) PROVE x \in Kids(N, m)
  <2>1. PICK t \in NodeTypes : x \in ToSet(nodes[m].kids[t])
    BY <1>16 DEF Kids
  <2>2. x \in ToSet(N[m].kids[t])
    <3> HIDE DEF first, t0
    <3> QED BY <1>2, <2>1
  <2> QED BY <2>2 DEF Kids
<1>17. first \in Kids(N, n)
  <2>1. t0 \in NodeTypes
    BY EdgeTypes
  <2> HIDE DEF first, t0
  <2> QED BY <1>2, <2>1 DEF Kids
\* No old node has a way that goes on from n as the pattern does.
<1>18. ASSUME NEW b \in DOMAIN nodes, used < b[2], Leads(reg, n, b),
              Way(reg, b, used + 1) = Edge(p, used + 1)
       PROVE  FALSE
  <2>1. n # b
    BY <1>18
  <2>2. PICK l \in Kids(nodes, n) : Leads(reg, l, b)
    BY <1>18, <2>1 DEF IsTree, Connected
  <2>3. l \in DOMAIN nodes /\ used < l[2] /\ nodes[l].prefix[1] = Way(reg, l, used + 1)
    BY <2>2, KidFacts DEF Spans
  <2>4. used + 1 \in 1 .. l[2]
    BY <1>1, <1>5, <2>3
  <2>5. Way(reg, l, used + 1) = Way(reg, b, used + 1)
    BY <2>2, <2>4 DEF Leads
  <2> QED BY <1>18, <2>2, <2>3, <2>5
<1>19. ASSUME NEW m \in ids PROVE Leads(reg, n, m) /\ n[2] < m[2]
  <2>1. used <= m[2] /\ used < m[2]
    BY <1>1, <1>3
  <2>2. ASSUME NEW x \in 1 .. used PROVE Way(reg, n, x) = Way(reg, m, x)
    BY <1>3 DEF Leads, Way
  <2> QED BY <2>1, <2>2 DEF Leads
<1>20. Connected(N, reg)
  <2> SUFFICES ASSUME NEW a \in DOMAIN N, NEW b \in DOMAIN N, Leads(reg, a, b), a # b
               PROVE  \E x \in Kids(N, a) : Leads(reg, x, b)
    BY DEF Connected
  <2>1. /\ a \in Nat \X Nat /\ b \in Nat \X Nat /\ a[2] \in Nat /\ b[2] \in Nat
        /\ n \in Nat \X Nat /\ n[2] \in Nat
    BY <1>2, <1>3, <1>5
  <2>2. a[2] <= b[2]
    BY DEF Leads
  <2>3. CASE a \in DOMAIN nodes /\ b \in DOMAIN nodes
    <3>1. PICK l \in Kids(nodes, a) : Leads(reg, l, b)
      BY <2>3 DEF IsTree, Connected
    <3> QED BY <1>16, <2>3, <3>1
  <2>4. CASE a \in DOMAIN nodes /\ b \in ids
    <3>1. Leads(reg, n, b) /\ n[2] < b[2]
      BY <1>19, <2>4
    <3>2. CASE a = n
      <4>1. NextEnd(p, used) <= b[2]
        BY <1>1, <1>3, <1>6, <2>4
      <4>2. Leads(reg, first, b)
        <5>1. \A x : Way(reg, first, x) = Way(reg, b, x)
          BY <1>4, <1>6, <2>4
        <5> QED BY <4>1, <5>1 DEF Leads
      <4> QED BY <1>17, <3>2, <4>2
    <3>3. CASE a # n /\ a[2] <= n[2]
      <4>1. Leads(reg, a, n)
        BY <2>1, <3>1, <3>3, LeadsOn
      <4>2. PICK l \in Kids(nodes, a) : Leads(reg, l, n)
        BY <2>4, <3>3, <4>1 DEF IsTree, Connected
      <4>3. l \in DOMAIN nodes /\ l \in Nat \X Nat
        BY <2>4, <4>2, KidFacts
      <4>4. Leads(reg, l, b)
        BY <2>1, <3>1, <4>2, <4>3, LeadsOn
      <4> QED BY <1>16, <2>4, <4>2, <4>4
    <3>4. CASE a[2] > n[2]
      <4>1. Leads(reg, n, a)
        BY <2>1, <3>1, <3>4, LeadsOn
      <4>2. used + 1 \in 1 .. a[2]
        BY <1>1, <2>1, <3>4
      <4>3. Way(reg, a, used + 1) = Way(reg, b, used + 1)
        BY <4>2 DEF Leads
      <4>4. Way(reg, b, used + 1) = Edge(p, used + 1)
        BY <1>4, <2>4
      <4> QED BY <1>18, <2>4, <3>4, <4>1, <4>3, <4>4
    <3> QED BY <2>1, <3>2, <3>3, <3>4
  <2>5. CASE a \in ids /\ b \in DOMAIN nodes
    <3>1. Leads(reg, n, a) /\ n[2] < a[2]
      BY <1>19, <2>5
    <3>2. Leads(reg, n, b) /\ used < b[2]
      BY <2>1, <2>2, <3>1, LeadsOn
    <3>3. used + 1 \in 1 .. a[2]
      BY <1>1, <2>1, <3>1
    <3>4. Way(reg, a, used + 1) = Way(reg, b, used + 1)
      BY <3>3 DEF Leads
    <3>5. Way(reg, a, used + 1) = Edge(p, used + 1)
      BY <1>4, <2>5
    <3> QED BY <1>18, <2>5, <3>2, <3>4, <3>5
  <2>6. CASE a \in ids /\ b \in ids
    <3>1. a[2] < b[2] /\ b[2] <= Len(p) /\ a[2] # Len(p) /\ EndsAt(p, b[2])
      BY <1>1, <1>3, <2>1, <2>2, <2>6
    <3> DEFINE x == <<k, NextEnd(p, a[2])>>
    <3>2. /\ x \in ids /\ NextEnd(p, a[2]) \in a[2] + 1 .. Len(p)
          /\ \A f \in a[2] + 1 .. NextEnd(p, a[2]) - 1 : ~EndsAt(p, f)
      BY <1>7, <2>6, <3>1
    <3>3. NextEnd(p, a[2]) <= b[2]
      BY <1>1, <2>1, <3>1, <3>2
    <3>4. x[2] <= b[2]
      BY <3>3
    <3>5. TypeOf(p[a[2] + 1]) \in NodeTypes
      BY EdgeTypes
    <3>6. x \in Kids(N, a)
      <4> HIDE DEF ids
      <4>1. ToSet(N[a].kids[TypeOf(p[a[2] + 1])]) = {x}
        BY <1>8, <2>6, <3>1, <3>5
      <4> HIDE DEF x
      <4> QED BY <3>5, <4>1 DEF Kids
    <3>7. Leads(reg, x, b)
      <4>1. \A y : Way(reg, x, y) = Way(reg, b, y)
        BY <1>4, <2>6, <3>2
      <4> HIDE DEF x
      <4> QED BY <3>4, <4>1 DEF Leads
    <3> QED BY <3>6, <3>7
  <2> QED BY <1>2, <2>3, <2>4, <2>5, <2>6
<1> QED BY <1>2, <1>11, <1>13, <1>15, <1>20 DEF IsTree

----------------------------------------------------------------------------
(* InsertRoute *)

\* One registration: the tree stays one and loses no node, and the pattern is at
\* its end, for its operation; no other endpoint changes.
Inserted(nodes, N, reg, k, op, p) ==
  /\ IsTree(N, reg) /\ DOMAIN nodes \subseteq DOMAIN N
  /\ \E z \in DOMAIN N :
       /\ z[2] = Len(p) /\ Leads(reg, z, <<k, Len(p)>>) /\ N[z].eps[op] = p
       /\ \A m \in DOMAIN N, o \in Ops : m # z \/ o # op =>
            N[m].eps[o] = IF m \in DOMAIN nodes THEN nodes[m].eps[o] ELSE NoRoute

\* The two ways it ends: the endpoint is set on a node, or a chain is added.
LEMMA EndsOnNode ==
  ASSUME NEW reg, NEW nodes, IsLog(reg), IsTree(nodes, reg), NEW k \in 1 .. Len(reg),
         NEW op \in Ops, NEW p, p = reg[k][2], NEW n \in DOMAIN nodes,
         n[2] = Len(p), Leads(reg, n, <<k, Len(p)>>)
  PROVE  Inserted(nodes, SetEndpoint(nodes, n, op, p), reg, k, op, p)
<1> DEFINE N == SetEndpoint(nodes, n, op, p)
<1>1. p \in Patterns /\ IsHeap(nodes)
  BY LogTypes DEF IsTree
<1>2. EndpointIsSet(nodes, N, n, op, p)
  BY <1>1, SetEndpointIs
<1> HIDE DEF N
<1>3. IsTree(N, reg)
  BY <1>2, SameShapeIsTree DEF EndpointIsSet
<1> QED BY <1>2, <1>3 DEF EndpointIsSet, Inserted, N

LEMMA EndsOnChain ==
  ASSUME NEW reg, NEW nodes, IsLog(reg), IsTree(nodes, reg), NEW k \in 1 .. Len(reg),
         NEW op \in Ops, NEW p, p = reg[k][2], NEW n \in DOMAIN nodes,
         NEW used \in 0 .. Len(p) - 1, n[2] = used, Leads(reg, n, <<k, used>>),
         \A l \in Kids(nodes, n) : nodes[l].prefix[1] # Edge(p, used + 1),
         \A m \in DOMAIN nodes : m[1] = k => m[2] <= used
  PROVE  Inserted(nodes, AddChain(nodes, n, k, op, p, used), reg, k, op, p)
<1> DEFINE N == AddChain(nodes, n, k, op, p, used)
           z == <<k, Len(p)>>
<1>1. p \in Patterns /\ IsHeap(nodes) /\ Len(p) \in Nat /\ k \in Nat
  BY LogTypes, PatternTypes DEF IsTree, IsLog
<1>2. ASSUME NEW m \in NewIds(k, p, used) PROVE m \notin DOMAIN nodes
  <2>1. PICK e \in used + 1 .. Len(p) : m = <<k, e>>
    BY DEF NewIds, Ends
  <2>2. m[1] = k /\ m[2] = e /\ ~(e <= used)
    BY <1>1, <2>1
  <2> QED BY <2>2
<1>3. NewIds(k, p, used) \cap DOMAIN nodes = {}
  BY <1>2
<1>4. ChainAdded(nodes, N, n, k, op, p, used)
  BY <1>1, <1>3, AddChainIs
<1> HIDE DEF N
<1>5. IsTree(N, reg)
  BY <1>3, <1>4, GrownIsTree
<1>6. Len(p) \in Ends(p, used) /\ z \in NewIds(k, p, used)
  BY <1>1 DEF Ends, EndsAt, NewIds
<1>7. DOMAIN N = DOMAIN nodes \cup NewIds(k, p, used)
  BY <1>4 DEF ChainAdded
<1>8. z[2] = Len(p) /\ Leads(reg, z, <<k, Len(p)>>)
  BY <1>1 DEF Leads
<1>9. \A e \in Ends(p, used), o \in Ops :
        N[<<k, e>>].eps[o] = IF o = op /\ e = Len(p) THEN p ELSE NoRoute
  BY <1>4 DEF ChainAdded
<1>10. N[z].eps[op] = p
  BY <1>6, <1>9
<1>11. ASSUME NEW m \in DOMAIN N, NEW o \in Ops, m # z \/ o # op
       PROVE  N[m].eps[o] = IF m \in DOMAIN nodes THEN nodes[m].eps[o] ELSE NoRoute
  <2>1. CASE m \in DOMAIN nodes
    BY <1>4, <2>1 DEF ChainAdded
  <2>2. CASE m \in NewIds(k, p, used)
    <3>1. PICK e \in Ends(p, used) : m = <<k, e>>
      BY <2>2 DEF NewIds
    <3>2. ~(o = op /\ e = Len(p))
      BY <1>11, <3>1
    <3>3. N[m].eps[o] = NoRoute
      BY <1>9, <3>1, <3>2
    <3> QED BY <1>2, <2>2, <3>3
  <2> QED BY <1>7, <2>1, <2>2
<1> HIDE DEF z
<1>12. z \in DOMAIN N
  BY <1>6, <1>7
<1> QED BY <1>5, <1>7, <1>8, <1>10, <1>11, <1>12 DEF Inserted, N

\* The child that a pattern only shares a part of is split there.
SplitThere(reg, nodes, N, n, kid, k, p, used, c) ==
  /\ c \in Nat /\ used + c \in 1 .. Len(p)
  /\ IsSplit(nodes, N, n, kid, <<k, used + c>>, c) /\ IsTree(N, reg)
  /\ <<k, used + c>> \notin DOMAIN nodes
  /\ Leads(reg, <<k, used + c>>, <<k, used + c>>)
  /\ used + c < Len(p) =>
       \A l \in Kids(N, <<k, used + c>>) : N[l].prefix[1] # Edge(p, used + c + 1)

LEMMA SplitWherePatternLeaves ==
  ASSUME NEW reg, NEW nodes, IsLog(reg), IsTree(nodes, reg), NEW k \in 1 .. Len(reg),
         NEW p, p = reg[k][2], NEW n \in DOMAIN nodes, NEW used \in 0 .. Len(p) - 1,
         n[2] = used, Leads(reg, n, <<k, used>>),
         NEW kid \in Kids(nodes, n), kid \in ToSet(nodes[n].kids[TypeOf(p[used + 1])]),
         nodes[kid].prefix[1] = Edge(p, used + 1),
         NEW c, c = CommonLen(nodes[kid].prefix, p, used), c < Len(nodes[kid].prefix),
         \A m \in DOMAIN nodes : m[1] # k,
         NEW upper, upper = <<k, used + c>>,
         NEW N, N = Split(nodes, n, kid, upper, c)
  PROVE  SplitThere(reg, nodes, N, n, kid, k, p, used, c)
<1> DEFINE prefix == nodes[kid].prefix
<1>1. p \in Patterns /\ IsHeap(nodes) /\ Len(p) \in Nat /\ k \in Nat /\ used \in Nat
  BY LogTypes, PatternTypes DEF IsTree, IsLog
<1>2. /\ kid \in DOMAIN nodes /\ kid \in Nat \X Nat /\ n \in Nat \X Nat
      /\ Spans(reg, prefix, n, kid) /\ prefix \in Seq(AllEdges)
  BY KidFacts
<1> HIDE DEF prefix
<1>3. Len(prefix) \in Nat
  BY <1>2
<1>4. /\ c \in 0 .. Len(prefix) /\ used + c <= Len(p)
      /\ \A i \in 1 .. c : prefix[i] = Edge(p, used + i)
      /\ used + c = Len(p) \/ prefix[c + 1] # Edge(p, used + c + 1)
  <2>1. used \in 0 .. Len(p) /\ c = CommonLen(prefix, p, used) /\ c # Len(prefix)
    BY <1>1, <1>3 DEF prefix
  <2>2. IsCommonLen(prefix, p, used, c)
    BY <1>1, <1>3, <2>1, CommonLenIs
  <2> QED BY <2>1, <2>2 DEF IsCommonLen
<1>5. c # 0
  <2>1. prefix[1] = Edge(p, used + 1) /\ used # Len(p)
    BY <1>1 DEF prefix
  <2> SUFFICES ASSUME c = 0 PROVE FALSE
    OBVIOUS
  <2>2. prefix[0 + 1] # Edge(p, used + 0 + 1)
    BY <1>1, <1>4, <2>1
  <2>3. 0 + 1 = 1 /\ used + 0 + 1 = used + 1
    BY <1>1
  <2> QED BY <2>1, <2>2, <2>3
<1>60. /\ c \in Nat /\ used \in Nat /\ Len(p) \in Nat /\ Len(prefix) \in Nat
       /\ c < Len(prefix) /\ used + c <= Len(p)
  BY <1>1, <1>3, <1>4 DEF prefix
<1>6. c \in 1 .. Len(prefix) - 1 /\ used + c \in 1 .. Len(p) /\ c \in Nat
  BY <1>5, <1>60
<1>61. Len(prefix) = kid[2] - n[2] /\ n[2] \in Nat /\ kid[2] \in Nat
  BY <1>2 DEF Spans
<1>62. kid[2] - n[2] \in Nat /\ c < kid[2] - n[2] /\ kid[2] = used + Len(prefix)
  BY <1>60, <1>61
<1>7. kid \in ToSet(nodes[n].kids["static"])
  <2>1. 1 \in 1 .. kid[2] - n[2] /\ kid[2] - n[2] > 1
    <3>1. c \in Nat /\ c # 0
      BY <1>5, <1>60
    <3> QED BY <1>62, <3>1
  <2>2. prefix[1].typ = "static"
    BY <1>2, <2>1 DEF Spans
  <2>3. TypeOf(p[used + 1]) = "static"
    BY <2>2, EdgeTypes DEF prefix
  <2> QED BY <2>3
<1>8. upper \in Positions(reg) /\ upper[1] = k /\ upper[2] = used + c
  BY <1>1, <1>6 DEF Positions
<1>9. upper \notin DOMAIN nodes
  BY <1>8
<1>10. Leads(reg, upper, kid)
  <2>1. upper[2] <= kid[2]
    <3>1. used + c <= used + Len(prefix)
      BY <1>60
    <3> QED BY <1>8, <1>62, <3>1
  <2>2. ASSUME NEW x \in 1 .. upper[2] PROVE Way(reg, upper, x) = Way(reg, kid, x)
    <3>1. Way(reg, upper, x) = Edge(p, x)
      BY <1>8 DEF Way
    <3>2. CASE x <= used
      <4>1. Way(reg, n, x) = Way(reg, kid, x)
        BY <1>2, <1>1, <3>2 DEF Spans, Leads
      <4>2. Way(reg, n, x) = Edge(p, x)
        BY <1>1, <3>2 DEF Leads, Way
      <4> QED BY <3>1, <4>1, <4>2
    <3>3. CASE used < x
      <4>1. x - used \in 1 .. c /\ used + (x - used) = x
        BY <1>8, <1>60, <3>3
      <4>2. prefix[x - used] = Edge(p, x)
        BY <1>4, <4>1
      <4>3. x - used \in 1 .. kid[2] - n[2]
        BY <1>60, <1>62, <4>1
      <4>4. prefix[x - used] = Way(reg, kid, x)
        BY <1>2, <4>1, <4>3 DEF Spans
      <4> QED BY <3>1, <4>2, <4>4
    <3> QED BY <1>1, <1>8, <1>6, <3>2, <3>3
  <2> QED BY <2>1, <2>2 DEF Leads
<1>11. kid # n
  BY <1>2 DEF Spans
<1>12. IsSplit(nodes, N, n, kid, upper, c)
  BY <1>1, <1>6, <1>7, <1>9, <1>11, SplitIs DEF prefix
<1>13. IsTree(N, reg)
  BY <1>6, <1>7, <1>8, <1>9, <1>10, <1>12, SplitIsTree DEF prefix
<1>14. Leads(reg, upper, <<k, used + c>>)
  <2>1. upper \in Nat \X Nat
    BY <1>8, PositionTypes
  <2>2. Leads(reg, upper, upper)
    BY <2>1, LeadsOn
  <2> QED BY <2>2
<1>15. ASSUME used + c < Len(p), NEW l \in Kids(N, upper)
       PROVE  N[l].prefix[1] # Edge(p, used + c + 1)
  <2>1. l = kid
    <3>1. PICK t \in NodeTypes : l \in ToSet(N[upper].kids[t])
      BY <1>15 DEF Kids
    <3>2. \A u \in NodeTypes : ToSet(N[upper].kids[u]) = IF u = "static" THEN {kid} ELSE {}
      BY <1>12 DEF IsSplit
    <3>3. l \in IF t = "static" THEN {kid} ELSE {}
      BY <3>1, <3>2
    <3> QED BY <3>3
  <2>2. 1 \in 1 .. Len(prefix) - c
    BY <1>60
  <2>3. N[kid].prefix[1] = prefix[c + 1]
    BY <1>12, <2>2 DEF IsSplit, prefix
  <2>4. used + c # Len(p)
    BY <1>15, <1>60
  <2> QED BY <1>4, <2>1, <2>3, <2>4
<1> QED BY <1>6, <1>9, <1>12, <1>13, <1>14, <1>15 DEF SplitThere

LEMMA InsertRouteIs ==
  ASSUME NEW reg, NEW nodes, IsLog(reg), IsTree(nodes, reg), NEW k \in 1 .. Len(reg),
         NEW op \in Ops, NEW p, p = reg[k][2], \A m \in DOMAIN nodes : m[1] # k
  PROVE  Inserted(nodes, InsertRoute(nodes, k, op, p), reg, k, op, p)
<1>1. p \in Patterns /\ IsHeap(nodes) /\ Len(p) \in Nat /\ k \in Nat
  BY LogTypes, PatternTypes DEF IsTree, IsLog
<1>2. PICK n \in DOMAIN nodes, used \in 0 .. Len(p) :
        /\ Descend(nodes, p) = <<n, used>> /\ n[2] = used
        /\ Leads(reg, n, <<k, used>>) /\ Stuck(nodes, n, p, used)
  BY DescendIs
<1> DEFINE kid == EdgeTaken(nodes, n, p, used + 1)
           c == CommonLen(nodes[kid].prefix, p, used)
           upper == <<k, used + c>>
           split == Split(nodes, n, kid, upper, c)
<1>3. Descend(nodes, p)[1] = n /\ Descend(nodes, p)[2] = used
  BY <1>2
<1>4. InsertRoute(nodes, k, op, p) =
        IF used = Len(p) THEN SetEndpoint(nodes, n, op, p)
        ELSE IF Edges(nodes, n, p, used + 1) = {} THEN AddChain(nodes, n, k, op, p, used)
        ELSE IF used + c = Len(p) THEN SetEndpoint(split, upper, op, p)
        ELSE AddChain(split, upper, k, op, p, used + c)
  BY <1>3 DEF InsertRoute
<1>5. CASE used = Len(p)
  BY <1>2, <1>4, <1>5, EndsOnNode
<1>6. CASE used # Len(p) /\ Edges(nodes, n, p, used + 1) = {}
  <2>1. used \in 0 .. Len(p) - 1 /\ used + 1 \in 1 .. Len(p)
    BY <1>1, <1>6
  <2>2. \A l \in Kids(nodes, n) : nodes[l].prefix[1] # Edge(p, used + 1)
    BY <1>1, <1>6, <2>1, EdgeTakenIs
  <2> QED BY <1>2, <1>4, <1>6, <2>1, <2>2, EndsOnChain
<1>7. CASE used # Len(p) /\ Edges(nodes, n, p, used + 1) # {}
  <2>1. used \in 0 .. Len(p) - 1 /\ used + 1 \in 1 .. Len(p)
    BY <1>1, <1>7
  <2>2. /\ kid \in Kids(nodes, n) /\ nodes[kid].prefix[1] = Edge(p, used + 1)
        /\ kid \in ToSet(nodes[n].kids[TypeOf(p[used + 1])])
    BY <1>1, <1>7, <2>1, EdgeTakenIs
  <2>3. c < Len(nodes[kid].prefix)
    BY <1>2, <1>7 DEF Stuck
  <2> HIDE DEF kid
  <2>4. c = CommonLen(nodes[kid].prefix, p, used)
    OBVIOUS
  <2> HIDE DEF c
  <2>5. upper = <<k, used + c>> /\ split = Split(nodes, n, kid, upper, c)
    OBVIOUS
  <2> HIDE DEF upper, split
  <2>6. /\ c \in Nat /\ used + c \in 1 .. Len(p)
        /\ IsSplit(nodes, split, n, kid, upper, c) /\ IsTree(split, reg)
        /\ upper \notin DOMAIN nodes /\ Leads(reg, upper, <<k, used + c>>)
        /\ used + c < Len(p) =>
             \A l \in Kids(split, upper) : split[l].prefix[1] # Edge(p, used + c + 1)
    <3>1. SplitThere(reg, nodes, split, n, kid, k, p, used, c)
      BY <1>2, <2>1, <2>2, <2>3, <2>4, <2>5, SplitWherePatternLeaves
    <3> QED BY <2>5, <3>1 DEF SplitThere
  <2>7. /\ upper \in DOMAIN split /\ DOMAIN split = DOMAIN nodes \cup {upper}
        /\ \A m \in DOMAIN nodes : split[m].eps = nodes[m].eps
        /\ \A o \in Ops : split[upper].eps[o] = NoRoute
    BY <2>6 DEF IsSplit
  <2>8. upper[1] = k /\ upper[2] = used + c
    BY <2>5
  \* What is inserted below the split is inserted into the tree before it.
  <2>9. ASSUME NEW N, Inserted(split, N, reg, k, op, p) PROVE Inserted(nodes, N, reg, k, op, p)
    <3>1. PICK z \in DOMAIN N :
            /\ z[2] = Len(p) /\ Leads(reg, z, <<k, Len(p)>>) /\ N[z].eps[op] = p
            /\ \A m \in DOMAIN N, o \in Ops : m # z \/ o # op =>
                 N[m].eps[o] = IF m \in DOMAIN split THEN split[m].eps[o] ELSE NoRoute
      BY <2>9 DEF Inserted
    <3>2. \A m \in DOMAIN N, o \in Ops : m # z \/ o # op =>
            N[m].eps[o] = IF m \in DOMAIN nodes THEN nodes[m].eps[o] ELSE NoRoute
      BY <2>6, <2>7, <3>1
    <3>3. IsTree(N, reg) /\ DOMAIN nodes \subseteq DOMAIN N
      BY <2>7, <2>9 DEF Inserted
    <3> QED BY <3>1, <3>2, <3>3 DEF Inserted
  <2>10. CASE used + c = Len(p)
    <3>1. Inserted(split, SetEndpoint(split, upper, op, p), reg, k, op, p)
      BY <2>6, <2>7, <2>8, <2>10, EndsOnNode
    <3>2. InsertRoute(nodes, k, op, p) = SetEndpoint(split, upper, op, p)
      BY <1>4, <1>7, <2>10 DEF split, upper, kid, c
    <3> QED BY <2>9, <3>1, <3>2
  <2>11. CASE used + c # Len(p)
    <3>0. Len(p) \in Nat /\ used + c \in 1 .. Len(p)
      BY <1>1, <2>6
    <3>1. used + c \in 0 .. Len(p) - 1 /\ used + c < Len(p) /\ used + c \in Nat
      BY <2>11, <3>0
    <3>2. \A m \in DOMAIN split : m[1] = k => m[2] <= used + c
      BY <2>7, <2>8, <3>1
    <3>3. Inserted(split, AddChain(split, upper, k, op, p, used + c), reg, k, op, p)
      <4> DEFINE u == used + c
      <4>1. /\ u \in 0 .. Len(p) - 1 /\ upper[2] = u /\ Leads(reg, upper, <<k, u>>)
            /\ \A l \in Kids(split, upper) : split[l].prefix[1] # Edge(p, u + 1)
            /\ \A m \in DOMAIN split : m[1] = k => m[2] <= u
        BY <2>6, <2>8, <3>1, <3>2
      <4> HIDE DEF u
      <4>2. Inserted(split, AddChain(split, upper, k, op, p, u), reg, k, op, p)
        BY <2>6, <2>7, <4>1, EndsOnChain
      <4> QED BY <4>2 DEF u
    <3>4. InsertRoute(nodes, k, op, p) = AddChain(split, upper, k, op, p, used + c)
      BY <1>4, <1>7, <2>11 DEF split, upper, kid, c
    <3> QED BY <2>9, <3>3, <3>4
  <2> QED BY <2>10, <2>11
<1> QED BY <1>5, <1>6, <1>7

----------------------------------------------------------------------------
(* Endpoints *)

\* Two patterns are one route exactly if they have the same edges.
LEMMA ShapesAreEdges ==
  ASSUME NEW p \in Patterns, NEW q \in Patterns
  PROVE  SameShape(p, q) <=>
           Len(p) = Len(q) /\ \A i \in 1 .. Len(p) : Edge(p, i) = Edge(q, i)
<1>1. Len(p) \in Nat /\ Len(q) \in Nat
  BY PatternTypes
<1>2. ASSUME SameShape(p, q), NEW i \in 1 .. Len(p) PROVE Edge(p, i) = Edge(q, i)
  <2>1. \A j \in 1 .. Len(p) : TypeOf(p[j]) = TypeOf(q[j]) /\ TextOf(p[j]) = TextOf(q[j])
                              /\ FirstByte(p[j]) = FirstByte(q[j])
    <3> TAKE j \in 1 .. Len(p)
    <3>1. \/ p[j] = q[j] \/ (p[j] \in Params /\ q[j] \in Params)
          \/ (p[j] \in Regexps /\ q[j] \in Regexps /\ RexOf[p[j]] = RexOf[q[j]])
      BY <1>2 DEF SameShape
    <3>2. CASE p[j] = q[j]
      BY <3>2
    <3>3. CASE p[j] \in Params /\ q[j] \in Params
      BY <3>3, TokensAssumption DEF TypeOf, TextOf, FirstByte
    <3>4. CASE p[j] \in Regexps /\ q[j] \in Regexps /\ RexOf[p[j]] = RexOf[q[j]]
      BY <3>4, TokensAssumption DEF TypeOf, TextOf, FirstByte
    <3> QED BY <3>1, <3>2, <3>3, <3>4
  <2>2. Len(p) = Len(q)
    BY <1>2 DEF SameShape
  <2>3. (p[i] \in Params \cup Regexps) = (q[i] \in Params \cup Regexps)
    BY <1>2 DEF SameShape
  <2>4. i # Len(p) => i + 1 \in 1 .. Len(p)
    BY <1>1
  <2>5. TailAt(p, i) = TailAt(q, i)
    BY <2>1, <2>2, <2>3, <2>4 DEF TailAt
  <2> QED BY <2>1, <2>5 DEF Edge
<1>3. ASSUME Len(p) = Len(q), \A i \in 1 .. Len(p) : Edge(p, i) = Edge(q, i)
      PROVE  SameShape(p, q)
  <2> SUFFICES ASSUME NEW i \in 1 .. Len(p), p[i] # q[i]
               PROVE  \/ p[i] \in Params /\ q[i] \in Params
                      \/ p[i] \in Regexps /\ q[i] \in Regexps /\ RexOf[p[i]] = RexOf[q[i]]
    BY <1>3 DEF SameShape
  <2>1. Edge(p, i) = Edge(q, i)
    BY <1>3
  <2>2. TypeOf(p[i]) = TypeOf(q[i]) /\ TextOf(p[i]) = TextOf(q[i])
    BY <2>1 DEF Edge
  <2>3. CASE p[i] \in Params
    BY <2>2, <2>3, TokensAssumption DEF TypeOf
  <2>4. CASE p[i] \in Regexps
    <3>1. q[i] \in Regexps
      BY <2>2, <2>4, TokensAssumption DEF TypeOf
    <3> QED BY <2>2, <2>4, <3>1, TokensAssumption DEF TextOf
  <2>5. CASE p[i] = Star
    BY <2>2, <2>5, TokensAssumption DEF TypeOf
  <2>6. CASE p[i] \notin Params /\ p[i] \notin Regexps /\ p[i] # Star
    <3>1. q[i] \notin Params /\ q[i] \notin Regexps /\ q[i] # Star
      BY <2>2, <2>6, TokensAssumption DEF TypeOf
    <3>2. TextOf(p[i]) = p[i] /\ TextOf(q[i]) = q[i]
      BY <2>6, <3>1 DEF TextOf
    <3> QED BY <2>2, <3>2
  <2> QED BY <2>3, <2>4, <2>5, <2>6
<1>4. SameShape(p, q) => Len(p) = Len(q)
  BY DEF SameShape
<1> QED BY <1>2, <1>3, <1>4

\* Two registrations end at one node exactly if they are one route.
LEMMA EndsTogether ==
  ASSUME NEW nodes, NEW reg, IsLog(reg), IsTree(nodes, reg), NEW n \in DOMAIN nodes,
         NEW i \in 1 .. Len(reg), NEW j \in 1 .. Len(reg), EndsHere(reg, n, i)
  PROVE  EndsHere(reg, n, j) <=> SameShape(reg[j][2], reg[i][2])
<1> DEFINE p == reg[i][2]
           q == reg[j][2]
<1>1. p \in Patterns /\ q \in Patterns /\ Len(p) \in Nat /\ Len(q) \in Nat
  BY LogTypes, PatternTypes
<1>2. n \in Nat \X Nat /\ n[2] \in Nat
  BY PositionTypes DEF IsTree, Placed
<1>3. n[2] = Len(p) /\ \A x \in 1 .. n[2] : Way(reg, n, x) = Edge(p, x)
  BY DEF EndsHere, Leads, Way
<1>4. EndsHere(reg, n, j) <=> n[2] = Len(q) /\ \A x \in 1 .. n[2] : Way(reg, n, x) = Edge(q, x)
  BY <1>2 DEF EndsHere, Leads, Way
<1>5. SameShape(q, p) <=> Len(q) = Len(p) /\ \A x \in 1 .. Len(q) : Edge(q, x) = Edge(p, x)
  BY <1>1, ShapesAreEdges
<1> QED BY <1>3, <1>4, <1>5

LEMMA RadixInvFirst == RadixInv(EmptyTree, <<>>)
<1> DEFINE nodes == EmptyTree
           new == NewNode(<<>>)
<1>1. new = [prefix |-> <<>>, eps |-> [op \in Ops |-> NoRoute], kids |-> [t \in NodeTypes |-> <<>>]]
  BY DEF NewNode
<1>2. DOMAIN nodes = {Top} /\ nodes[Top] = new
  BY DEF EmptyTree
<1> HIDE DEF nodes, new
<1>3. \A op \in Ops : new.eps[op] = NoRoute
  BY <1>1
<1>4. \A t \in NodeTypes : ToSet(new.kids[t]) = {}
  <2>1. \A t \in NodeTypes : new.kids[t] = <<>>
    BY <1>1
  <2> QED BY <2>1 DEF ToSet
<1>5. Kids(nodes, Top) = {}
  BY <1>2, <1>4 DEF Kids
<1>6. IsHeap(nodes)
  <2>1. [op \in Ops |-> NoRoute] \in [Ops -> Patterns \cup {NoRoute}]
    OBVIOUS
  <2>2. [t \in NodeTypes |-> <<>>] \in [NodeTypes -> Seq({Top})] /\ <<>> \in Seq(AllEdges)
    OBVIOUS
  <2>3. new \in NodesOn({Top})
    BY <1>1, <2>1, <2>2 DEF NodesOn
  <2>4. nodes = [n \in {Top} |-> new]
    BY DEF nodes, EmptyTree, new
  <2>5. nodes \in [{Top} -> NodesOn({Top})]
    BY <2>3, <2>4
  <2> QED BY <1>2, <2>5 DEF IsHeap
<1>7. Placed(nodes, <<>>)
  BY <1>2 DEF Placed, Positions, Top
<1>8. KidsFit(nodes, <<>>) /\ SiblingsDiffer(nodes) /\ Connected(nodes, <<>>)
  BY <1>2, <1>4, <1>5 DEF KidsFit, SiblingsDiffer, Connected
<1>9. IsLog(<<>>) /\ Len(<<>>) = 0
  BY DEF IsLog
<1>10. HasEnds(nodes, <<>>)
  BY <1>9 DEF HasEnds
<1>11. LastWins(nodes, <<>>)
  BY <1>2, <1>3, <1>9 DEF LastWins
<1> QED BY <1>6, <1>7, <1>8, <1>9, <1>10, <1>11 DEF RadixInv, IsTree, nodes

LEMMA RadixInvNext ==
  ASSUME NEW nodes, NEW reg, RadixInv(nodes, reg), NEW op \in Ops, NEW p \in Patterns
  PROVE  /\ RadixInv(InsertRoute(nodes, Len(reg) + 1, op, p), Append(reg, <<op, p>>))
         /\ DOMAIN nodes \subseteq DOMAIN InsertRoute(nodes, Len(reg) + 1, op, p)
<1> DEFINE k == Len(reg) + 1
           more == Append(reg, <<op, p>>)
           N == InsertRoute(nodes, k, op, p)
<1>1. IsLog(reg) /\ Len(reg) \in Nat
  BY DEF RadixInv, IsLog
<1>2. /\ IsLog(more) /\ Len(more) = k /\ k \in 1 .. Len(more)
      /\ \A i \in 1 .. Len(reg) : more[i] = reg[i]
      /\ more[k] = <<op, p>> /\ more[k][1] = op /\ more[k][2] = p
      /\ \A i \in 1 .. Len(more) : i = k \/ i \in 1 .. Len(reg)
  BY <1>1 DEF IsLog
<1> HIDE DEF more
<1>3. IsTree(nodes, more)
  <2>1. Len(reg) <= Len(more)
    BY <1>1, <1>2
  <2> QED BY <1>1, <1>2, <2>1, LogGrows DEF RadixInv
<1>4. \A n \in DOMAIN nodes : n \in Positions(reg) /\ n \in Nat \X Nat
  BY <1>1, PositionTypes DEF RadixInv, IsTree, Placed
<1>5. \A m \in DOMAIN nodes : m[1] # k
  <2> SUFFICES ASSUME NEW m \in DOMAIN nodes PROVE m[1] # k
    OBVIOUS
  <2>1. CASE m = Top
    BY <1>1, <2>1 DEF Top
  <2>2. CASE m # Top
    BY <1>1, <1>4, <2>2, PositionTypes
  <2> QED BY <2>1, <2>2
<1>6. Inserted(nodes, N, more, k, op, p)
  BY <1>2, <1>3, <1>5, InsertRouteIs
<1> HIDE DEF N
<1>7. IsTree(N, more) /\ DOMAIN nodes \subseteq DOMAIN N
  BY <1>6 DEF Inserted
<1>8. PICK z \in DOMAIN N :
        /\ z[2] = Len(p) /\ Leads(more, z, <<k, Len(p)>>) /\ N[z].eps[op] = p
        /\ \A m \in DOMAIN N, o \in Ops : m # z \/ o # op =>
             N[m].eps[o] = IF m \in DOMAIN nodes THEN nodes[m].eps[o] ELSE NoRoute
  BY <1>6 DEF Inserted
<1>9. EndsHere(more, z, k)
  BY <1>2, <1>8 DEF EndsHere
<1>10. \A m \in DOMAIN N : m \in Nat \X Nat /\ m[2] \in Nat
  BY <1>2, <1>7, PositionTypes DEF IsTree, Placed
\* A node that a registration ends at is the only one.
<1>11. ASSUME NEW m \in DOMAIN N, NEW n \in DOMAIN N, NEW i \in 1 .. Len(more),
              EndsHere(more, m, i), EndsHere(more, n, i)
       PROVE  m = n
  <2>1. m[2] = n[2] /\ Leads(more, m, n) /\ n[2] <= m[2]
    BY <1>10, <1>11 DEF EndsHere, Leads
  <2> QED BY <1>2, <1>7, <2>1, OneNodePerWay
<1>12. ASSUME NEW n \in DOMAIN nodes, NEW i \in 1 .. Len(reg)
       PROVE  EndsHere(more, n, i) <=> EndsHere(reg, n, i)
  <2>1. n[2] \in Nat /\ (n = Top => n[2] = 0) /\ (n # Top => n[1] \in 1 .. Len(reg))
    BY <1>1, <1>4, PositionTypes
  <2>2. more[i] = reg[i]
    BY <1>2
  <2>3. CASE n = Top
    BY <2>1, <2>2, <2>3 DEF EndsHere, Leads
  <2>4. CASE n # Top
    <3>1. more[n[1]] = reg[n[1]]
      BY <1>2, <2>1, <2>4
    <3> QED BY <2>2, <3>1 DEF EndsHere, Leads, Way
  <2> QED BY <2>3, <2>4
<1>13. \A i \in 1 .. Len(reg) : \E n \in DOMAIN nodes : EndsHere(more, n, i)
  BY <1>12 DEF RadixInv, HasEnds
<1>14. HasEnds(N, more)
  BY <1>2, <1>7, <1>9, <1>13 DEF HasEnds
<1>15. LastWins(N, more)
  <2> SUFFICES ASSUME NEW n \in DOMAIN N, NEW o \in Ops
               PROVE  \/ /\ N[n].eps[o] = NoRoute
                         /\ \A i \in 1 .. Len(more) : more[i][1] = o => ~EndsHere(more, n, i)
                      \/ \E i \in 1 .. Len(more) :
                           /\ more[i][1] = o /\ EndsHere(more, n, i) /\ N[n].eps[o] = more[i][2]
                           /\ \A j \in i + 1 .. Len(more) : more[j][1] = o => ~EndsHere(more, n, j)
    BY DEF LastWins
  <2>1. CASE n = z /\ o = op
    <3>1. \A j \in k + 1 .. Len(more) : FALSE
      BY <1>1, <1>2
    <3> QED BY <1>2, <1>8, <1>9, <2>1, <3>1
  <2>2. CASE n # z \/ o # op
    <3>1. more[k][1] = o => ~EndsHere(more, n, k)
      BY <1>2, <1>9, <1>11, <2>2
    <3>2. CASE n \notin DOMAIN nodes
      <4>1. N[n].eps[o] = NoRoute
        BY <1>8, <2>2, <3>2
      <4>2. \A i \in 1 .. Len(reg) : ~EndsHere(more, n, i)
        <5> SUFFICES ASSUME NEW i \in 1 .. Len(reg), EndsHere(more, n, i) PROVE FALSE
          OBVIOUS
        <5>1. PICK m \in DOMAIN nodes : EndsHere(more, m, i)
          BY <1>13
        <5>2. i \in 1 .. Len(more) /\ m \in DOMAIN N
          BY <1>1, <1>2, <1>7
        <5> QED BY <1>11, <3>2, <5>1, <5>2
      <4> QED BY <1>2, <3>1, <4>1, <4>2
    <3>3. CASE n \in DOMAIN nodes
      <4>1. N[n].eps[o] = nodes[n].eps[o]
        BY <1>8, <2>2, <3>3
      <4>2. CASE /\ nodes[n].eps[o] = NoRoute
                 /\ \A i \in 1 .. Len(reg) : reg[i][1] = o => ~EndsHere(reg, n, i)
        BY <1>2, <1>12, <3>1, <3>3, <4>1, <4>2
      <4>3. CASE \E i \in 1 .. Len(reg) :
                   /\ reg[i][1] = o /\ EndsHere(reg, n, i) /\ nodes[n].eps[o] = reg[i][2]
                   /\ \A j \in i + 1 .. Len(reg) : reg[j][1] = o => ~EndsHere(reg, n, j)
        <5>1. PICK i \in 1 .. Len(reg) :
                   /\ reg[i][1] = o /\ EndsHere(reg, n, i) /\ nodes[n].eps[o] = reg[i][2]
                   /\ \A j \in i + 1 .. Len(reg) : reg[j][1] = o => ~EndsHere(reg, n, j)
          BY <4>3
        <5>2. /\ i \in 1 .. Len(more) /\ more[i][1] = o /\ EndsHere(more, n, i)
              /\ N[n].eps[o] = more[i][2]
          BY <1>1, <1>2, <1>12, <3>3, <4>1, <5>1
        <5>3. ASSUME NEW j \in i + 1 .. Len(more), more[j][1] = o PROVE ~EndsHere(more, n, j)
          <6>1. CASE j = k
            BY <3>1, <5>3, <6>1
          <6>2. CASE j # k
            <7>1. j \in i + 1 .. Len(reg) /\ j \in 1 .. Len(reg)
              BY <1>1, <1>2, <6>2
            <7>2. ~EndsHere(reg, n, j)
              BY <1>2, <5>1, <5>3, <7>1
            <7> QED BY <1>12, <3>3, <7>1, <7>2
          <6> QED BY <6>1, <6>2
        <5> QED BY <5>2, <5>3
      <4> QED BY <3>3, <4>2, <4>3 DEF RadixInv, LastWins
    <3> QED BY <3>2, <3>3
  <2> QED BY <2>1, <2>2
<1> QED BY <1>2, <1>7, <1>14, <1>15 DEF RadixInv, N, more

----------------------------------------------------------------------------
(* What routes() lists *)

\* The patterns of a log have a longest.
LEMMA LongestPattern ==
  ASSUME NEW reg, IsLog(reg)
  PROVE  \E B \in Nat : \A n \in Positions(reg) : n[2] <= B
<1> DEFINE S == {b \in Nat : b <= Len(reg) =>
                   \E B \in Nat : \A i \in 1 .. b : Len(reg[i][2]) <= B}
<1>1. Len(reg) \in Nat
  BY DEF IsLog
<1>2. 0 \in S
  OBVIOUS
<1>3. ASSUME NEW b \in Nat, b \in S PROVE b + 1 \in S
  <2> SUFFICES ASSUME b + 1 <= Len(reg)
               PROVE  \E B \in Nat : \A i \in 1 .. b + 1 : Len(reg[i][2]) <= B
    OBVIOUS
  <2>1. PICK B \in Nat : \A i \in 1 .. b : Len(reg[i][2]) <= B
    BY <1>1, <1>3
  <2>2. \A i \in 1 .. b + 1 : Len(reg[i][2]) \in Nat
    BY <1>1, LogTypes, PatternTypes
  <2> DEFINE l == Len(reg[b + 1][2])
  <2>3. l \in Nat
    BY <2>2
  <2>4. B + l \in Nat /\ \A i \in 1 .. b + 1 : Len(reg[i][2]) <= B + l
    <3>1. \A i \in 1 .. b + 1 : i \in 1 .. b \/ i = b + 1
      OBVIOUS
    <3>2. ASSUME NEW i \in 1 .. b + 1 PROVE Len(reg[i][2]) <= B + l
      <4>1. CASE i = b + 1
        <5>1. Len(reg[i][2]) = l
          BY <4>1
        <5> HIDE DEF l
        <5> QED BY <2>3, <5>1
      <4>2. CASE i \in 1 .. b
        <5>1. Len(reg[i][2]) <= B /\ Len(reg[i][2]) \in Nat
          BY <2>1, <2>2, <4>2
        <5> HIDE DEF l
        <5> QED BY <2>3, <5>1
      <4> QED BY <3>1, <4>1, <4>2
    <3> HIDE DEF l
    <3> QED BY <2>3, <3>2
  <2> QED BY <2>4
<1>4. Len(reg) \in S
  <2> HIDE DEF S
  <2> QED BY <1>1, <1>2, <1>3, AllNumbers
<1>5. PICK B \in Nat : \A i \in 1 .. Len(reg) : Len(reg[i][2]) <= B
  BY <1>1, <1>4
<1>6. ASSUME NEW n \in Positions(reg) PROVE n[2] <= B
  <2>1. CASE n = Top
    BY <2>1, PositionTypes
  <2>2. CASE n # Top
    <3>1. n[1] \in 1 .. Len(reg) /\ n[2] \in 1 .. Len(reg[n[1]][2])
      BY <2>2, PositionTypes
    <3>2. Len(reg[n[1]][2]) \in Nat /\ Len(reg[n[1]][2]) <= B
      BY <1>5, <3>1, LogTypes, PatternTypes
    <3> QED BY <3>1, <3>2
  <2> QED BY <2>1, <2>2
<1> QED BY <1>6

\* The walk reaches every node.
LEMMA WalkIs ==
  ASSUME NEW nodes, NEW reg, IsLog(reg), IsTree(nodes, reg)
  PROVE  AllNodes(nodes) = DOMAIN nodes
<1> DEFINE D == DOMAIN nodes
           V == SUBSET D
<1>1. PICK B \in Nat : \A n \in Positions(reg) : n[2] <= B
  BY LongestPattern
<1>2. \A n \in D : n[2] \in Nat /\ n[2] <= B /\ n \in Nat \X Nat
  BY <1>1, PositionTypes DEF IsTree, Placed
<1>3. \A n \in D : \A k \in Kids(nodes, n) : k \in D /\ n[2] < k[2]
  BY KidFacts DEF Spans
<1> DEFINE measure == [n \in D |-> B - n[2]]
           f0 == [n \in D |-> D]
           G == [y \in D \X [D -> V] |-> WalkFrom(y[2], nodes, y[1])]
<1> HIDE DEF D
<1>4. measure \in [D -> 0 .. B] /\ f0 \in [D -> V]
  <2>1. \A n \in D : B - n[2] \in 0 .. B
    BY <1>1, <1>2
  <2> QED BY <2>1
<1>5. ASSUME NEW n \in D, NEW f \in [D -> V] PROVE WalkFrom(f, nodes, n) \in V
  <2>1. \A k \in Kids(nodes, n) : f[k] \subseteq D
    BY <1>3, <1>5
  <2> QED BY <1>5, <2>1 DEF WalkFrom
<1>6. \A n \in D, f \in [D -> V] : G[<<n, f>>] = WalkFrom(f, nodes, n)
  <2> HIDE DEF V
  <2> QED OBVIOUS
<1>7. LooksDown(D, V, measure, G)
  <2>1. G \in [D \X [D -> V] -> V]
    <3>1. \A y \in D \X [D -> V] : y[1] \in D /\ y[2] \in [D -> V]
      BY Pairs
    <3>2. \A y \in D \X [D -> V] : WalkFrom(y[2], nodes, y[1]) \in V
      <4> HIDE DEF V
      <4> QED BY <1>5, <3>1
    <3> HIDE DEF V
    <3> QED BY <3>2
  <2>2. ASSUME NEW n \in D, NEW f \in [D -> V], NEW g \in [D -> V],
               \A m \in D : measure[m] < measure[n] => f[m] = g[m]
        PROVE  G[<<n, f>>] = G[<<n, g>>]
    <3>1. ASSUME NEW k \in Kids(nodes, n) PROVE f[k] = g[k]
      <4>1. k \in D /\ n[2] < k[2] /\ n[2] \in Nat /\ k[2] \in Nat
        BY <1>2, <1>3, <2>2
      <4>2. measure[k] = B - k[2] /\ measure[n] = B - n[2]
        BY <4>1
      <4>3. measure[k] < measure[n]
        <5> HIDE DEF measure
        <5> QED BY <1>1, <4>1, <4>2
      <4> QED BY <2>2, <4>1, <4>3
    <3>2. {f[k] : k \in Kids(nodes, n)} = {g[k] : k \in Kids(nodes, n)}
      BY <3>1
    <3>3. WalkFrom(f, nodes, n) = WalkFrom(g, nodes, n)
      BY <3>2 DEF WalkFrom
    <3> HIDE DEF G
    <3> QED BY <1>6, <3>3
  <2> HIDE DEF G, measure, V
  <2> QED BY <2>1, <2>2 DEF LooksDown
<1>8. PICK walk \in [D -> V] : Follows(walk, D, G)
  <2> HIDE DEF G, measure, V, f0
  <2> QED BY <1>1, <1>4, <1>7, RecursionExists
<1> DEFINE IsWalk(w) == w = [n \in D |-> WalkFrom(w, nodes, n)]
           w0 == CHOOSE w : IsWalk(w)
<1>9. IsWalk(walk)
  <2>1. \A n \in D : walk[n] = WalkFrom(walk, nodes, n)
    <3> HIDE DEF G, V
    <3> QED BY <1>6, <1>8 DEF Follows
  <2> QED BY <2>1
<1>10. IsWalk(w0)
  <2> HIDE DEF IsWalk
  <2> QED BY <1>9
<1>11. AllNodes(nodes) = w0[Top]
  BY DEF AllNodes, D
<1> HIDE DEF w0
<1>12. \A n \in D : w0[n] = {n} \cup UNION {w0[k] : k \in Kids(nodes, n)}
  BY <1>10 DEF WalkFrom
<1> HIDE DEF IsWalk, G, measure, f0, V
\* By induction on how far below a node can be.
<1> DEFINE Right(n) == /\ w0[n] \subseteq D
                       /\ \A m \in D : Leads(reg, n, m) => m \in w0[n]
           S == {b \in Nat : \A n \in D : B - n[2] < b => Right(n)}
<1>13. 0 \in S
  <2>1. \A n \in D : ~(B - n[2] < 0)
    BY <1>1, <1>2
  <2> QED BY <2>1
<1>14. ASSUME NEW b \in Nat, b \in S PROVE b + 1 \in S
  <2> SUFFICES ASSUME NEW n \in D, B - n[2] < b + 1 PROVE Right(n)
    OBVIOUS
  <2>1. ASSUME NEW k \in Kids(nodes, n) PROVE Right(k)
    <3>1. k \in D /\ n[2] < k[2] /\ n[2] \in Nat /\ k[2] \in Nat
      BY <1>2, <1>3, <2>1
    <3>2. B - k[2] < b
      BY <1>1, <3>1
    <3> QED BY <1>14, <3>1, <3>2
  <2>2. w0[n] = {n} \cup UNION {w0[k] : k \in Kids(nodes, n)}
    BY <1>12
  <2>3. w0[n] \subseteq D
    BY <2>1, <2>2
  <2>4. ASSUME NEW m \in D, Leads(reg, n, m), m # n PROVE m \in w0[n]
    <3>1. PICK k \in Kids(nodes, n) : Leads(reg, k, m)
      BY <2>4 DEF IsTree, Connected, D
    <3>2. m \in w0[k]
      BY <2>1, <3>1
    <3> QED BY <2>2, <3>1, <3>2
  <2>5. n \in w0[n]
    BY <2>2
  <2> QED BY <2>3, <2>4, <2>5
<1>15. B + 1 \in S
  <2> HIDE DEF S
  <2> QED BY <1>1, <1>13, <1>14, AllNumbers
<1>16. Top \in D /\ Top[2] = 0 /\ \A m \in D : Leads(reg, Top, m)
  BY <1>2 DEF IsTree, Placed, Top, Leads, D
<1>17. Right(Top)
  <2> HIDE DEF Right
  <2> QED BY <1>1, <1>15, <1>16
<1> QED BY <1>11, <1>16, <1>17 DEF D

\* The tree lists the routes that are registered and not replaced.
LEMMA ListsThem ==
  ASSUME RadixInv(tree, registered)
  PROVE  ListsEveryRoute
<1>1. IsLog(registered) /\ IsTree(tree, registered)
  BY DEF RadixInv
<1>2. Len(registered) \in Nat /\ DOMAIN registered = 1 .. Len(registered)
  BY <1>1 DEF IsLog
<1>3. AllNodes(tree) = DOMAIN tree
  BY <1>1, WalkIs
<1> SUFFICES ASSUME NEW op \in Ops PROVE Listed(op) = Registered(op)
  BY DEF ListsEveryRoute
\* A registration is replaced exactly if a later one ends at its node.
<1>4. ASSUME NEW n \in DOMAIN tree, NEW i \in 1 .. Len(registered), registered[i][1] = op,
             EndsHere(registered, n, i)
      PROVE  Replaced(i) <=> \E j \in i + 1 .. Len(registered) :
               registered[j][1] = op /\ EndsHere(registered, n, j)
  <2>1. \A j \in i + 1 .. Len(registered) : j \in 1 .. Len(registered)
    BY <1>2
  <2>2. \A j \in i + 1 .. Len(registered) :
          EndsHere(registered, n, j) <=> SameShape(registered[j][2], registered[i][2])
    BY <1>1, <1>4, <2>1, EndsTogether
  <2> QED BY <1>4, <2>2 DEF Replaced
<1>5. ASSUME NEW r \in Listed(op) PROVE r \in Registered(op)
  <2>1. PICK n \in DOMAIN tree : r = tree[n].eps[op] /\ r # NoRoute
    BY <1>3 DEF Listed
  <2>2. PICK i \in 1 .. Len(registered) :
          /\ registered[i][1] = op /\ EndsHere(registered, n, i) /\ r = registered[i][2]
          /\ \A j \in i + 1 .. Len(registered) : registered[j][1] = op => ~EndsHere(registered, n, j)
    BY <2>1 DEF RadixInv, LastWins
  <2>3. ~Replaced(i)
    BY <1>4, <2>2
  <2> QED BY <1>2, <2>2, <2>3 DEF Registered, Routes
<1>6. ASSUME NEW r \in Registered(op) PROVE r \in Listed(op)
  <2>1. PICK i \in 1 .. Len(registered) :
          registered[i][1] = op /\ r = registered[i][2] /\ ~Replaced(i)
    BY <1>2 DEF Registered, Routes
  <2>2. PICK n \in DOMAIN tree : EndsHere(registered, n, i)
    BY DEF RadixInv, HasEnds
  <2>3. PICK j \in 1 .. Len(registered) :
          /\ registered[j][1] = op /\ EndsHere(registered, n, j)
          /\ tree[n].eps[op] = registered[j][2]
          /\ \A l \in j + 1 .. Len(registered) : registered[l][1] = op => ~EndsHere(registered, n, l)
    BY <2>1, <2>2 DEF RadixInv, LastWins
  <2>4. \A l \in i + 1 .. Len(registered) : registered[l][1] = op => ~EndsHere(registered, n, l)
    BY <1>4, <2>1, <2>2
  <2>5. i = j
    <3>1. ~(i < j)
      BY <1>2, <2>3, <2>4
    <3>2. ~(j < i)
      BY <1>2, <2>1, <2>2, <2>3
    <3> QED BY <1>2, <3>1, <3>2
  <2>6. r # NoRoute
    BY <1>1, <2>1, LogTypes, PatternTypes
  <2> QED BY <1>3, <2>1, <2>2, <2>3, <2>5, <2>6 DEF Listed
<1> QED BY <1>5, <1>6

----------------------------------------------------------------------------
(* The tree, whatever is registered *)

\* After any registrations the nodes form a tree whose ways are the patterns of
\* the registrations, with one child for each edge, and each pattern's endpoint is
\* held where its way ends, by the last registration of its shape: InsertRoute,
\* with its splits and chains, keeps all of it.
THEOREM TreeOfPatterns == Spec => []RadixInv(tree, registered)
<1>1. Init => RadixInv(tree, registered)
  BY RadixInvFirst DEF Init
<1>2. RadixInv(tree, registered) /\ [Next]_vars => RadixInv(tree, registered)'
  <2> SUFFICES ASSUME RadixInv(tree, registered), [Next]_vars
               PROVE  RadixInv(tree', registered')
    OBVIOUS
  <2>1. CASE Next
    BY <2>1, RadixInvNext DEF Next, Register
  <2>2. CASE UNCHANGED vars
    BY <2>2 DEF vars
  <2> QED BY <2>1, <2>2
<1> QED BY <1>1, <1>2, PTL DEF Spec

\* The routes listed are those registered and not replaced by one of the same
\* shape: no split, no chain and no later registration loses one (radix.go routes).
THEOREM RoutesAreListed == Spec => []ListsEveryRoute
<1>1. RadixInv(tree, registered) => ListsEveryRoute
  BY ListsThem
<1> QED BY <1>1, TreeOfPatterns, PTL

----------------------------------------------------------------------------
(* The search *)

\* A miss is typed, and what a search takes back.
LEMMA MissTypes ==
  ASSUME NEW vals \in Stacks
  PROVE  /\ Miss(vals) \in Results /\ ~IsHit(Miss(vals)) /\ Miss(vals).vals = vals
         /\ Pop(vals) \in Stacks
         /\ \A a, b \in Nat : Append(vals, <<a, b>>) \in Stacks
<1>1. Miss(vals) \in Results /\ ~IsHit(Miss(vals)) /\ Miss(vals).vals = vals
  BY DEF Miss, Results, IsHit
<1>2. Len(vals) \in Nat
  BY DEF Stacks
<1>3. Pop(vals) \in Stacks
  <2>1. vals \in Seq(Nat \X Nat)
    BY DEF Stacks
  <2>2. SubSeq(vals, 1, Len(vals) - 1) \in Seq(Nat \X Nat)
    BY <2>1
  <2> QED BY <2>2 DEF Pop, Stacks
<1>4. \A a, b \in Nat : Append(vals, <<a, b>>) \in Stacks
  BY DEF Stacks
<1> QED BY <1>1, <1>3, <1>4

LEMMA TryTypes ==
  ASSUME NEW nodes, IsHeap(nodes), NEW path, NEW n, NEW k \in Kids(nodes, n), k \in DOMAIN nodes,
         NEW op \in Ops, NEW used \in 0 .. Len(path), NEW vals \in Stacks, NEW f, NEW h
  PROVE  /\ Answers(f, nodes, path, n) => Try(f, nodes, op, path, k, used, vals) \in Results
         /\ Agree(f, h, nodes, path, n) =>
              Try(f, nodes, op, path, k, used, vals) = Try(h, nodes, op, path, k, used, vals)
<1>1. nodes[k].eps[op] \in Patterns \cup {NoRoute}
  BY DEF IsHeap, NodesOn
<1>2. [pattern |-> nodes[k].eps[op], vals |-> vals] \in Results
  BY <1>1 DEF Results
<1>3. Answers(f, nodes, path, n) => f[<<k, 1, used, vals>>] \in Results
  BY DEF Answers
<1>4. Agree(f, h, nodes, path, n) => f[<<k, 1, used, vals>>] = h[<<k, 1, used, vals>>]
  BY DEF Agree
<1> QED BY <1>2, <1>3, <1>4 DEF Try

\* The end of a value is in the path, not before its start.
LEMMA ValueEndIs ==
  ASSUME NEW x, NEW path, Len(path) \in Nat, NEW used \in 0 .. Len(path)
  PROVE  /\ ValueEnd(x, path, used) \in used .. Len(path)
         /\ IsThere(path, used, x.tail) =>
              /\ ValueEnd(x, path, used) + 1 \in used + 1 .. Len(path)
              /\ path[ValueEnd(x, path, used) + 1] = x.tail
         /\ ~IsThere(path, used, x.tail) => ValueEnd(x, path, used) = Len(path)
         /\ \A i \in used + 1 .. ValueEnd(x, path, used) : path[i] # x.tail
<1>1. CASE IsThere(path, used, x.tail)
  <2> DEFINE S == {i \in used + 1 .. Len(path) : path[i] = x.tail}
             Is(i) == path[i] = x.tail /\ \A j \in used + 1 .. i - 1 : path[j] # x.tail
             e == NextByte(path, used, x.tail)
  <2>1. S \in SUBSET Nat /\ S # {}
    BY <1>1 DEF IsThere
  <2>2. PICK i \in S : \A j \in S : i <= j
    BY <2>1, LeastNumber
  <2>3. i \in used + 1 .. Len(path) /\ Is(i)
    BY <2>2
  <2>4. e = CHOOSE y \in used + 1 .. Len(path) : Is(y)
    BY DEF NextByte
  <2>5. e \in used + 1 .. Len(path) /\ Is(e)
    <3> HIDE DEF Is, e
    <3> QED BY <2>3, <2>4
  <2>6. ValueEnd(x, path, used) = e - 1
    BY <1>1 DEF ValueEnd
  <2> HIDE DEF e
  <2> QED BY <1>1, <2>5, <2>6
<1>2. CASE ~IsThere(path, used, x.tail)
  BY <1>2 DEF ValueEnd, IsThere
<1> QED BY <1>1, <1>2

\* The children of a group are children.
LEMMA GroupFacts ==
  ASSUME NEW nodes, NEW n, NEW t, NEW ns, IsGroup(nodes, n, t, ns)
  PROVE  /\ Len(ns) \in Nat \ {0} /\ DOMAIN ns = 1 .. Len(ns)
         /\ \A i \in 1 .. Len(ns) : ns[i] \in Kids(nodes, n) /\ ns[i] \in DOMAIN nodes
         /\ ToSet(ns) = {ns[i] : i \in 1 .. Len(ns)}
<1>1. ns \in Seq(DOMAIN nodes)
  BY DEF IsGroup, IsHeap, NodesOn
<1>2. Len(ns) \in Nat \ {0} /\ DOMAIN ns = 1 .. Len(ns)
  BY <1>1 DEF IsGroup
<1>3. ToSet(ns) = {ns[i] : i \in 1 .. Len(ns)}
  BY <1>2 DEF ToSet
<1>4. ToSet(ns) \subseteq Kids(nodes, n)
  BY DEF IsGroup, Kids
<1> QED BY <1>1, <1>2, <1>3, <1>4

LEMMA StaticTypes ==
  ASSUME NEW nodes, NEW n, NEW t, NEW ns, IsGroup(nodes, n, t, ns), IsHeap(nodes),
         NEW path, Len(path) \in Nat,
         NEW op \in Ops, NEW used \in 0 .. Len(path), NEW vals \in Stacks, NEW f, NEW h
  PROVE  /\ Answers(f, nodes, path, n) => InStatic(f, nodes, op, path, ns, used, vals) \in Results
         /\ Agree(f, h, nodes, path, n) =>
              InStatic(f, nodes, op, path, ns, used, vals) = InStatic(h, nodes, op, path, ns, used, vals)
<1> DEFINE k == CHOOSE x \in Fitting(nodes, ns, path, used) : TRUE
           u == used + Len(nodes[k].prefix)
<1>1. CASE Fitting(nodes, ns, path, used) = {}
  BY <1>1, MissTypes DEF InStatic
<1>2. CASE Fitting(nodes, ns, path, used) # {}
  <2>1. k \in Fitting(nodes, ns, path, used)
    BY <1>2
  <2> HIDE DEF k
  <2>2. k \in Kids(nodes, n) /\ k \in DOMAIN nodes
    <3>1. k \in ToSet(ns)
      BY <2>1 DEF Fitting
    <3>2. /\ \A i \in 1 .. Len(ns) : ns[i] \in Kids(nodes, n) /\ ns[i] \in DOMAIN nodes
          /\ ToSet(ns) = {ns[i] : i \in 1 .. Len(ns)}
      BY GroupFacts
    <3> QED BY <3>1, <3>2
  <2>3. nodes[k].prefix \in Seq(AllEdges)
    BY <2>2 DEF IsHeap, NodesOn
  <2>4. u \in 0 .. Len(path)
    BY <2>1, <2>3 DEF Fitting
  <2>5. \A g : InStatic(g, nodes, op, path, ns, used, vals) = Try(g, nodes, op, path, k, u, vals)
    BY <1>2 DEF InStatic, k
  <2> HIDE DEF u
  <2> QED BY <2>2, <2>4, <2>5, TryTypes
<1> QED BY <1>1, <1>2

LEMMA ValueTypes ==
  ASSUME NEW nodes, IsHeap(nodes), NEW n \in DOMAIN nodes, NEW k \in Kids(nodes, n), k \in DOMAIN nodes,
         NEW path, Len(path) \in Nat,
         NEW op \in Ops, NEW used \in 0 .. Len(path), NEW vals \in Stacks, NEW f, NEW h
  PROVE  /\ Answers(f, nodes, path, n) => WithValue(f, nodes, op, path, k, used, vals) \in Results
         /\ Agree(f, h, nodes, path, n) =>
              WithValue(f, nodes, op, path, k, used, vals) = WithValue(h, nodes, op, path, k, used, vals)
<1> DEFINE to == ValueEnd(nodes[k].prefix[1], path, used)
           vs == Append(vals, <<used, to>>)
<1>1. to \in used .. Len(path)
  BY ValueEndIs
<1> HIDE DEF to
<1>2. to \in 0 .. Len(path) /\ vs \in Stacks
  <2>1. used \in Nat /\ to \in Nat /\ to \in 0 .. Len(path)
    BY <1>1
  <2> QED BY <2>1, MissTypes
<1>3. \A g : WithValue(g, nodes, op, path, k, used, vals) = Try(g, nodes, op, path, k, to, vs)
  BY DEF WithValue, to
<1> HIDE DEF vs
<1> QED BY <1>2, <1>3, TryTypes

LEMMA ParamsTypes ==
  ASSUME NEW nodes, NEW n, NEW t, NEW ns, IsGroup(nodes, n, t, ns), IsHeap(nodes),
         NEW path, Len(path) \in Nat,
         NEW op \in Ops, NEW used \in 0 .. Len(path), NEW vals \in Stacks, NEW f, NEW h
  PROVE  /\ Answers(f, nodes, path, n) => InParams(f, nodes, op, path, ns, used, vals) \in Results
         /\ Agree(f, h, nodes, path, n) =>
              InParams(f, nodes, op, path, ns, used, vals) = InParams(h, nodes, op, path, ns, used, vals)
<1> DEFINE W(g, i) == WithValue(g, nodes, op, path, ns[i], used, vals)
           Found(g) == {i \in DOMAIN ns : /\ TakesValue(nodes[ns[i]].prefix[1], path, used)
                                          /\ IsHit(W(g, i))}
           First(g) == CHOOSE i \in Found(g) : \A j \in Found(g) : i <= j
           End(g) == g[<<ns[Len(ns)], 1, used, Append(vals, <<used, used>>)>>]
<1>1. \A g : InParams(g, nodes, op, path, ns, used, vals) =
               IF used = Len(path) THEN Miss(vals)
               ELSE IF Found(g) # {} THEN W(g, First(g))
               ELSE IF IsHit(End(g)) THEN End(g) ELSE Miss(Pop(End(g).vals))
  BY DEF InParams
<1>2. /\ Len(ns) \in Nat \ {0} /\ DOMAIN ns = 1 .. Len(ns)
      /\ \A i \in 1 .. Len(ns) : ns[i] \in Kids(nodes, n) /\ ns[i] \in DOMAIN nodes
  BY GroupFacts
<1>3. Len(ns) \in 1 .. Len(ns)
  BY <1>2
<1>4. Append(vals, <<used, used>>) \in Stacks
  <2>1. used \in Nat
    OBVIOUS
  <2> QED BY <2>1, MissTypes
<1>5. ASSUME NEW i \in DOMAIN ns
      PROVE  /\ Answers(f, nodes, path, n) => W(f, i) \in Results
             /\ Agree(f, h, nodes, path, n) => W(f, i) = W(h, i)
  <2>1. ns[i] \in Kids(nodes, n) /\ ns[i] \in DOMAIN nodes /\ n \in DOMAIN nodes
    BY <1>2, <1>5 DEF IsGroup
  <2> QED BY <2>1, ValueTypes
<1>6. /\ Answers(f, nodes, path, n) => End(f) \in Results
      /\ Agree(f, h, nodes, path, n) => End(f) = End(h)
  BY <1>2, <1>3, <1>4 DEF Answers, Agree
<1>7. Found(f) # {} => First(f) \in Found(f)
  <2>1. Found(f) \in SUBSET Nat
    BY <1>2
  <2> HIDE DEF Found
  <2> QED BY <2>1, LeastNumber
<1>8. First(f) \in Found(f) => First(f) \in DOMAIN ns
  OBVIOUS
<1> HIDE DEF W, End
<1>9. Agree(f, h, nodes, path, n) => Found(f) = Found(h) /\ First(f) = First(h)
  <2>1. Agree(f, h, nodes, path, n) => Found(f) = Found(h)
    BY <1>5
  <2> HIDE DEF Found
  <2> QED BY <2>1
<1> HIDE DEF Found, First
<1>10. ASSUME Answers(f, nodes, path, n) PROVE InParams(f, nodes, op, path, ns, used, vals) \in Results
  <2>1. W(f, First(f)) \in Results \/ Found(f) = {}
    BY <1>5, <1>7, <1>8, <1>10
  <2>2. End(f) \in Results /\ Miss(vals) \in Results
    BY <1>6, <1>10, MissTypes
  <2>3. End(f).vals \in Stacks
    BY <2>2 DEF Results
  <2>4. Miss(Pop(End(f).vals)) \in Results
    BY <2>3, MissTypes
  <2> QED BY <1>1, <2>1, <2>2, <2>4
<1>11. ASSUME Agree(f, h, nodes, path, n)
       PROVE  InParams(f, nodes, op, path, ns, used, vals) = InParams(h, nodes, op, path, ns, used, vals)
  <2>1. Found(f) # {} => W(f, First(f)) = W(h, First(h))
    BY <1>5, <1>7, <1>8, <1>9, <1>11
  <2>2. End(f) = End(h) /\ Found(f) = Found(h)
    BY <1>6, <1>9, <1>11
  <2> QED BY <1>1, <2>1, <2>2
<1> QED BY <1>10, <1>11

LEMMA CatchAllTypes ==
  ASSUME NEW nodes, NEW n, NEW t, NEW ns, IsGroup(nodes, n, t, ns), IsHeap(nodes),
         NEW path, Len(path) \in Nat,
         NEW op \in Ops, NEW used \in 0 .. Len(path), NEW vals \in Stacks, NEW f, NEW h
  PROVE  /\ Answers(f, nodes, path, n) => InCatchAll(f, nodes, op, path, ns, used, vals) \in Results
         /\ Agree(f, h, nodes, path, n) =>
              InCatchAll(f, nodes, op, path, ns, used, vals) = InCatchAll(h, nodes, op, path, ns, used, vals)
<1> DEFINE vs == Append(vals, <<used, Len(path)>>)
           k == ns[1]
           T(g) == Try(g, nodes, op, path, k, Len(path), vs)
<1>1. \A g : InCatchAll(g, nodes, op, path, ns, used, vals) =
               IF IsHit(T(g)) THEN T(g) ELSE Miss(Pop(T(g).vals))
  BY DEF InCatchAll
<1>2. vs \in Stacks /\ Len(path) \in 0 .. Len(path)
  <2>1. used \in Nat /\ Len(path) \in Nat
    OBVIOUS
  <2>2. vs \in Stacks
    BY <2>1, MissTypes
  <2> HIDE DEF vs
  <2> QED BY <2>2
<1>3. k \in Kids(nodes, n) /\ k \in DOMAIN nodes
  <2>1. Len(ns) \in Nat \ {0} /\ \A i \in 1 .. Len(ns) : ns[i] \in Kids(nodes, n) /\ ns[i] \in DOMAIN nodes
    BY GroupFacts
  <2> QED BY <2>1
<1> HIDE DEF vs, k
<1>4. /\ Answers(f, nodes, path, n) => T(f) \in Results
      /\ Agree(f, h, nodes, path, n) => T(f) = T(h)
  BY <1>2, <1>3, TryTypes
<1> HIDE DEF T
<1>5. T(f) \in Results => Miss(Pop(T(f).vals)) \in Results
  <2>1. T(f) \in Results => T(f).vals \in Stacks
    BY DEF Results
  <2> QED BY <2>1, MissTypes
<1> QED BY <1>1, <1>4, <1>5

LEMMA GroupTypes ==
  ASSUME NEW nodes, IsHeap(nodes), NEW n \in DOMAIN nodes, NEW t \in NodeTypes,
         NEW path, Len(path) \in Nat,
         NEW op \in Ops, NEW used \in 0 .. Len(path), NEW vals \in Stacks, NEW f, NEW h
  PROVE  /\ Answers(f, nodes, path, n) => InGroup(f, nodes, op, path, n, t, used, vals) \in Results
         /\ Agree(f, h, nodes, path, n) =>
              InGroup(f, nodes, op, path, n, t, used, vals) = InGroup(h, nodes, op, path, n, t, used, vals)
<1> DEFINE ns == nodes[n].kids[t]
<1>1. CASE ns = <<>>
  BY <1>1, MissTypes DEF InGroup
<1>2. CASE ns # <<>>
  <2>1. IsGroup(nodes, n, t, ns)
    BY <1>2 DEF IsGroup
  <2>2. CASE t = "static"
    <3>1. \A g : InGroup(g, nodes, op, path, n, t, used, vals) = InStatic(g, nodes, op, path, ns, used, vals)
      BY <1>2, <2>2 DEF InGroup
    <3> HIDE DEF ns
    <3> QED BY <2>1, <3>1, StaticTypes
  <2>3. CASE t \in {"regexp", "param"}
    <3>1. \A g : InGroup(g, nodes, op, path, n, t, used, vals) = InParams(g, nodes, op, path, ns, used, vals)
      BY <1>2, <2>3 DEF InGroup
    <3> HIDE DEF ns
    <3> QED BY <2>1, <3>1, ParamsTypes
  <2>4. CASE t = "catchall"
    <3>1. t # "static" /\ t \notin {"regexp", "param"}
      BY <2>4
    <3>2. \A g : InGroup(g, nodes, op, path, n, t, used, vals) = InCatchAll(g, nodes, op, path, ns, used, vals)
      BY <1>2, <2>4, <3>1 DEF InGroup
    <3> HIDE DEF ns
    <3> QED BY <2>1, <3>2, CatchAllTypes
  <2> QED BY <2>2, <2>3, <2>4 DEF NodeTypes
<1> QED BY <1>1, <1>2

LEMMA GroupsAre ==
  /\ Len(Groups) = 4
  /\ Groups[1] = "static" /\ Groups[2] = "regexp" /\ Groups[3] = "param" /\ Groups[4] = "catchall"
  /\ \A g \in 1 .. 4 : Groups[g] \in NodeTypes
<1>1. Len(Groups) = 4
  BY DEF Groups
<1>2. Groups[1] = "static" /\ Groups[2] = "regexp" /\ Groups[3] = "param" /\ Groups[4] = "catchall"
  BY DEF Groups
<1>3. \A g \in 1 .. 4 : g = 1 \/ g = 2 \/ g = 3 \/ g = 4
  OBVIOUS
<1> QED BY <1>1, <1>2, <1>3 DEF NodeTypes

LEMMA CallTypes ==
  ASSUME NEW nodes, NEW path
  PROVE  /\ \A n \in DOMAIN nodes, g \in 1 .. 5, u \in 0 .. Len(path), vs \in Stacks :
              <<n, g, u, vs>> \in Calls(nodes, path)
         /\ \A x \in Calls(nodes, path) :
              /\ x[1] \in DOMAIN nodes /\ x[2] \in 1 .. 5 /\ x[3] \in 0 .. Len(path) /\ x[4] \in Stacks
              /\ x = <<x[1], x[2], x[3], x[4]>>
BY GroupsAre DEF Calls

\* A search only asks about children and the groups that follow.
LEMMA FindFromTypes ==
  ASSUME NEW nodes, IsHeap(nodes), NEW n \in DOMAIN nodes, NEW g \in 1 .. 5,
         NEW path, Len(path) \in Nat,
         NEW op \in Ops, NEW used \in 0 .. Len(path), NEW vals \in Stacks, NEW f, NEW h,
         Answers(f, nodes, path, n), NextAnswers(f, n, g, used)
  PROVE  /\ FindFrom(f, nodes, op, path, n, g, used, vals) \in Results
         /\ Agree(f, h, nodes, path, n) /\ NextAgrees(f, h, n, g, used) =>
              FindFrom(f, nodes, op, path, n, g, used, vals) = FindFrom(h, nodes, op, path, n, g, used, vals)
<1> DEFINE R(q) == InGroup(q, nodes, op, path, n, Groups[g], used, vals)
<1>1. \A q : FindFrom(q, nodes, op, path, n, g, used, vals) =
               IF g > 4 THEN Miss(vals) ELSE IF IsHit(R(q)) THEN R(q) ELSE q[<<n, g + 1, used, R(q).vals>>]
  BY GroupsAre DEF FindFrom
<1>2. CASE g > 4
  BY <1>1, <1>2, MissTypes
<1>3. CASE ~(g > 4)
  <2>1. g \in 1 .. 4 /\ Groups[g] \in NodeTypes
    BY <1>3, GroupsAre
  <2>2. R(f) \in Results /\ (Agree(f, h, nodes, path, n) => R(f) = R(h))
    BY <2>1, GroupTypes
  <2> HIDE DEF R
  <2>3. R(f).vals \in Stacks
    BY <2>2 DEF Results
  <2>4. FindFrom(f, nodes, op, path, n, g, used, vals) \in Results
    <3>1. f[<<n, g + 1, used, R(f).vals>>] \in Results
      BY <2>1, <2>3 DEF NextAnswers
    <3> QED BY <1>1, <1>3, <2>2, <3>1
  <2>5. ASSUME Agree(f, h, nodes, path, n), NextAgrees(f, h, n, g, used)
        PROVE  FindFrom(f, nodes, op, path, n, g, used, vals) = FindFrom(h, nodes, op, path, n, g, used, vals)
    <3>1. R(f) = R(h)
      BY <2>2, <2>5
    <3>2. f[<<n, g + 1, used, R(f).vals>>] = h[<<n, g + 1, used, R(f).vals>>]
      BY <2>1, <2>3, <2>5 DEF NextAgrees
    <3> QED BY <1>1, <1>3, <3>1, <3>2
  <2> QED BY <2>4, <2>5
<1> QED BY <1>2, <1>3

\* The size of a call decreases.
LEMMA CallSizes ==
  ASSUME NEW B \in Nat, NEW a \in 0 .. B, NEW g \in 1 .. 5
  PROVE  /\ CallSize(B, a, g) \in 0 .. B * 5 + 4
         /\ \A b \in a + 1 .. B : CallSize(B, b, 1) < CallSize(B, a, g)
         /\ CallSize(B, a, g + 1) < CallSize(B, a, g)
BY DEF CallSize

LEMMA FindIs ==
  ASSUME NEW nodes, NEW reg, IsLog(reg), IsTree(nodes, reg), NEW op \in Ops,
         NEW path, Len(path) \in Nat
  PROVE  \E find : /\ IsSearch(find, nodes, op, path)
                   /\ FindRoute(nodes, op, path) = Shown(path, find[<<Top, 1, 0, <<>>>>])
<1> DEFINE D == Calls(nodes, path)
           V == Results
           F(q, x) == FindFrom(q, nodes, op, path, x[1], x[2], x[3], x[4])
<1>1. PICK B \in Nat : \A n \in Positions(reg) : n[2] <= B
  BY LongestPattern
<1>2. \A n \in DOMAIN nodes : n[2] \in Nat /\ n[2] <= B
  BY <1>1, PositionTypes DEF IsTree, Placed
<1>3. \A n \in DOMAIN nodes : \A k \in Kids(nodes, n) : k \in DOMAIN nodes /\ n[2] < k[2]
  BY KidFacts DEF Spans
<1>4. IsHeap(nodes) /\ Top \in DOMAIN nodes
  BY DEF IsTree, Placed
<1> DEFINE size(x) == CallSize(B, x[1][2], x[2])
           measure == [x \in D |-> size(x)]
           f0 == [x \in D |-> Miss(<<>>)]
           G == [y \in D \X [D -> V] |-> F(y[2], y[1])]
\* The calls of a search are of a smaller size.
<1>5. \A x \in D : size(x) \in 0 .. B * 5 + 4
  <2> TAKE x \in D
  <2>1. x[1][2] \in 0 .. B /\ x[2] \in 1 .. 5
    BY <1>1, <1>2, CallTypes
  <2> QED BY <1>1, <2>1, CallSizes
<1>6. ASSUME NEW x \in D
      PROVE  /\ \A k \in Kids(nodes, x[1]), u \in 0 .. Len(path), vs \in Stacks :
                  <<k, 1, u, vs>> \in D /\ size(<<k, 1, u, vs>>) < size(x)
             /\ x[2] <= 4 => \A vs \in Stacks :
                  <<x[1], x[2] + 1, x[3], vs>> \in D /\ size(<<x[1], x[2] + 1, x[3], vs>>) < size(x)
  <2>1. x[1] \in DOMAIN nodes /\ x[2] \in 1 .. 5 /\ x[3] \in 0 .. Len(path)
    BY CallTypes
  <2>2. x[1][2] \in 0 .. B
    BY <1>1, <1>2, <2>1
  <2>3. ASSUME NEW k \in Kids(nodes, x[1]), NEW u \in 0 .. Len(path), NEW vs \in Stacks
        PROVE  <<k, 1, u, vs>> \in D /\ size(<<k, 1, u, vs>>) < size(x)
    <3>1. k \in DOMAIN nodes /\ x[1][2] < k[2]
      BY <1>3, <2>1
    <3>2. k[2] \in x[1][2] + 1 .. B
      BY <1>1, <1>2, <2>1, <3>1
    <3>3. <<k, 1, u, vs>> \in D
      BY <3>1, CallTypes
    <3>4. CallSize(B, k[2], 1) < CallSize(B, x[1][2], x[2])
      BY <1>1, <2>1, <2>2, <3>2, CallSizes
    <3> QED BY <3>3, <3>4
  <2>4. ASSUME x[2] <= 4, NEW vs \in Stacks
        PROVE  <<x[1], x[2] + 1, x[3], vs>> \in D /\ size(<<x[1], x[2] + 1, x[3], vs>>) < size(x)
    <3>1. x[2] + 1 \in 1 .. 5
      BY <2>1, <2>4
    <3>2. <<x[1], x[2] + 1, x[3], vs>> \in D
      BY <2>1, <3>1, CallTypes
    <3>3. CallSize(B, x[1][2], x[2] + 1) < CallSize(B, x[1][2], x[2])
      BY <1>1, <2>1, <2>2, CallSizes
    <3> QED BY <3>2, <3>3
  <2> QED BY <2>3, <2>4
<1> HIDE DEF D, size
\* So what a search answers only depends on those, and is typed if they are.
<1>7. ASSUME NEW x \in D, NEW f, \A y \in D : size(y) < size(x) => f[y] \in V
      PROVE  /\ F(f, x) \in V
             /\ \A h : (\A y \in D : size(y) < size(x) => f[y] = h[y]) => F(f, x) = F(h, x)
  <2>1. x[1] \in DOMAIN nodes /\ x[2] \in 1 .. 5 /\ x[3] \in 0 .. Len(path) /\ x[4] \in Stacks
    BY CallTypes DEF D
  <2>2. Answers(f, nodes, path, x[1])
    BY <1>6, <1>7 DEF Answers
  <2>3. NextAnswers(f, x[1], x[2], x[3])
    BY <1>6, <1>7 DEF NextAnswers
  <2>4. F(f, x) \in V
    BY <1>4, <2>1, <2>2, <2>3, FindFromTypes
  <2>5. ASSUME NEW h, \A y \in D : size(y) < size(x) => f[y] = h[y] PROVE F(f, x) = F(h, x)
    <3>1. Agree(f, h, nodes, path, x[1])
      BY <1>6, <2>5 DEF Agree
    <3>2. NextAgrees(f, h, x[1], x[2], x[3])
      BY <1>6, <2>5 DEF NextAgrees
    <3>3. FindFrom(f, nodes, op, path, x[1], x[2], x[3], x[4]) =
          FindFrom(h, nodes, op, path, x[1], x[2], x[3], x[4])
      BY <1>4, <2>1, <2>2, <2>3, <3>1, <3>2, FindFromTypes
    <3> QED BY <3>3
  <2> QED BY <2>4, <2>5
<1> HIDE DEF F, V
<1>8. \A x \in D, f \in [D -> V] : F(f, x) \in V /\ G[<<x, f>>] = F(f, x)
  BY <1>7
<1>9. LooksDown(D, V, measure, G)
  <2>1. G \in [D \X [D -> V] -> V]
    <3>1. \A y \in D \X [D -> V] : y[1] \in D /\ y[2] \in [D -> V]
      BY Pairs
    <3> QED BY <1>8, <3>1
  <2>2. ASSUME NEW x \in D, NEW f \in [D -> V], NEW h \in [D -> V],
               \A y \in D : measure[y] < measure[x] => f[y] = h[y]
        PROVE  G[<<x, f>>] = G[<<x, h>>]
    <3>1. \A y \in D : size(y) < size(x) => f[y] = h[y]
      BY <2>2
    <3>2. F(f, x) = F(h, x)
      BY <1>7, <3>1
    <3> HIDE DEF G
    <3> QED BY <1>8, <3>2
  <2> HIDE DEF G, measure
  <2> QED BY <2>1, <2>2 DEF LooksDown
<1>10. measure \in [D -> 0 .. B * 5 + 4] /\ f0 \in [D -> V]
  <2>1. <<>> \in Stacks
    BY DEF Stacks
  <2>2. Miss(<<>>) \in V
    BY <2>1, MissTypes DEF V
  <2> QED BY <1>5, <2>2
<1>11. PICK f1 \in [D -> V] : Follows(f1, D, G)
  <2>1. B * 5 + 4 \in Nat
    BY <1>1
  <2> HIDE DEF G, measure, f0
  <2> QED BY <1>9, <1>10, <2>1, RecursionExists
<1> DEFINE Is(q) == q = [x \in D |-> F(q, x)]
           find == CHOOSE q : Is(q)
<1>12. Is(f1)
  <2>1. \A x \in D : f1[x] = F(f1, x)
    <3> HIDE DEF G
    <3> QED BY <1>8, <1>11 DEF Follows
  <2> QED BY <2>1
<1>13. Is(find)
  <2> HIDE DEF Is
  <2> QED BY <1>12
<1>14. FindRoute(nodes, op, path) = Shown(path, find[<<Top, 1, 0, <<>>>>])
  BY DEF FindRoute, Shown, F, D, Calls, Stacks
<1> HIDE DEF find
<1>15. \A x \in D : find[x] = F(find, x)
  BY <1>13
<1>16. DOMAIN find = D
  BY <1>13
\* By induction on the size, it is typed.
<1> DEFINE S == {b \in Nat : \A x \in D : size(x) < b => find[x] \in V}
<1>17. 0 \in S
  <2>1. \A x \in D : ~(size(x) < 0)
    BY <1>5
  <2> QED BY <2>1
<1>18. ASSUME NEW b \in Nat, b \in S PROVE b + 1 \in S
  <2> SUFFICES ASSUME NEW x \in D, size(x) < b + 1 PROVE find[x] \in V
    OBVIOUS
  <2>1. size(x) \in Nat /\ \A y \in D : size(y) \in Nat
    BY <1>5
  <2>2. \A y \in D : size(y) < size(x) => find[y] \in V
    BY <1>18, <2>1
  <2>3. F(find, x) \in V
    BY <1>7, <2>2
  <2> QED BY <1>15, <2>3
<1>19. B * 5 + 5 \in S
  <2>1. B * 5 + 5 \in Nat
    BY <1>1
  <2> HIDE DEF S
  <2> QED BY <1>17, <1>18, <2>1, AllNumbers
<1>20. \A x \in D : find[x] \in V
  <2>1. \A x \in D : size(x) < B * 5 + 5
    BY <1>1, <1>5
  <2> QED BY <1>19, <2>1
<1>21. find \in [D -> V]
  <2>1. find = [x \in D |-> F(find, x)]
    BY <1>13
  <2>2. \A x \in D : F(find, x) \in V
    BY <1>15, <1>20
  <2> QED BY <2>1, <2>2
<1>22. ASSUME NEW n \in DOMAIN nodes, NEW g \in 1 .. 5, NEW used \in 0 .. Len(path), NEW vals \in Stacks
       PROVE  find[<<n, g, used, vals>>] = FindFrom(find, nodes, op, path, n, g, used, vals)
  <2>1. <<n, g, used, vals>> \in D
    BY CallTypes DEF D
  <2>2. F(find, <<n, g, used, vals>>) = FindFrom(find, nodes, op, path, n, g, used, vals)
    BY DEF F
  <2> QED BY <1>15, <2>1, <2>2
<1>23. IsSearch(find, nodes, op, path)
  BY <1>21, <1>22 DEF IsSearch, D, V
<1> QED BY <1>14, <1>23

----------------------------------------------------------------------------
(* The way of a pattern *)

\* A part of a path.
LEMMA ValueOfIs ==
  ASSUME NEW S, NEW path \in Seq(S), NEW a \in 0 .. Len(path), NEW b \in a .. Len(path)
  PROVE  /\ ValueOf(path, <<a, b>>) \in Seq(S) /\ Len(ValueOf(path, <<a, b>>)) = b - a
         /\ \A i \in 1 .. b - a : ValueOf(path, <<a, b>>)[i] = path[a + i]
<1>1. ValueOf(path, <<a, b>>) = SubSeq(path, a + 1, b)
  BY DEF ValueOf
<1>2. a \in Nat /\ b \in Nat /\ a <= b /\ b <= Len(path) /\ Len(path) \in Nat
  OBVIOUS
<1>3. a + 1 \in Int /\ b \in Int /\ \A i \in a + 1 .. b : path[i] \in S
  BY <1>2
<1>4. /\ SubSeq(path, a + 1, b) \in Seq(S)
      /\ Len(SubSeq(path, a + 1, b)) = IF a + 1 <= b THEN b - (a + 1) + 1 ELSE 0
      /\ \A i \in 1 .. b - (a + 1) + 1 : SubSeq(path, a + 1, b)[i] = path[(a + 1) + i - 1]
  BY <1>3, SubSeqProperties
<1>5. Len(SubSeq(path, a + 1, b)) = b - a
  BY <1>2, <1>4
<1>6. ASSUME NEW i \in 1 .. b - a PROVE SubSeq(path, a + 1, b)[i] = path[a + i]
  <2>1. i \in 1 .. b - (a + 1) + 1 /\ (a + 1) + i - 1 = a + i
    BY <1>2
  <2> QED BY <1>4, <2>1
<1> QED BY <1>1, <1>4, <1>5, <1>6

\* From a node before the end of a pattern, a child is on its way.
LEMMA WayGoesOn ==
  ASSUME NEW nodes, NEW reg, IsLog(reg), IsTree(nodes, reg), NEW j \in 1 .. Len(reg),
         NEW n \in DOMAIN nodes, NEW z \in DOMAIN nodes,
         EndsHere(reg, z, j), Leads(reg, n, z), n # z
  PROVE  \E k \in DOMAIN nodes : OnWay(nodes, n, k, reg[j][2]) /\ Leads(reg, k, z)
<1> DEFINE p == reg[j][2]
<1>1. PICK k \in Kids(nodes, n) : Leads(reg, k, z)
  BY DEF IsTree, Connected
<1>2. /\ k \in DOMAIN nodes /\ k \in Nat \X Nat /\ n \in Nat \X Nat
      /\ Spans(reg, nodes[k].prefix, n, k) /\ nodes[k].prefix \in Seq(AllEdges)
      /\ nodes[k].prefix[1] = Way(reg, k, n[2] + 1)
      /\ k \in ToSet(nodes[n].kids[nodes[k].prefix[1].typ])
  BY KidFacts
<1>3. p \in Patterns /\ Len(p) \in Nat
  BY LogTypes, PatternTypes
<1>4. z[2] = Len(p) /\ k[2] <= z[2] /\ n[2] < k[2]
  BY <1>1, <1>2 DEF EndsHere, Leads, Spans
<1>5. k[2] \in Nat /\ n[2] \in Nat
  BY <1>2
<1>6. \A x \in 1 .. k[2] : Way(reg, k, x) = Edge(p, x)
  <2>1. \A x \in 1 .. k[2] : Way(reg, k, x) = Way(reg, z, x)
    BY <1>1 DEF Leads
  <2>2. \A x \in 1 .. z[2] : Way(reg, z, x) = Edge(p, x)
    BY DEF EndsHere, Leads, Way
  <2>3. \A x \in 1 .. k[2] : x \in 1 .. z[2]
    BY <1>3, <1>4, <1>5
  <2> QED BY <2>1, <2>2, <2>3
<1>7. Len(nodes[k].prefix) = k[2] - n[2]
  BY <1>2 DEF Spans
<1>8. \A i \in 1 .. k[2] - n[2] : nodes[k].prefix[i] = Edge(p, n[2] + i)
  <2>1. \A i \in 1 .. k[2] - n[2] : n[2] + i \in 1 .. k[2]
    BY <1>5
  <2>2. \A i \in 1 .. k[2] - n[2] : nodes[k].prefix[i] = Way(reg, k, n[2] + i)
    BY <1>2 DEF Spans
  <2> QED BY <1>6, <2>1, <2>2
<1>9. 1 \in 1 .. k[2] - n[2]
  BY <1>4, <1>5
<1>10. k \in ToSet(nodes[n].kids[TypeOf(p[n[2] + 1])])
  <2>1. nodes[k].prefix[1] = Edge(p, n[2] + 1)
    BY <1>8, <1>9
  <2>2. nodes[k].prefix[1].typ = TypeOf(p[n[2] + 1])
    BY <2>1, EdgeTypes
  <2> QED BY <1>2, <2>2
<1>11. ASSUME k[2] - n[2] > 1, NEW i \in 1 .. k[2] - n[2] PROVE p[n[2] + i] \notin Wild
  <2>1. nodes[k].prefix[i].typ = "static"
    BY <1>2, <1>11 DEF Spans
  <2>2. Edge(p, n[2] + i).typ = "static"
    BY <1>8, <2>1
  <2> QED BY <2>2, EdgeTypes
<1>12. k[2] \in n[2] + 1 .. Len(p)
  BY <1>3, <1>4, <1>5
<1>13. OnWay(nodes, n, k, p)
  BY <1>1, <1>2, <1>3, <1>5, <1>7, <1>8, <1>10, <1>11, <1>12 DEF OnWay
<1> QED BY <1>1, <1>2, <1>13

LEMMA CutFacts ==
  ASSUME NEW p, Len(p) \in Nat, NEW path, path \in Seq(ToSet(path)), NEW cut, Cuts(p, path, cut),
         NEW i \in 1 .. Len(p)
  PROVE  /\ Len(path) \in Nat /\ cut[i - 1] \in 0 .. Len(path) /\ cut[i] \in cut[i - 1] .. Len(path)
         /\ p[i] \notin Wild => cut[i] = cut[i - 1] + 1 /\ path[cut[i]] = p[i]
<1>1. Len(path) \in Nat
  OBVIOUS
<1>2. i - 1 \in 0 .. Len(p) /\ i \in 0 .. Len(p)
  OBVIOUS
<1>3. cut[i - 1] \in 0 .. Len(path) /\ cut[i] \in 0 .. Len(path) /\ cut[i - 1] <= cut[i]
  BY <1>2 DEF Cuts
<1> DEFINE a == cut[i - 1]
           b == cut[i]
<1>4. a \in 0 .. Len(path) /\ b \in a .. Len(path)
  BY <1>1, <1>3
<1>5. ASSUME p[i] \notin Wild PROVE b = a + 1 /\ path[b] = p[i]
  <2>1. MayBe(p, i, ValueOf(path, <<a, b>>))
    BY DEF Cuts
  <2>2. ValueOf(path, <<a, b>>) = <<p[i]>>
    BY <1>5, <2>1 DEF MayBe, Wild
  <2> HIDE DEF a, b
  <2>3. /\ Len(ValueOf(path, <<a, b>>)) = b - a
        /\ \A j \in 1 .. b - a : ValueOf(path, <<a, b>>)[j] = path[a + j]
    BY <1>4, ValueOfIs
  <2>4. Len(<<p[i]>>) = 1 /\ <<p[i]>>[1] = p[i]
    OBVIOUS
  <2>5. b - a = 1
    BY <2>2, <2>3, <2>4
  <2>6. path[a + 1] = p[i]
    <3>1. 1 \in 1 .. b - a
      BY <2>5
    <3>2. ValueOf(path, <<a, b>>)[1] = path[a + 1]
      BY <2>3, <3>1
    <3> QED BY <2>2, <2>4, <3>2
  <2>7. b = a + 1
    BY <1>1, <1>4, <2>5
  <2> QED BY <2>6, <2>7
<1> QED BY <1>1, <1>4, <1>5

\* Along characters, a cut goes on by one.
LEMMA RunOfCharacters ==
  ASSUME NEW p, Len(p) \in Nat, NEW path, path \in Seq(ToSet(path)), NEW cut, Cuts(p, path, cut),
         NEW a \in 0 .. Len(p), NEW l \in 0 .. Len(p) - a, Characters(p, a, l)
  PROVE  /\ cut[a] \in 0 .. Len(path) /\ cut[a + l] = cut[a] + l /\ cut[a] + l <= Len(path)
         /\ \A i \in 1 .. l : path[cut[a] + i] = p[a + i]
<1>1. \A i \in 0 .. Len(p) : cut[i] \in Nat /\ cut[i] \in 0 .. Len(path)
  BY DEF Cuts
<1> DEFINE S == {x \in Nat : x <= l => cut[a + x] = cut[a] + x}
<1>2. 0 \in S
  <2>1. a + 0 = a /\ cut[a] + 0 = cut[a]
    BY <1>1
  <2> QED BY <2>1
<1>3. ASSUME NEW x \in Nat PROVE x + 1 <= l => a + (x + 1) \in 1 .. Len(p) /\ x + 1 \in 1 .. l
                                              /\ a + (x + 1) - 1 = a + x
  OBVIOUS
<1>4. ASSUME NEW x \in Nat, x \in S PROVE x + 1 \in S
  <2> SUFFICES ASSUME x + 1 <= l PROVE cut[a + (x + 1)] = cut[a] + (x + 1)
    OBVIOUS
  <2>1. cut[a + x] = cut[a] + x
    BY <1>4
  <2>2. a + (x + 1) \in 1 .. Len(p) /\ a + (x + 1) - 1 = a + x /\ p[a + (x + 1)] \notin Wild
    BY <1>3 DEF Characters
  <2>3. cut[a + (x + 1)] = cut[a + x] + 1
    BY <2>2, CutFacts
  <2>4. cut[a] \in Nat
    BY <1>1
  <2> QED BY <2>1, <2>3, <2>4
<1>5. \A x \in Nat : x <= l => cut[a + x] = cut[a] + x
  <2>1. \A x \in Nat : x \in S
    <3> HIDE DEF S
    <3> QED BY <1>2, <1>4, AllNumbers
  <2> QED BY <2>1
<1>6. ASSUME NEW i \in 1 .. l PROVE path[cut[a] + i] = p[a + i]
  <2>1. a + i \in 1 .. Len(p) /\ i \in Nat /\ i <= l
    OBVIOUS
  <2>2. p[a + i] \notin Wild
    BY DEF Characters
  <2>3. path[cut[a + i]] = p[a + i]
    BY <2>1, <2>2, CutFacts
  <2>4. cut[a + i] = cut[a] + i
    BY <1>5, <2>1
  <2> QED BY <2>3, <2>4
<1>7. a + l \in 0 .. Len(p) /\ l \in Nat /\ a \in 0 .. Len(p)
  OBVIOUS
<1> QED BY <1>1, <1>5, <1>6, <1>7

\* The edges of characters.
LEMMA StaticEdges ==
  ASSUME NEW p, NEW i, p[i] \notin Wild
  PROVE  /\ TypeOf(p[i]) = "static" /\ TextOf(p[i]) = p[i] /\ Edge(p, i).text = p[i]
         /\ \A q, j : q[j] \notin Wild /\ q[j] = p[i] => Edge(q, j) = Edge(p, i)
<1>1. TypeOf(p[i]) = "static"
  BY EdgeTypes
<1>2. TextOf(p[i]) = p[i]
  BY DEF TextOf, Wild
<1>3. Edge(p, i).text = TextOf(p[i])
  BY DEF Edge
<1>4. ASSUME NEW q, NEW j, q[j] \notin Wild, q[j] = p[i] PROVE Edge(q, j) = Edge(p, i)
  <2>1. TailAt(q, j) = "" /\ TailAt(p, i) = ""
    BY <1>4 DEF TailAt, Wild
  <2> QED BY <1>4, <2>1 DEF Edge
<1> QED BY <1>1, <1>2, <1>3, <1>4

\* Where the pattern has a character, the static group goes on to the child on
\* the way.
LEMMA StaticGoesOn ==
  ASSUME NEW nodes, NEW reg, IsLog(reg), IsTree(nodes, reg), NEW n, NEW k, NEW p,
         OnWay(nodes, n, k, p), p[n[2] + 1] \notin Wild,
         NEW path, path \in Seq(ToSet(path)), NEW cut, Cuts(p, path, cut)
  PROVE  GoesTo(nodes, path, n, k, cut[n[2]], cut[k[2]])
<1> DEFINE a == n[2]
           l == k[2] - n[2]
           ns == nodes[n].kids["static"]
           used == cut[a]
           F == Fitting(nodes, ns, path, used)
<1>1. /\ a \in Nat /\ l \in Nat /\ l >= 1 /\ a \in 0 .. Len(p) /\ l \in 0 .. Len(p) - a
      /\ a + l = k[2] /\ Len(p) \in Nat
  BY DEF OnWay
<1>2. \A i \in 1 .. l : p[a + i] \notin Wild
  <2>1. l > 1 => \A i \in 1 .. l : p[a + i] \notin Wild
    BY DEF OnWay
  <2>2. l = 1 => \A i \in 1 .. l : i = 1
    OBVIOUS
  <2> QED BY <1>1, <2>1, <2>2
<1>3. /\ used \in 0 .. Len(path) /\ cut[k[2]] = used + l /\ used + l <= Len(path)
      /\ \A i \in 1 .. l : path[used + i] = p[a + i]
  <2>1. Characters(p, a, l)
    BY <1>2 DEF Characters
  <2> HIDE DEF a, l
  <2>2. /\ cut[a] \in 0 .. Len(path) /\ cut[a + l] = cut[a] + l /\ cut[a] + l <= Len(path)
        /\ \A i \in 1 .. l : path[cut[a] + i] = p[a + i]
    BY <1>1, <2>1, RunOfCharacters
  <2> QED BY <1>1, <2>2
<1>4. k \in ToSet(ns) /\ Len(nodes[k].prefix) = l /\ DOMAIN nodes[k].prefix = 1 .. l
      /\ \A i \in 1 .. l : nodes[k].prefix[i] = Edge(p, a + i)
  <2>1. TypeOf(p[n[2] + 1]) = "static"
    BY EdgeTypes
  <2>2. nodes[k].prefix \in Seq(AllEdges) /\ Len(nodes[k].prefix) = l
    BY DEF OnWay
  <2>3. DOMAIN nodes[k].prefix = 1 .. l
    BY <2>2
  <2> QED BY <2>1, <2>2, <2>3 DEF OnWay
<1>5. \A i \in 1 .. l : nodes[k].prefix[i].text = path[used + i]
  <2> TAKE i \in 1 .. l
  <2>1. Edge(p, a + i).text = p[a + i]
    BY <1>2, StaticEdges
  <2> QED BY <1>3, <1>4, <2>1
<1> HIDE DEF l, used, a
<1>6. k \in F
  BY <1>3, <1>4, <1>5 DEF Fitting
<1>7. ASSUME NEW x \in F PROVE x = k
  <2>1. x \in ToSet(ns) /\ \A i \in DOMAIN nodes[x].prefix : nodes[x].prefix[i].text = path[used + i]
    BY <1>7 DEF Fitting
  <2>2. n \in DOMAIN nodes /\ k \in Kids(nodes, n)
    BY DEF OnWay
  <2>3. x \in Kids(nodes, n)
    BY <2>1 DEF Kids, NodeTypes
  <2>4. /\ Spans(reg, nodes[x].prefix, n, x) /\ nodes[x].prefix \in Seq(AllEdges)
        /\ x \in Nat \X Nat /\ n \in Nat \X Nat
        /\ nodes[x].prefix[1] = Way(reg, x, n[2] + 1)
    BY <2>2, <2>3, KidFacts
  <2>5. nodes[x].prefix[1].typ = "static"
    BY <2>1, <2>2 DEF IsTree, KidsFit, NodeTypes
  <2>6. 1 \in DOMAIN nodes[x].prefix
    <3>1. Len(nodes[x].prefix) = x[2] - n[2] /\ n[2] < x[2] /\ x[2] \in Nat /\ n[2] \in Nat
      BY <2>4 DEF Spans
    <3>2. Len(nodes[x].prefix) >= 1
      BY <3>1
    <3> QED BY <2>4, <3>2
  <2>7. nodes[x].prefix[1].text = path[used + 1]
    BY <2>1, <2>6
  <2> DEFINE q == reg[x[1]][2]
             i == n[2] + 1
  <2>8. nodes[x].prefix[1] = Edge(q, i)
    BY <2>4 DEF Way
  <2>9. q[i] \notin Wild
    BY <2>5, <2>8, EdgeTypes
  <2>10. q[i] = path[used + 1]
    BY <2>7, <2>8, <2>9, StaticEdges
  <2>11. nodes[k].prefix[1] = Edge(p, i) /\ p[i] = path[used + 1] /\ p[i] \notin Wild
    <3>1. 1 \in 1 .. l
      BY <1>1
    <3> QED BY <1>2, <1>3, <1>4, <3>1 DEF a
  <2> HIDE DEF q, i
  <2>12. Edge(q, i) = Edge(p, i)
    BY <2>9, <2>10, <2>11, StaticEdges
  <2> QED BY <2>2, <2>3, <2>8, <2>11, <2>12 DEF IsTree, SiblingsDiffer
<1>8. F = {k} /\ ns # <<>>
  <2>1. ns # <<>>
    BY <1>4 DEF ToSet
  <2> QED BY <1>6, <1>7, <2>1
<1>9. (CHOOSE x \in F : TRUE) = k
  BY <1>8
<1> SUFFICES ASSUME NEW find, NEW op, NEW vals
             PROVE  InGroup(find, nodes, op, path, n, "static", cut[n[2]], vals) =
                      Try(find, nodes, op, path, k, cut[k[2]], vals)
  BY DEF GoesTo
<1>10. InGroup(find, nodes, op, path, n, "static", used, vals) =
         InStatic(find, nodes, op, path, ns, used, vals)
  BY <1>8 DEF InGroup
<1>11. InStatic(find, nodes, op, path, ns, used, vals) =
         Try(find, nodes, op, path, k, used + Len(nodes[k].prefix), vals)
  BY <1>8, <1>9 DEF InStatic
<1> QED BY <1>3, <1>4, <1>10, <1>11 DEF used, a

LEMMA TokenTypes ==
  ASSUME NEW token
  PROVE  /\ token \in Params => TypeOf(token) = "param"
         /\ token \in Regexps => TypeOf(token) = "regexp" /\ TextOf(token) = RexOf[token]
         /\ TypeOf(token) = "catchall" <=> token = Star
         /\ Star \notin Params \cup Regexps
<1>1. Star \notin Params \cup Regexps /\ Params \cap Regexps = {}
  BY TokensAssumption
<1>2. CASE token \in Params
  <2>1. token \notin Regexps /\ token # Star
    BY <1>1, <1>2
  <2> QED BY <1>1, <1>2, <2>1 DEF TypeOf
<1>3. CASE token \in Regexps
  <2>1. token \notin Params /\ token # Star
    BY <1>1, <1>3
  <2>2. TypeOf(token) = "regexp"
    BY <1>3, <2>1 DEF TypeOf
  <2>3. TextOf(token) = RexOf[token]
    BY <1>3, <2>1 DEF TextOf
  <2> QED BY <1>1, <2>1, <2>2, <2>3
<1>4. CASE token \notin Params \cup Regexps
  BY <1>1, <1>4 DEF TypeOf
<1> QED BY <1>2, <1>3, <1>4

\* Then the value of a parameter ends where the cut has it, and is taken.
LEMMA ValueTaken ==
  ASSUME NEW p, Len(p) \in Nat, CharacterFollows(p), NEW path, path \in Seq(ToSet(path)),
         NEW cut, Cuts(p, path, cut), NEW i \in 1 .. Len(p), p[i] \in Params \cup Regexps
  PROVE  /\ ValueEnd(Edge(p, i), path, cut[i - 1]) = cut[i]
         /\ TakesValue(Edge(p, i), path, cut[i - 1])
         /\ cut[i - 1] # Len(path)
<1> DEFINE x == Edge(p, i)
           a == cut[i - 1]
           b == cut[i]
           v == ValueOf(path, <<a, b>>)
           e == ValueEnd(x, path, a)
<1>1. Len(path) \in Nat /\ a \in 0 .. Len(path) /\ b \in a .. Len(path)
  BY CutFacts
<1>2. x.tail = TailAt(p, i) /\ x.typ = TypeOf(p[i]) /\ x.text = TextOf(p[i])
  BY DEF Edge
<1>3. MayBe(p, i, v)
  BY DEF Cuts
<1> HIDE DEF x, a, b
<1>4. /\ v # <<>> /\ TailAt(p, i) \notin ToSet(v)
      /\ p[i] \in Params => "/" \notin ToSet(v)
      /\ p[i] \in Regexps => v \in Language[RexOf[p[i]]]
  <2>1. p[i] \in Wild /\ p[i] # Star
    BY TokensAssumption DEF Wild
  <2>2. ~(p[i] \in Params /\ p[i] \in Regexps)
    BY TokensAssumption
  <2> HIDE DEF v
  <2>3. \/ p[i] \in Params /\ v # <<>> /\ {"/", TailAt(p, i)} \cap ToSet(v) = {}
        \/ p[i] \in Regexps /\ v # <<>> /\ v \in Language[RexOf[p[i]]] /\ TailAt(p, i) \notin ToSet(v)
    BY <1>3, <2>1 DEF MayBe
  <2> QED BY <2>2, <2>3
<1>5. /\ v \in Seq(ToSet(path)) /\ Len(v) = b - a /\ \A j \in 1 .. b - a : v[j] = path[a + j]
  BY <1>1, ValueOfIs
<1>6. b > a
  <2> HIDE DEF v
  <2>1. Len(v) # 0
    BY <1>4, <1>5
  <2> QED BY <1>1, <1>5, <2>1
<1>7. \A j \in a + 1 .. b : path[j] # x.tail
  <2> TAKE j \in a + 1 .. b
  <2>1. j - a \in 1 .. b - a /\ a + (j - a) = j
    BY <1>1
  <2>2. v[j - a] = path[j] /\ j - a \in DOMAIN v
    <3> HIDE DEF v
    <3>1. DOMAIN v = 1 .. b - a
      BY <1>5
    <3>2. v[j - a] = path[a + (j - a)]
      BY <1>5, <2>1
    <3> QED BY <2>1, <3>1, <3>2
  <2>3. v[j - a] \in ToSet(v)
    <3> HIDE DEF v
    <3> QED BY <2>2 DEF ToSet
  <2> QED BY <1>2, <1>4, <2>2, <2>3
<1>8. i = Len(p) => TailAt(p, i) = "/" /\ b = Len(path)
  BY DEF TailAt, Cuts, b
<1>9. i # Len(p) => b + 1 \in 1 .. Len(path) /\ path[b + 1] = x.tail
  <2> SUFFICES ASSUME i # Len(p) PROVE b + 1 \in 1 .. Len(path) /\ path[b + 1] = x.tail
    OBVIOUS
  <2>1. i \in 1 .. Len(p) - 1 /\ i + 1 \in 1 .. Len(p) /\ (i + 1) - 1 = i
    OBVIOUS
  <2>2. p[i + 1] \notin Wild
    BY <2>1 DEF CharacterFollows
  <2>3. cut[i + 1] = b + 1 /\ path[cut[i + 1]] = p[i + 1] /\ cut[i + 1] \in b .. Len(path)
    BY <2>1, <2>2, CutFacts DEF b
  <2>4. TailAt(p, i) = p[i + 1]
    <3>1. FirstByte(p[i + 1]) = p[i + 1]
      BY <2>2 DEF FirstByte, Wild
    <3> QED BY <2>1, <3>1 DEF TailAt
  <2> QED BY <1>1, <1>2, <2>3, <2>4
<1>10. /\ e \in a .. Len(path)
       /\ IsThere(path, a, x.tail) => e + 1 \in a + 1 .. Len(path) /\ path[e + 1] = x.tail
       /\ ~IsThere(path, a, x.tail) => e = Len(path)
       /\ \A j \in a + 1 .. e : path[j] # x.tail
  BY <1>1, ValueEndIs
<1>11. IsThere(path, a, x.tail) <=> i # Len(p)
  <2>1. ASSUME i # Len(p) PROVE IsThere(path, a, x.tail)
    <3>1. b + 1 \in a + 1 .. Len(path)
      BY <1>1, <1>9, <2>1
    <3> QED BY <1>9, <2>1, <3>1 DEF IsThere
  <2>2. ASSUME i = Len(p) PROVE ~IsThere(path, a, x.tail)
    BY <1>7, <1>8, <2>2 DEF IsThere
  <2> QED BY <2>1, <2>2
<1>12. e = b
  <2>1. CASE i = Len(p)
    BY <1>8, <1>10, <1>11, <2>1
  <2>2. CASE i # Len(p)
    <3>1. e + 1 \in a + 1 .. Len(path) /\ path[e + 1] = x.tail
      BY <1>10, <1>11, <2>2
    <3> HIDE DEF e
    <3>2. a \in Nat /\ b \in Nat /\ e \in Nat /\ a <= b
      BY <1>1, <1>10
    <3>3. ~(e < b)
      <4>1. e < b => e + 1 \in a + 1 .. b
        BY <3>1, <3>2
      <4> QED BY <1>7, <3>1, <4>1
    <3>4. ~(b < e)
      <4>1. b < e => b + 1 \in a + 1 .. e
        BY <3>2
      <4> QED BY <1>9, <1>10, <2>2, <4>1
    <3> QED BY <3>2, <3>3, <3>4
  <2> QED BY <2>1, <2>2
<1>13. TakesValue(x, path, a)
  <2>1. SubSeq(path, a + 1, ValueEnd(x, path, a)) = v
    BY <1>12 DEF ValueOf
  <2>2. IsThere(path, a, x.tail) \/ x.tail = "/"
    BY <1>2, <1>8, <1>11
  <2>3. CASE p[i] \in Params
    <3>1. x.typ # "regexp"
      <4>1. TypeOf(p[i]) = "param"
        BY <2>3, TokenTypes
      <4> QED BY <1>2, <4>1
    <3> HIDE DEF v
    <3> QED BY <1>4, <2>1, <2>2, <2>3, <3>1 DEF TakesValue
  <2>4. CASE p[i] \in Regexps
    <3>1. x.typ = "regexp" /\ x.text = RexOf[p[i]]
      <4>1. TypeOf(p[i]) = "regexp" /\ TextOf(p[i]) = RexOf[p[i]]
        BY <2>4, TokenTypes
      <4> QED BY <1>2, <4>1
    <3> HIDE DEF v
    <3> QED BY <1>4, <2>1, <2>2, <2>4, <3>1 DEF TakesValue
  <2> QED BY <2>3, <2>4
<1> QED BY <1>1, <1>6, <1>12, <1>13 DEF x, a, b

\* A wild token is an edge of its own.
LEMMA OneToken ==
  ASSUME NEW nodes, NEW n, NEW k, NEW p, OnWay(nodes, n, k, p), p[n[2] + 1] \in Wild
  PROVE  /\ k[2] = n[2] + 1 /\ n[2] + 1 \in 1 .. Len(p) /\ (n[2] + 1) - 1 = n[2]
         /\ nodes[k].prefix[1] = Edge(p, n[2] + 1)
<1>1. n[2] \in Nat /\ k[2] \in n[2] + 1 .. Len(p) /\ Len(p) \in Nat
  BY DEF OnWay
<1>2. ~(k[2] - n[2] > 1)
  <2>1. k[2] - n[2] > 1 => 1 \in 1 .. k[2] - n[2]
    BY <1>1
  <2> QED BY <2>1 DEF OnWay
<1>3. k[2] = n[2] + 1
  BY <1>1, <1>2
<1>4. 1 \in 1 .. k[2] - n[2]
  BY <1>1, <1>3
<1>5. nodes[k].prefix[1] = Edge(p, n[2] + 1)
  BY <1>4 DEF OnWay
<1> QED BY <1>1, <1>3, <1>5

\* Where the pattern has a parameter, its group finds what the child on the way
\* finds with the value of the cut, or what a child before it finds.
LEMMA ParamsHit ==
  ASSUME NEW nodes, IsHeap(nodes), NEW n, NEW k, NEW p, OnWay(nodes, n, k, p),
         CharacterFollows(p), p[n[2] + 1] \in Params \cup Regexps,
         NEW path, path \in Seq(ToSet(path)), NEW cut, Cuts(p, path, cut), NEW find, NEW op,
         TryHits(find, nodes, op, path, k, cut[k[2]])
  PROVE  GroupHits(find, nodes, op, path, n, TypeOf(p[n[2] + 1]), cut[n[2]])
<1> DEFINE used == cut[n[2]]
           t == TypeOf(p[n[2] + 1])
           ns == nodes[n].kids[t]
           i == n[2] + 1
<1>1. /\ k[2] = i /\ i \in 1 .. Len(p) /\ i - 1 = n[2] /\ Len(p) \in Nat
      /\ nodes[k].prefix[1] = Edge(p, i)
  <2>1. p[n[2] + 1] \in Wild
    BY DEF Wild
  <2> QED BY <2>1, OneToken DEF OnWay
<1>2. /\ ValueEnd(nodes[k].prefix[1], path, used) = cut[i]
      /\ TakesValue(nodes[k].prefix[1], path, used) /\ used # Len(path)
      /\ used \in Nat /\ cut[i] \in Nat
  <2>1. used = cut[i - 1] /\ p[i] \in Params \cup Regexps
    BY <1>1
  <2> HIDE DEF i, used
  <2>2. cut[i - 1] \in 0 .. Len(path) /\ cut[i] \in cut[i - 1] .. Len(path) /\ Len(path) \in Nat
    BY <1>1, CutFacts
  <2>3. /\ ValueEnd(Edge(p, i), path, cut[i - 1]) = cut[i]
        /\ TakesValue(Edge(p, i), path, cut[i - 1]) /\ cut[i - 1] # Len(path)
    BY <1>1, <2>1, ValueTaken
  <2> QED BY <1>1, <2>1, <2>2, <2>3
<1>3. t \in {"regexp", "param"} /\ t # "static"
  BY TokenTypes
<1>4. k \in ToSet(ns)
  BY DEF OnWay
<1>5. ns # <<>> /\ IsGroup(nodes, n, t, ns)
  <2>1. ns # <<>>
    BY <1>4 DEF ToSet
  <2> QED BY <1>3, <2>1 DEF IsGroup, NodeTypes, OnWay
<1> HIDE DEF ns, t, used, i
<1>6. Len(ns) \in Nat /\ DOMAIN ns = 1 .. Len(ns) /\ ToSet(ns) = {ns[j] : j \in 1 .. Len(ns)}
  BY <1>5, GroupFacts
<1>7. PICK j \in DOMAIN ns : ns[j] = k
  BY <1>4, <1>6
<1> SUFFICES ASSUME NEW vals \in Stacks PROVE IsHit(InGroup(find, nodes, op, path, n, t, used, vals))
  BY DEF GroupHits, t, used
<1> DEFINE W(m) == WithValue(find, nodes, op, path, ns[m], used, vals)
           found == {m \in DOMAIN ns : TakesValue(nodes[ns[m]].prefix[1], path, used) /\ IsHit(W(m))}
           first == CHOOSE m \in found : \A l \in found : m <= l
<1>8. InGroup(find, nodes, op, path, n, t, used, vals) = InParams(find, nodes, op, path, ns, used, vals)
  BY <1>3, <1>5 DEF InGroup, ns
<1>9. found # {} => InParams(find, nodes, op, path, ns, used, vals) = W(first)
  BY <1>2 DEF InParams
<1>10. IsHit(W(j))
  <2>1. W(j) = Try(find, nodes, op, path, k, cut[i], Append(vals, <<used, cut[i]>>))
    BY <1>2, <1>7 DEF WithValue
  <2>2. Append(vals, <<used, cut[i]>>) \in Stacks
    BY <1>2, MissTypes
  <2> HIDE DEF W
  <2> QED BY <1>1, <2>1, <2>2 DEF TryHits
<1> HIDE DEF W
<1>11. j \in found
  BY <1>2, <1>7, <1>10
<1>12. first \in found
  <2>1. found \in SUBSET Nat /\ found # {}
    BY <1>6, <1>11
  <2> HIDE DEF found
  <2> QED BY <2>1, LeastNumber
<1>13. IsHit(W(first))
  BY <1>12
<1> HIDE DEF found, first
<1> QED BY <1>8, <1>9, <1>11, <1>13

\* A node has one child for "*".
LEMMA OneCatchAll ==
  ASSUME NEW nodes, NEW reg, IsLog(reg), IsTree(nodes, reg), NEW n, NEW k, NEW p \in Patterns,
         OnWay(nodes, n, k, p), p[n[2] + 1] = Star,
         NEW path, path \in Seq(ToSet(path)), NEW cut, Cuts(p, path, cut)
  PROVE  /\ nodes[n].kids["catchall"] # <<>> /\ nodes[n].kids["catchall"][1] = k
         /\ cut[k[2]] = Len(path) /\ cut[n[2]] \in Nat /\ Len(path) \in Nat
<1> DEFINE used == cut[n[2]]
           ns == nodes[n].kids["catchall"]
           i == n[2] + 1
<1>1. /\ k[2] = i /\ i \in 1 .. Len(p) /\ i - 1 = n[2] /\ Len(p) \in Nat
      /\ nodes[k].prefix[1] = Edge(p, i)
  <2>1. p[n[2] + 1] \in Wild
    BY DEF Wild
  <2>2. Len(p) \in Nat
    BY DEF OnWay
  <2>3. /\ k[2] = n[2] + 1 /\ n[2] + 1 \in 1 .. Len(p) /\ (n[2] + 1) - 1 = n[2]
        /\ nodes[k].prefix[1] = Edge(p, n[2] + 1)
    BY <2>1, OneToken
  <2> QED BY <2>2, <2>3
<1>2. i = Len(p) /\ cut[i] = Len(path)
  <2>1. \A j \in 1 .. Len(p) - 1 : p[j] # Star
    BY PatternsAssumption DEF PatternIsLegal
  <2>2. i = Len(p)
    BY <1>1, <2>1
  <2> QED BY <2>2 DEF Cuts
<1>3. used \in Nat /\ Len(path) \in Nat
  <2> HIDE DEF i
  <2> QED BY <1>1, CutFacts
<1>4. TypeOf(p[n[2] + 1]) = "catchall"
  BY TokenTypes
<1>5. n \in DOMAIN nodes /\ k \in Kids(nodes, n) /\ k \in ToSet(ns)
  BY <1>4 DEF OnWay
<1>6. ns # <<>> /\ IsGroup(nodes, n, "catchall", ns)
  <2>1. ns # <<>>
    BY <1>5 DEF ToSet
  <2> QED BY <1>5, <2>1 DEF IsGroup, NodeTypes, IsTree
<1>7. ns[1] \in ToSet(ns) /\ ns[1] \in Kids(nodes, n)
  <2> HIDE DEF ns
  <2>1. /\ Len(ns) \in Nat \ {0} /\ ToSet(ns) = {ns[j] : j \in 1 .. Len(ns)}
        /\ \A j \in 1 .. Len(ns) : ns[j] \in Kids(nodes, n)
    BY <1>6, GroupFacts
  <2>2. 1 \in 1 .. Len(ns)
    BY <2>1
  <2> QED BY <2>1, <2>2
<1>8. ns[1] = k
  <2> DEFINE x == ns[1]
             q == reg[x[1]][2]
  <2>1. nodes[x].prefix[1] = Edge(q, i)
    <3>1. nodes[x].prefix[1] = Way(reg, x, n[2] + 1)
      <4> HIDE DEF x
      <4> QED BY <1>5, <1>7, KidFacts DEF x
    <3> QED BY <3>1 DEF Way
  <2>2. nodes[x].prefix[1].typ = "catchall"
    BY <1>5, <1>7 DEF IsTree, KidsFit, NodeTypes
  <2> HIDE DEF x, q, i
  <2>3. q[i] = Star
    <3>1. TypeOf(q[i]) = "catchall"
      BY <2>1, <2>2, EdgeTypes
    <3> QED BY <3>1, TokenTypes
  <2>4. p[i] = q[i] /\ TailAt(p, i) = TailAt(q, i)
    <3>1. p[i] = Star
      BY DEF i
    <3> QED BY <2>3, <3>1, TokenTypes DEF TailAt
  <2>5. Edge(p, i) = Edge(q, i)
    BY <2>4 DEF Edge
  <2> QED BY <1>1, <1>5, <1>7, <2>1, <2>5 DEF IsTree, SiblingsDiffer, x
<1> QED BY <1>1, <1>2, <1>3, <1>6, <1>8

LEMMA CatchAllTries ==
  ASSUME NEW nodes, NEW reg, IsLog(reg), IsTree(nodes, reg), NEW n, NEW k, NEW p \in Patterns,
         OnWay(nodes, n, k, p), p[n[2] + 1] = Star,
         NEW path, path \in Seq(ToSet(path)), NEW cut, Cuts(p, path, cut), NEW find, NEW op,
         NEW vals \in Stacks
  PROVE  \E vs \in Stacks : CatchAllIs(find, nodes, op, path, n, k, cut[k[2]], cut[n[2]], vals, vs)
<1> DEFINE used == cut[n[2]]
           ns == nodes[n].kids["catchall"]
           vs == Append(vals, <<used, Len(path)>>)
           T == Try(find, nodes, op, path, k, Len(path), vs)
<1>1. ns # <<>> /\ ns[1] = k /\ cut[k[2]] = Len(path) /\ used \in Nat /\ Len(path) \in Nat
  BY OneCatchAll
<1>2. vs \in Stacks
  BY <1>1, MissTypes
<1>3. InGroup(find, nodes, op, path, n, "catchall", used, vals) = InCatchAll(find, nodes, op, path, ns, used, vals)
  BY <1>1 DEF InGroup
<1>4. InCatchAll(find, nodes, op, path, ns, used, vals) = IF IsHit(T) THEN T ELSE Miss(Pop(T.vals))
  BY <1>1 DEF InCatchAll
<1>5. T = Try(find, nodes, op, path, k, cut[k[2]], vs)
  BY <1>1
<1> HIDE DEF T, vs
<1>6. IsHit(T) => InGroup(find, nodes, op, path, n, "catchall", used, vals) = T
  BY <1>3, <1>4
<1> HIDE DEF used
<1>7. CatchAllIs(find, nodes, op, path, n, k, cut[k[2]], used, vals, vs)
  BY <1>5, <1>6 DEF CatchAllIs
<1> QED BY <1>2, <1>7 DEF used

LEMMA CatchAllHit ==
  ASSUME NEW nodes, NEW reg, IsLog(reg), IsTree(nodes, reg), NEW n, NEW k, NEW p \in Patterns,
         OnWay(nodes, n, k, p), p[n[2] + 1] = Star,
         NEW path, path \in Seq(ToSet(path)), NEW cut, Cuts(p, path, cut), NEW find, NEW op,
         TryHits(find, nodes, op, path, k, cut[k[2]])
  PROVE  GroupHits(find, nodes, op, path, n, "catchall", cut[n[2]])
<1> SUFFICES ASSUME NEW vals \in Stacks
             PROVE  IsHit(InGroup(find, nodes, op, path, n, "catchall", cut[n[2]], vals))
  BY DEF GroupHits
<1>1. PICK vs \in Stacks :
        CatchAllIs(find, nodes, op, path, n, k, cut[k[2]], cut[n[2]], vals, vs)
  BY CatchAllTries
<1>2. IsHit(Try(find, nodes, op, path, k, cut[k[2]], vs))
  BY DEF TryHits
<1> QED BY <1>1, <1>2 DEF CatchAllIs

\* Whatever the token, the group of its type goes on along the way.
LEMMA GroupGoesOn ==
  ASSUME NEW nodes, NEW reg, IsLog(reg), IsTree(nodes, reg), NEW n, NEW k, NEW p \in Patterns,
         OnWay(nodes, n, k, p), CharacterFollows(p),
         NEW path, path \in Seq(ToSet(path)), NEW cut, Cuts(p, path, cut), NEW find, NEW op,
         TryHits(find, nodes, op, path, k, cut[k[2]])
  PROVE  GroupHits(find, nodes, op, path, n, TypeOf(p[n[2] + 1]), cut[n[2]])
<1> DEFINE token == p[n[2] + 1]
<1>1. CASE token \notin Wild
  <2>1. TypeOf(token) = "static"
    BY <1>1, EdgeTypes
  <2>2. p[n[2] + 1] \notin Wild
    BY <1>1
  <2> HIDE DEF token
  <2>3. GoesTo(nodes, path, n, k, cut[n[2]], cut[k[2]])
    BY <2>2, StaticGoesOn
  <2> QED BY <2>1, <2>3 DEF GroupHits, TryHits, GoesTo, token
<1>2. CASE token \in Params \cup Regexps
  BY <1>2, ParamsHit DEF IsTree
<1>3. CASE token = Star
  <2>1. TypeOf(token) = "catchall"
    BY <1>3, TokenTypes
  <2> QED BY <1>3, <2>1, CatchAllHit
<1> QED BY <1>1, <1>2, <1>3 DEF Wild

\* A search finds something if one of the groups does: those before it leave the
\* values as they should be, or find something themselves.
LEMMA SearchHits ==
  ASSUME NEW nodes, IsHeap(nodes), NEW op \in Ops, NEW path, Len(path) \in Nat, NEW find,
         IsSearch(find, nodes, op, path), NEW n \in DOMAIN nodes, NEW used \in 0 .. Len(path),
         NEW t \in NodeTypes, GroupHits(find, nodes, op, path, n, t, used)
  PROVE  \A vals \in Stacks : IsHit(find[<<n, 1, used, vals>>])
<1> DEFINE R(g, vals) == InGroup(find, nodes, op, path, n, Groups[g], used, vals)
           From(g) == \A vals \in Stacks : IsHit(find[<<n, g, used, vals>>])
<1>1. ASSUME NEW g \in 1 .. 4, NEW vals \in Stacks
      PROVE  /\ R(g, vals).vals \in Stacks
             /\ find[<<n, g, used, vals>>] =
                  IF IsHit(R(g, vals)) THEN R(g, vals) ELSE find[<<n, g + 1, used, R(g, vals).vals>>]
  <2>1. Groups[g] \in NodeTypes /\ Len(Groups) = 4 /\ ~(g > 4) /\ g \in 1 .. 5
    BY GroupsAre
  <2>2. Answers(find, nodes, path, n)
    <3>1. \A k \in Kids(nodes, n) : k \in DOMAIN nodes
      BY DEF Kids, IsHeap, NodesOn, ToSet
    <3>2. 1 \in 1 .. 5
      OBVIOUS
    <3>3. \A k \in Kids(nodes, n), u \in 0 .. Len(path), vs \in Stacks : <<k, 1, u, vs>> \in Calls(nodes, path)
      BY <3>1, <3>2, CallTypes
    <3> QED BY <3>3 DEF Answers, IsSearch
  <2>3. R(g, vals) \in Results
    BY <2>1, <2>2, GroupTypes
  <2>4. find[<<n, g, used, vals>>] = FindFrom(find, nodes, op, path, n, g, used, vals)
    BY <2>1 DEF IsSearch
  <2>5. FindFrom(find, nodes, op, path, n, g, used, vals) =
          IF IsHit(R(g, vals)) THEN R(g, vals) ELSE find[<<n, g + 1, used, R(g, vals).vals>>]
    BY <2>1 DEF FindFrom
  <2> HIDE DEF R
  <2>6. R(g, vals).vals \in Stacks
    BY <2>3 DEF Results
  <2> QED BY <2>4, <2>5, <2>6
<1>2. ASSUME NEW g \in 1 .. 4, From(g + 1) \/ Groups[g] = t PROVE From(g)
  <2> SUFFICES ASSUME NEW vals \in Stacks PROVE IsHit(find[<<n, g, used, vals>>])
    OBVIOUS
  <2>1. Groups[g] = t => IsHit(R(g, vals))
    BY DEF GroupHits
  <2> HIDE DEF R
  <2> QED BY <1>1, <1>2, <2>1
<1> HIDE DEF From, R
<1>3. /\ 1 \in 1 .. 4 /\ 2 \in 1 .. 4 /\ 3 \in 1 .. 4 /\ 4 \in 1 .. 4
      /\ 1 + 1 = 2 /\ 2 + 1 = 3 /\ 3 + 1 = 4
  OBVIOUS
<1>4. t = Groups[1] \/ t = Groups[2] \/ t = Groups[3] \/ t = Groups[4]
  BY GroupsAre DEF NodeTypes
<1>5. t = Groups[4] => From(4)
  BY <1>2, <1>3
<1>6. t = Groups[3] \/ From(4) => From(3)
  BY <1>2, <1>3
<1>7. t = Groups[2] \/ From(3) => From(2)
  BY <1>2, <1>3
<1>8. t = Groups[1] \/ From(2) => From(1)
  BY <1>2, <1>3
<1>9. From(1)
  BY <1>4, <1>5, <1>6, <1>7, <1>8
<1> QED BY <1>9 DEF From

\* So a search finds something from every node on the way to an endpoint.
LEMMA HitsOnTheWay ==
  ASSUME NEW nodes, NEW reg, IsLog(reg), IsTree(nodes, reg), NEW op \in Ops, NEW j \in 1 .. Len(reg),
         NEW z \in DOMAIN nodes, EndsHere(reg, z, j), nodes[z].eps[op] # NoRoute,
         CharacterFollows(reg[j][2]), NEW path, path \in Seq(ToSet(path)), NEW cut,
         Cuts(reg[j][2], path, cut), NEW find, IsSearch(find, nodes, op, path),
         NEW n0 \in DOMAIN nodes, Leads(reg, n0, z), n0 # z
  PROVE  \A vals \in Stacks : IsHit(find[<<n0, 1, cut[n0[2]], vals>>])
<1> DEFINE p == reg[j][2]
           Hits(n) == \A vals \in Stacks : IsHit(find[<<n, 1, cut[n[2]], vals>>])
           S == {b \in Nat : \A n \in DOMAIN nodes :
                   Leads(reg, n, z) /\ n # z /\ z[2] - n[2] < b => Hits(n)}
<1>1. p \in Patterns /\ Len(p) \in Nat /\ Len(path) \in Nat
  BY LogTypes, PatternTypes
<1>2. z[2] = Len(p) /\ \A n \in DOMAIN nodes : n[2] \in Nat /\ n \in Nat \X Nat
  BY PositionTypes DEF IsTree, Placed, EndsHere
<1>3. IsHeap(nodes)
  BY DEF IsTree
<1> HIDE DEF p
<1>4. 0 \in S
  <2>1. \A n \in DOMAIN nodes : Leads(reg, n, z) => ~(z[2] - n[2] < 0)
    BY <1>2 DEF Leads
  <2> QED BY <2>1
<1>5. ASSUME NEW b \in Nat, b \in S PROVE b + 1 \in S
  <2> SUFFICES ASSUME NEW n \in DOMAIN nodes, Leads(reg, n, z), n # z, z[2] - n[2] < b + 1
               PROVE  Hits(n)
    OBVIOUS
  <2>1. PICK k \in DOMAIN nodes : OnWay(nodes, n, k, p) /\ Leads(reg, k, z)
    BY WayGoesOn DEF p
  <2>2. n[2] \in 0 .. Len(p) /\ k[2] \in n[2] + 1 .. Len(p) /\ n[2] + 1 \in 1 .. Len(p)
    <3>1. n[2] \in Nat /\ k[2] \in n[2] + 1 .. Len(p) /\ Len(p) \in Nat
      BY <2>1 DEF OnWay
    <3> QED BY <3>1
  <2>3. z[2] - k[2] < b
    <3>1. z[2] \in Nat /\ n[2] \in Nat /\ k[2] \in Nat /\ n[2] < k[2] /\ z[2] - n[2] < b + 1
      BY <1>1, <1>2, <2>2
    <3> QED BY <3>1
  <2>4. k # z => Hits(k)
    BY <1>5, <2>1, <2>3
  <2>5. TryHits(find, nodes, op, path, k, cut[k[2]])
    <3> SUFFICES ASSUME NEW vals \in Stacks
                 PROVE  IsHit(Try(find, nodes, op, path, k, cut[k[2]], vals))
      BY DEF TryHits
    <3>1. CASE cut[k[2]] = Len(path) /\ nodes[k].eps[op] # NoRoute
      BY <3>1 DEF Try, IsHit
    <3>2. CASE ~(cut[k[2]] = Len(path) /\ nodes[k].eps[op] # NoRoute)
      <4>1. k # z
        <5>1. cut[Len(p)] = Len(path)
          BY DEF Cuts, p
        <5> QED BY <1>2, <3>2, <5>1
      <4>2. IsHit(find[<<k, 1, cut[k[2]], vals>>])
        BY <2>4, <4>1
      <4> QED BY <3>2, <4>2 DEF Try
    <3> QED BY <3>1, <3>2
  <2>6. GroupHits(find, nodes, op, path, n, TypeOf(p[n[2] + 1]), cut[n[2]])
    BY <1>1, <2>1, <2>5, GroupGoesOn DEF p
  <2>7. cut[n[2]] \in 0 .. Len(path) /\ TypeOf(p[n[2] + 1]) \in NodeTypes
    BY <2>2, EdgeTypes DEF Cuts, p
  <2> QED BY <1>1, <1>3, <2>6, <2>7, SearchHits
<1>6. \A b \in Nat : b \in S
  <2> HIDE DEF S
  <2> QED BY <1>4, <1>5, AllNumbers
<1>7. n0[2] <= z[2] /\ n0[2] \in Nat /\ z[2] \in Nat
  BY <1>1, <1>2 DEF Leads
<1>8. z[2] - n0[2] + 1 \in Nat /\ z[2] - n0[2] < z[2] - n0[2] + 1
  BY <1>7
<1>9. z[2] - n0[2] + 1 \in S
  BY <1>6, <1>8
<1>10. Hits(n0)
  <2> HIDE DEF Hits
  <2> QED BY <1>8, <1>9
<1> QED BY <1>10

\* The node that holds a registered route.
LEMMA EndpointOf ==
  ASSUME RadixInv(tree, registered), NEW op \in Ops, NEW r \in Registered(op)
  PROVE  \E i \in 1 .. Len(registered), z \in DOMAIN tree :
           registered[i][2] = r /\ EndsHere(registered, z, i) /\ tree[z].eps[op] = r
<1>1. IsLog(registered) /\ IsTree(tree, registered)
  BY DEF RadixInv
<1>2. Len(registered) \in Nat /\ DOMAIN registered = 1 .. Len(registered)
  BY <1>1 DEF IsLog
<1>3. PICK i \in 1 .. Len(registered) :
        registered[i][1] = op /\ r = registered[i][2] /\ ~Replaced(i)
  BY <1>2 DEF Registered, Routes
<1>4. PICK z \in DOMAIN tree : EndsHere(registered, z, i)
  BY DEF RadixInv, HasEnds
<1>5. PICK j \in 1 .. Len(registered) :
        /\ registered[j][1] = op /\ EndsHere(registered, z, j)
        /\ tree[z].eps[op] = registered[j][2]
        /\ \A l \in j + 1 .. Len(registered) : registered[l][1] = op => ~EndsHere(registered, z, l)
  BY <1>3, <1>4 DEF RadixInv, LastWins
<1>6. \A l \in i + 1 .. Len(registered) : registered[l][1] = op => ~EndsHere(registered, z, l)
  <2> SUFFICES ASSUME NEW l \in i + 1 .. Len(registered), registered[l][1] = op,
                      EndsHere(registered, z, l)
               PROVE  FALSE
    OBVIOUS
  <2>1. l \in 1 .. Len(registered)
    BY <1>2
  <2>2. SameShape(registered[l][2], registered[i][2])
    BY <1>1, <1>4, <2>1, EndsTogether
  <2> QED BY <1>3, <2>2 DEF Replaced
<1>7. i = j
  <2>1. ~(i < j)
    BY <1>2, <1>5, <1>6
  <2>2. ~(j < i)
    BY <1>2, <1>3, <1>4, <1>5
  <2> QED BY <1>2, <2>1, <2>2
<1> QED BY <1>3, <1>4, <1>5, <1>7

\* A path that a route cuts is found.
LEMMA HitsIfCut ==
  ASSUME RadixInv(tree, registered), NEW op \in Ops, NEW r \in Registered(op), CharacterFollows(r),
         NEW path, path \in Seq(ToSet(path)), NEW cut, Cuts(r, path, cut)
  PROVE  IsHit(FindRoute(tree, op, path))
<1>1. IsLog(registered) /\ IsTree(tree, registered)
  BY DEF RadixInv
<1>2. Len(path) \in Nat
  OBVIOUS
<1>3. PICK j \in 1 .. Len(registered) : \E z \in DOMAIN tree :
        registered[j][2] = r /\ EndsHere(registered, z, j) /\ tree[z].eps[op] = r
  BY EndpointOf
<1>4. PICK z \in DOMAIN tree :
        registered[j][2] = r /\ EndsHere(registered, z, j) /\ tree[z].eps[op] = r
  BY <1>3
<1>5. r \in Patterns /\ Len(r) \in Nat \ {0} /\ r # NoRoute
  BY <1>1, <1>4, LogTypes, PatternTypes
<1>6. PICK find : /\ IsSearch(find, tree, op, path)
                  /\ FindRoute(tree, op, path) = Shown(path, find[<<Top, 1, 0, <<>>>>])
  BY <1>1, <1>2, FindIs
<1>7. Top \in DOMAIN tree /\ Top[2] = 0
  BY <1>1 DEF IsTree, Placed, Top
<1>8. Leads(registered, Top, z) /\ Top # z /\ cut[Top[2]] = 0
  <2>1. z[2] = Len(r)
    BY <1>4 DEF EndsHere
  <2>2. cut[0] = 0
    BY DEF Cuts
  <2> QED BY <1>5, <1>7, <2>1, <2>2 DEF Leads
<1>9. \A vals \in Stacks : IsHit(find[<<Top, 1, cut[Top[2]], vals>>])
  BY <1>1, <1>2, <1>4, <1>5, <1>6, <1>7, <1>8, HitsOnTheWay
<1>10. <<>> \in Stacks
  BY DEF Stacks
<1>11. IsHit(find[<<Top, 1, 0, <<>>>>])
  BY <1>8, <1>9, <1>10
<1> QED BY <1>6, <1>11 DEF IsHit, Shown

LEMMA FindsIt ==
  ASSUME RadixInv(tree, registered), \A p \in Patterns : CharacterFollows(p)
  PROVE  FindsARoute
<1>1. IsLog(registered) /\ DOMAIN registered = 1 .. Len(registered)
  BY DEF RadixInv, IsLog
<1> SUFFICES ASSUME NEW op \in Ops, NEW path \in Paths, NEW r \in Registered(op),
                    path \in MatchTable[r]
             PROVE  IsHit(FindRoute(tree, op, path))
  BY DEF FindsARoute
<1>2. path \in Seq(ToSet(path))
  BY PathsAssumption
<1>3. r \in Patterns
  <2>1. PICK i \in 1 .. Len(registered) : r = registered[i][2]
    BY <1>1 DEF Registered, Routes
  <2> QED BY <1>1, <2>1, LogTypes
<1>4. PICK cut : Cuts(r, path, cut)
  BY <1>3 DEF MatchTable, Matches, Cuts
<1> QED BY <1>2, <1>3, <1>4, HitsIfCut

\* A request is only refused when no route for its operation matches it, if a
\* character follows every parameter that does not end its pattern (radix.go
\* findRoute): groups that find nothing, and nodes on the way of routes for other
\* operations, hide no route behind them.
THEOREM NoRouteIsHidden ==
  ASSUME \A p \in Patterns : CharacterFollows(p)
  PROVE  Spec => []FindsARoute
<1>1. RadixInv(tree, registered) => FindsARoute
  BY FindsIt
<1> QED BY <1>1, TreeOfPatterns, PTL

\* A pattern of characters is cut into its characters by itself.
LEMMA OwnCut ==
  ASSUME NEW p, p \in Seq(ToSet(p)), \A i \in 1 .. Len(p) : p[i] \notin Wild
  PROVE  Cuts(p, p, [i \in 0 .. Len(p) |-> i])
<1> DEFINE cut == [i \in 0 .. Len(p) |-> i]
<1>1. Len(p) \in Nat
  OBVIOUS
<1>2. cut \in [0 .. Len(p) -> 0 .. Len(p)] /\ cut[0] = 0 /\ cut[Len(p)] = Len(p)
  BY <1>1
<1>3. ASSUME NEW i \in 1 .. Len(p)
      PROVE  cut[i - 1] <= cut[i] /\ MayBe(p, i, ValueOf(p, <<cut[i - 1], cut[i]>>))
  <2>1. cut[i - 1] = i - 1 /\ cut[i] = i
    BY <1>1
  <2>2. i - 1 \in 0 .. Len(p) /\ i \in i - 1 .. Len(p) /\ i - (i - 1) = 1 /\ (i - 1) + 1 = i
    BY <1>1
  <2> DEFINE v == ValueOf(p, <<i - 1, i>>)
  <2>3. /\ v \in Seq(ToSet(p)) /\ Len(v) = i - (i - 1)
        /\ \A j \in 1 .. i - (i - 1) : v[j] = p[(i - 1) + j]
    BY <2>2, ValueOfIs
  <2> HIDE DEF v, cut
  <2>4. Len(v) = 1 /\ v[1] = p[i] /\ v \in Seq(ToSet(p))
    BY <2>2, <2>3
  <2>5. v = <<p[i]>>
    BY <2>4
  <2>6. MayBe(p, i, v)
    BY <2>5 DEF MayBe
  <2> QED BY <2>1, <2>2, <2>6 DEF v
<1> QED BY <1>2, <1>3 DEF Cuts

\* The search for a path that is registered goes along its own nodes: the static
\* group comes first.
LEMMA FindsLiterally ==
  ASSUME NEW nodes, NEW reg, IsLog(reg), IsTree(nodes, reg), NEW op \in Ops, NEW j \in 1 .. Len(reg),
         NEW z \in DOMAIN nodes, EndsHere(reg, z, j), NEW p \in Patterns, p = reg[j][2],
         nodes[z].eps[op] = p, \A i \in 1 .. Len(p) : p[i] \notin Wild,
         NEW find, IsSearch(find, nodes, op, p),
         NEW n0 \in DOMAIN nodes, Leads(reg, n0, z), n0 # z
  PROVE  \A vals \in Stacks : find[<<n0, 1, n0[2], vals>>].pattern = p
<1> DEFINE Finds(n) == \A vals \in Stacks : find[<<n, 1, n[2], vals>>].pattern = p
           S == {b \in Nat : \A n \in DOMAIN nodes :
                   Leads(reg, n, z) /\ n # z /\ z[2] - n[2] < b => Finds(n)}
           cut == [i \in 0 .. Len(p) |-> i]
<1>1. Len(p) \in Nat /\ p # NoRoute /\ p \in Seq(ToSet(p))
  BY PatternTypes, PatternsAssumption DEF PatternIsLegal
<1>2. z[2] = Len(p) /\ \A n \in DOMAIN nodes : n[2] \in Nat /\ n \in Nat \X Nat
  BY PositionTypes DEF IsTree, Placed, EndsHere
<1>3. Cuts(p, p, cut) /\ \A i \in 0 .. Len(p) : cut[i] = i
  BY <1>1, OwnCut
<1> HIDE DEF cut
<1>4. 0 \in S
  <2>1. \A n \in DOMAIN nodes : Leads(reg, n, z) => ~(z[2] - n[2] < 0)
    BY <1>1, <1>2 DEF Leads
  <2> QED BY <2>1
<1>5. ASSUME NEW b \in Nat, b \in S PROVE b + 1 \in S
  <2> SUFFICES ASSUME NEW n \in DOMAIN nodes, Leads(reg, n, z), n # z, z[2] - n[2] < b + 1
               PROVE  Finds(n)
    OBVIOUS
  <2>1. PICK k \in DOMAIN nodes : OnWay(nodes, n, k, p) /\ Leads(reg, k, z)
    BY WayGoesOn
  <2>2. n[2] \in 0 .. Len(p) /\ k[2] \in n[2] + 1 .. Len(p) /\ n[2] + 1 \in 1 .. Len(p)
    <3>1. n[2] \in Nat /\ k[2] \in n[2] + 1 .. Len(p) /\ Len(p) \in Nat
      BY <2>1 DEF OnWay
    <3> QED BY <3>1
  <2>3. k[2] \in 0 .. Len(p)
    BY <2>2
  <2>4. z[2] - k[2] < b
    <3>1. z[2] \in Nat /\ n[2] \in Nat /\ k[2] \in Nat /\ n[2] < k[2] /\ z[2] - n[2] < b + 1
      BY <1>1, <1>2, <2>2
    <3> QED BY <3>1
  <2>5. k # z => Finds(k)
    BY <1>5, <2>1, <2>4
  <2>6. cut[n[2]] = n[2] /\ cut[k[2]] = k[2]
    BY <1>3, <2>2, <2>3
  <2>7. p[n[2] + 1] \notin Wild
    BY <2>2
  <2>8. GoesTo(nodes, p, n, k, n[2], k[2])
    <3>1. GoesTo(nodes, p, n, k, cut[n[2]], cut[k[2]])
      BY <1>1, <1>3, <2>1, <2>7, StaticGoesOn
    <3> QED BY <2>6, <3>1
  <2> SUFFICES ASSUME NEW vals \in Stacks PROVE find[<<n, 1, n[2], vals>>].pattern = p
    OBVIOUS
  <2> DEFINE T == Try(find, nodes, op, p, k, k[2], vals)
  <2>9. T.pattern = p
    <3>1. CASE k[2] = Len(p)
      <4>1. k = z
        BY <1>1, <1>2, <2>1, <3>1, OneNodePerWay
      <4> QED BY <1>1, <3>1, <4>1 DEF Try
    <3>2. CASE k[2] # Len(p)
      <4>1. k # z
        BY <1>2, <3>2
      <4> QED BY <2>5, <3>2, <4>1 DEF Try
    <3> QED BY <3>1, <3>2
  <2>10. IsHit(T)
    BY <1>1, <2>9 DEF IsHit
  <2>11. InGroup(find, nodes, op, p, n, "static", n[2], vals) = T
    BY <2>8 DEF GoesTo
  <2> HIDE DEF T
  <2>12. find[<<n, 1, n[2], vals>>] = FindFrom(find, nodes, op, p, n, 1, n[2], vals)
    <3>1. 1 \in 1 .. 5
      OBVIOUS
    <3> QED BY <2>2, <3>1 DEF IsSearch
  <2>13. FindFrom(find, nodes, op, p, n, 1, n[2], vals) = T
    <3>1. Len(Groups) = 4 /\ Groups[1] = "static" /\ ~(1 > 4)
      BY GroupsAre
    <3> QED BY <2>10, <2>11, <3>1 DEF FindFrom
  <2> QED BY <2>9, <2>12, <2>13
<1>6. \A b \in Nat : b \in S
  <2> HIDE DEF S
  <2> QED BY <1>4, <1>5, AllNumbers
<1>7. n0[2] <= z[2] /\ n0[2] \in Nat /\ z[2] \in Nat
  BY <1>1, <1>2 DEF Leads
<1>8. z[2] - n0[2] + 1 \in Nat /\ z[2] - n0[2] < z[2] - n0[2] + 1
  BY <1>7
<1>9. z[2] - n0[2] + 1 \in S
  BY <1>6, <1>8
<1>10. Finds(n0)
  <2> HIDE DEF Finds
  <2> QED BY <1>8, <1>9
<1> QED BY <1>10

LEMMA LiteralIsFirst ==
  ASSUME RadixInv(tree, registered)
  PROVE  LiteralFirst
<1>1. IsLog(registered) /\ IsTree(tree, registered)
  BY DEF RadixInv
<1> SUFFICES ASSUME NEW op \in Ops, NEW path \in Paths, path \in Registered(op)
             PROVE  FindRoute(tree, op, path).pattern = path
  BY DEF LiteralFirst
<1>2. PICK j \in 1 .. Len(registered) : \E z \in DOMAIN tree :
        registered[j][2] = path /\ EndsHere(registered, z, j) /\ tree[z].eps[op] = path
  BY EndpointOf
<1>3. PICK z \in DOMAIN tree :
        registered[j][2] = path /\ EndsHere(registered, z, j) /\ tree[z].eps[op] = path
  BY <1>2
<1>4. path \in Patterns /\ Len(path) \in Nat \ {0}
  BY <1>1, <1>3, LogTypes, PatternTypes
<1>5. \A i \in 1 .. Len(path) : path[i] \notin Wild
  <2>1. path \in Seq(ToSet(path)) /\ ToSet(path) \cap Wild = {}
    BY PathsAssumption
  <2>2. \A i \in 1 .. Len(path) : path[i] \in ToSet(path)
    BY <2>1
  <2> QED BY <2>1, <2>2
<1>6. PICK find : /\ IsSearch(find, tree, op, path)
                  /\ FindRoute(tree, op, path) = Shown(path, find[<<Top, 1, 0, <<>>>>])
  BY <1>1, <1>4, FindIs
<1>7. Top \in DOMAIN tree /\ Top[2] = 0
  BY <1>1 DEF IsTree, Placed, Top
<1>8. Leads(registered, Top, z) /\ Top # z
  <2>1. z[2] = Len(path)
    BY <1>3 DEF EndsHere
  <2> QED BY <1>4, <1>7, <2>1 DEF Leads
<1>9. \A vals \in Stacks : find[<<Top, 1, Top[2], vals>>].pattern = path
  BY <1>1, <1>3, <1>4, <1>5, <1>6, <1>7, <1>8, FindsLiterally
<1>10. <<>> \in Stacks
  BY DEF Stacks
<1>11. find[<<Top, 1, 0, <<>>>>].pattern = path
  BY <1>7, <1>9, <1>10
<1> QED BY <1>6, <1>11 DEF Shown

\* A path that is registered as it is is served by that route, whatever parameters,
\* expressions and stars would take it too (radix.go findRoute visits the static
\* children first).
THEOREM LiteralWins == Spec => []LiteralFirst
<1>1. RadixInv(tree, registered) => LiteralFirst
  BY LiteralIsFirst
<1> QED BY <1>1, TreeOfPatterns, PTL

----------------------------------------------------------------------------
(* What a search finds *)

\* A static child reads its characters.
LEMMA ReadsCharacters ==
  ASSUME NEW reg, NEW path, Len(path) \in Nat, NEW n \in Nat \X Nat, NEW k \in Nat \X Nat,
         NEW prefix, Spans(reg, prefix, n, k), prefix[1].typ = "static",
         NEW used \in 0 .. Len(path), used + Len(prefix) <= Len(path),
         \A i \in 1 .. Len(prefix) : prefix[i].text = path[used + i],
         NEW vals \in Stacks, Reads(reg, n, path, used, vals)
  PROVE  Reads(reg, k, path, used + Len(prefix), vals)
<1> DEFINE l == Len(prefix)
<1>1. /\ n[2] \in Nat /\ k[2] \in Nat /\ n[2] < k[2] /\ l = k[2] - n[2] /\ Len(vals) \in Nat
      /\ used \in Nat /\ l \in Nat /\ used + l <= Len(path)
  BY DEF Spans, Stacks
<1>2. \A i \in 1 .. l : prefix[i] = Way(reg, k, n[2] + i) /\ prefix[i].typ = "static"
  <2>1. \A i \in 1 .. l : prefix[i] = Way(reg, k, n[2] + i)
    BY <1>1 DEF Spans
  <2>2. l > 1 => \A i \in 1 .. l : prefix[i].typ = "static"
    BY <1>1 DEF Spans
  <2>3. l = 1 => \A i \in 1 .. l : i = 1
    OBVIOUS
  <2>4. l > 1 \/ l = 1
    BY <1>1
  <2> QED BY <2>1, <2>2, <2>3, <2>4
<1>3. \A i \in 1 .. n[2] : Way(reg, n, i) = Way(reg, k, i)
  BY DEF Spans, Leads
<1>4. PICK cut \in [0 .. n[2] -> 0 .. Len(path)], num \in [0 .. n[2] -> 0 .. Len(vals)] :
        /\ cut[0] = 0 /\ num[0] = 0 /\ cut[n[2]] = used /\ num[n[2]] = Len(vals)
        /\ \A i \in 1 .. n[2] :
             Reading(Way(reg, n, i), path, vals, cut[i - 1], cut[i], num[i - 1], num[i])
  BY DEF Reads
<1> DEFINE cut2 == [i \in 0 .. k[2] |-> IF i <= n[2] THEN cut[i] ELSE used + (i - n[2])]
           num2 == [i \in 0 .. k[2] |-> IF i <= n[2] THEN num[i] ELSE Len(vals)]
<1>5. \A i \in 0 .. n[2] : cut2[i] = cut[i] /\ num2[i] = num[i]
  BY <1>1
<1>6. \A i \in n[2] .. k[2] : cut2[i] = used + (i - n[2]) /\ num2[i] = Len(vals)
  <2> TAKE i \in n[2] .. k[2]
  <2>1. i \in 0 .. k[2] /\ n[2] \in 0 .. k[2] /\ n[2] <= n[2]
    BY <1>1
  <2>2. CASE i = n[2]
    <3>1. cut2[n[2]] = cut[n[2]] /\ num2[n[2]] = num[n[2]] /\ used + (n[2] - n[2]) = used
      BY <1>1, <2>1
    <3> HIDE DEF cut2, num2
    <3> QED BY <1>4, <2>2, <3>1
  <2>3. CASE i # n[2]
    <3>1. ~(i <= n[2])
      <4> HIDE DEF cut2, num2
      <4>1. n[2] \in Nat /\ k[2] \in Nat
        BY <1>1
      <4>2. i \in Nat /\ n[2] <= i
        BY <4>1
      <4> QED BY <2>3, <4>1, <4>2
    <3> QED BY <2>1, <3>1
  <2> QED BY <2>2, <2>3
<1>7. \A i \in 0 .. k[2] : i \in 0 .. n[2] \/ i \in n[2] .. k[2]
  BY <1>1
<1>8. cut2 \in [0 .. k[2] -> 0 .. Len(path)] /\ num2 \in [0 .. k[2] -> 0 .. Len(vals)]
  <2>1. \A i \in n[2] .. k[2] : used + (i - n[2]) \in 0 .. Len(path) /\ Len(vals) \in 0 .. Len(vals)
    BY <1>1
  <2>2. \A i \in 0 .. k[2] : cut2[i] \in 0 .. Len(path) /\ num2[i] \in 0 .. Len(vals)
    <3> HIDE DEF cut2, num2
    <3> QED BY <1>4, <1>5, <1>6, <1>7, <2>1
  <2>3. DOMAIN cut2 = 0 .. k[2] /\ DOMAIN num2 = 0 .. k[2]
    OBVIOUS
  <2>4. cut2 = [i \in 0 .. k[2] |-> cut2[i]] /\ num2 = [i \in 0 .. k[2] |-> num2[i]]
    OBVIOUS
  <2> HIDE DEF cut2, num2
  <2> QED BY <2>2, <2>4
<1> HIDE DEF cut2, num2
<1>9. /\ cut2[0] = 0 /\ num2[0] = 0 /\ cut2[k[2]] = used + l /\ num2[k[2]] = Len(vals)
  <2>1. 0 \in 0 .. n[2] /\ k[2] \in n[2] .. k[2] /\ used + (k[2] - n[2]) = used + l
    BY <1>1
  <2> QED BY <1>4, <1>5, <1>6, <2>1
<1>10. ASSUME NEW i \in 1 .. k[2]
       PROVE  Reading(Way(reg, k, i), path, vals, cut2[i - 1], cut2[i], num2[i - 1], num2[i])
  <2>1. CASE i <= n[2]
    <3>1. i \in 1 .. n[2] /\ i \in 0 .. n[2] /\ i - 1 \in 0 .. n[2]
      BY <1>1, <2>1
    <3> QED BY <1>3, <1>4, <1>5, <3>1
  <2>2. CASE n[2] < i
    <3> DEFINE j == i - n[2]
    <3>1. /\ j \in 1 .. l /\ n[2] + j = i /\ i \in n[2] .. k[2] /\ i - 1 \in n[2] .. k[2]
          /\ (i - 1) - n[2] = j - 1 /\ used + j = (used + (j - 1)) + 1
      <4>1. n[2] \in Nat /\ k[2] \in Nat /\ i \in Nat /\ n[2] < i /\ i <= k[2] /\ used \in Nat
        BY <1>1, <2>2
      <4>2. l = k[2] - n[2]
        BY <1>1
      <4> HIDE DEF l
      <4>3. j \in Nat /\ j >= 1 /\ j <= l /\ l \in Nat /\ n[2] + j = i
        BY <4>1, <4>2
      <4>4. i \in n[2] .. k[2] /\ i - 1 \in n[2] .. k[2] /\ (i - 1) - n[2] = j - 1
        BY <4>1
      <4> HIDE DEF j
      <4>5. used + j = (used + (j - 1)) + 1
        BY <4>1, <4>3
      <4> QED BY <4>3, <4>4, <4>5
    <3>2. Way(reg, k, i) = prefix[j] /\ prefix[j].typ = "static" /\ prefix[j].text = path[used + j]
      BY <1>2, <3>1
    <3>3. cut2[i] = used + j /\ cut2[i - 1] = used + (j - 1) /\ num2[i] = num2[i - 1]
      <4>1. cut2[i] = used + (i - n[2]) /\ cut2[i - 1] = used + ((i - 1) - n[2])
        BY <1>6, <3>1
      <4>2. num2[i] = Len(vals) /\ num2[i - 1] = Len(vals)
        BY <1>6, <3>1
      <4> QED BY <3>1, <4>1, <4>2
    <3> HIDE DEF j
    <3> QED BY <3>1, <3>2, <3>3 DEF Reading
  <2> QED BY <1>1, <2>1, <2>2
<1> QED BY <1>8, <1>9, <1>10 DEF Reads

\* Any other child takes a value.
LEMMA ReadsValue ==
  ASSUME NEW reg, NEW path, Len(path) \in Nat, NEW n \in Nat \X Nat, NEW k \in Nat \X Nat,
         NEW prefix, Spans(reg, prefix, n, k), prefix[1].typ # "static",
         NEW used \in 0 .. Len(path), NEW to \in used .. Len(path),
         NEW vals \in Stacks, Reads(reg, n, path, used, vals)
  PROVE  Reads(reg, k, path, to, Append(vals, <<used, to>>))
<1> DEFINE vs == Append(vals, <<used, to>>)
           c == Len(vals)
<1>1. /\ n[2] \in Nat /\ k[2] \in Nat /\ c \in Nat /\ used \in Nat /\ to \in Nat
      /\ used <= to /\ to <= Len(path)
  BY DEF Stacks
<1>2. Len(vs) = c + 1 /\ vs[c + 1] = <<used, to>> /\ \A i \in 1 .. c : vs[i] = vals[i]
  <2>1. <<used, to>> \in Nat \X Nat /\ vals \in Seq(Nat \X Nat)
    BY <1>1 DEF Stacks
  <2> QED BY <2>1, AppendProperties
<1>3. k[2] = n[2] + 1 /\ prefix[1] = Way(reg, k, k[2])
  <2>1. n[2] < k[2]
    BY DEF Spans
  <2>2. 1 \in 1 .. k[2] - n[2]
    BY <1>1, <2>1
  <2>3. ~(k[2] - n[2] > 1)
    BY <2>2 DEF Spans
  <2>4. k[2] = n[2] + 1
    BY <1>1, <2>1, <2>3
  <2>5. prefix[1] = Way(reg, k, n[2] + 1)
    BY <2>2 DEF Spans
  <2> QED BY <2>4, <2>5
<1>4. \A i \in 1 .. n[2] : Way(reg, n, i) = Way(reg, k, i)
  BY DEF Spans, Leads
<1>5. PICK cut \in [0 .. n[2] -> 0 .. Len(path)], num \in [0 .. n[2] -> 0 .. Len(vals)] :
        /\ cut[0] = 0 /\ num[0] = 0 /\ cut[n[2]] = used /\ num[n[2]] = Len(vals)
        /\ \A i \in 1 .. n[2] :
             Reading(Way(reg, n, i), path, vals, cut[i - 1], cut[i], num[i - 1], num[i])
  BY DEF Reads
<1> HIDE DEF vs, c
<1> DEFINE cut2 == [i \in 0 .. k[2] |-> IF i <= n[2] THEN cut[i] ELSE to]
           num2 == [i \in 0 .. k[2] |-> IF i <= n[2] THEN num[i] ELSE c + 1]
<1>6. /\ \A i \in 0 .. n[2] : cut2[i] = cut[i] /\ num2[i] = num[i] /\ cut[i] \in 0 .. Len(path)
                             /\ num[i] \in 0 .. c
      /\ cut2[k[2]] = to /\ num2[k[2]] = c + 1
  <2>1. \A i \in 0 .. n[2] : cut[i] \in 0 .. Len(path) /\ num[i] \in 0 .. c
    BY <1>5 DEF c
  <2>2. \A i \in 0 .. n[2] : i \in 0 .. k[2] /\ i <= n[2]
    BY <1>1, <1>3
  <2>3. k[2] \in 0 .. k[2] /\ ~(k[2] <= n[2])
    BY <1>1, <1>3
  <2>4. \A i \in 0 .. n[2] : cut2[i] = cut[i] /\ num2[i] = num[i]
    BY <2>2
  <2>5. cut2[k[2]] = to /\ num2[k[2]] = c + 1
    BY <2>3
  <2> QED BY <2>1, <2>4, <2>5
<1>7. cut2 \in [0 .. k[2] -> 0 .. Len(path)] /\ num2 \in [0 .. k[2] -> 0 .. Len(vs)]
  <2>1. \A i \in 0 .. k[2] : i \in 0 .. n[2] \/ i = k[2]
    BY <1>1, <1>3
  <2>2. to \in 0 .. Len(path) /\ c + 1 \in 0 .. Len(vs) /\ \A i \in 0 .. c : i \in 0 .. Len(vs)
    BY <1>1, <1>2
  <2>3. cut2 = [i \in 0 .. k[2] |-> cut2[i]] /\ num2 = [i \in 0 .. k[2] |-> num2[i]]
    OBVIOUS
  <2> HIDE DEF cut2, num2
  <2>4. \A i \in 0 .. k[2] : cut2[i] \in 0 .. Len(path) /\ num2[i] \in 0 .. Len(vs)
    BY <1>6, <2>1, <2>2
  <2> QED BY <2>3, <2>4
<1> HIDE DEF cut2, num2
<1>8. cut2[0] = 0 /\ num2[0] = 0
  <2>1. 0 \in 0 .. n[2]
    BY <1>1
  <2> QED BY <1>5, <1>6, <2>1
<1>9. ASSUME NEW i \in 1 .. k[2]
      PROVE  Reading(Way(reg, k, i), path, vs, cut2[i - 1], cut2[i], num2[i - 1], num2[i])
  <2>1. CASE i <= n[2]
    <3>1. i \in 1 .. n[2] /\ i \in 0 .. n[2] /\ i - 1 \in 0 .. n[2]
      BY <1>1, <2>1
    <3>2. Reading(Way(reg, k, i), path, vals, cut2[i - 1], cut2[i], num2[i - 1], num2[i])
      BY <1>4, <1>5, <1>6, <3>1
    <3>3. num2[i] \in 0 .. c /\ num2[i - 1] \in 0 .. c
      BY <1>6, <3>1
    <3>4. num2[i] = num2[i - 1] + 1 => vs[num2[i]] = vals[num2[i]] /\ num2[i] <= Len(vs)
      BY <1>1, <1>2, <3>3
    <3> QED BY <3>2, <3>4 DEF Reading
  <2>2. CASE n[2] < i
    <3>1. i = k[2] /\ i - 1 = n[2] /\ n[2] \in 0 .. n[2]
      BY <1>1, <1>3, <2>2
    <3>2. cut2[i] = to /\ cut2[i - 1] = used /\ num2[i] = c + 1 /\ num2[i - 1] = c
      BY <1>5, <1>6, <3>1 DEF c
    <3>3. Way(reg, k, i).typ # "static"
      BY <1>3, <3>1
    <3>4. c + 1 <= Len(vs)
      BY <1>1, <1>2
    <3> QED BY <1>1, <1>2, <3>2, <3>3, <3>4 DEF Reading
  <2> QED BY <1>1, <2>1, <2>2
<1>10. Reads(reg, k, path, to, vs)
  <2>1. num2[k[2]] = Len(vs)
    BY <1>2, <1>6
  <2> QED BY <1>6, <1>7, <1>8, <1>9, <2>1 DEF Reads
<1> QED BY <1>10 DEF vs

LEMMA PopTakesBack ==
  ASSUME NEW vals \in Stacks, NEW x \in Nat \X Nat
  PROVE  Pop(Append(vals, x)) = vals
<1> DEFINE S == Nat \X Nat
           vs == Append(vals, x)
<1> HIDE DEF S
<1>1. vals \in Seq(S) /\ x \in S /\ Len(vals) \in Nat
  BY DEF Stacks, S
<1>2. /\ Len(vs) = Len(vals) + 1 /\ vs \in Seq(S)
      /\ \A i \in 1 .. Len(vals) : vs[i] = vals[i]
  BY <1>1, AppendProperties
<1> HIDE DEF vs
<1>3. Len(vs) - 1 = Len(vals)
  BY <1>1, <1>2
<1>4. Pop(vs) = SubSeq(vs, 1, Len(vals))
  BY <1>3 DEF Pop
<1>5. 1 \in Int /\ Len(vals) \in Int /\ \A i \in 1 .. Len(vals) : vs[i] \in S
  BY <1>1, <1>2
<1>6. /\ SubSeq(vs, 1, Len(vals)) \in Seq(S)
      /\ Len(SubSeq(vs, 1, Len(vals))) = IF 1 <= Len(vals) THEN Len(vals) - 1 + 1 ELSE 0
      /\ \A i \in 1 .. Len(vals) - 1 + 1 : SubSeq(vs, 1, Len(vals))[i] = vs[1 + i - 1]
  BY <1>5, SubSeqProperties
<1> DEFINE s == SubSeq(vs, 1, Len(vals))
<1>7. Len(s) = Len(vals)
  BY <1>1, <1>6
<1>8. ASSUME NEW i \in 1 .. Len(s) PROVE s[i] = vals[i]
  <2>1. i \in 1 .. Len(vals) - 1 + 1 /\ i \in 1 .. Len(vals) /\ 1 + i - 1 = i
    BY <1>1, <1>7
  <2> QED BY <1>2, <1>6, <2>1
<1>9. s \in Seq(S)
  BY <1>6
<1> HIDE DEF s
<1>10. s = vals
  BY <1>1, <1>7, <1>8, <1>9, SeqEqual
<1> QED BY <1>4, <1>10 DEF s, vs

\* What is found from a child is found from its parent.
LEMMA SoundUp ==
  ASSUME NEW nodes, NEW reg, NEW op, NEW path, NEW n, NEW k, NEW u, NEW used, NEW vs, NEW vals, NEW r,
         Sound(nodes, reg, op, path, k, u, vs, r), IsHit(r),
         Reads(reg, n, path, used, vals) => Reads(reg, k, path, u, vs)
  PROVE  Sound(nodes, reg, op, path, n, used, vals, r)
BY DEF Sound

LEMMA MissSound ==
  ASSUME NEW nodes, NEW reg, NEW op, NEW path, NEW n, NEW used, NEW vals
  PROVE  Sound(nodes, reg, op, path, n, used, vals, Miss(vals))
<1>1. ~IsHit(Miss(vals)) /\ Miss(vals).vals = vals
  BY DEF Miss, IsHit
<1> QED BY <1>1 DEF Sound

LEMMA TrySound ==
  ASSUME NEW nodes, NEW reg, NEW op, NEW path, NEW n, NEW find, NEW k \in Kids(nodes, n),
         k \in DOMAIN nodes, NEW u \in 0 .. Len(path), NEW vs \in Stacks,
         SoundBelow(find, nodes, reg, op, path, n)
  PROVE  Sound(nodes, reg, op, path, k, u, vs, Try(find, nodes, op, path, k, u, vs))
<1> DEFINE T == Try(find, nodes, op, path, k, u, vs)
<1>1. CASE u = Len(path) /\ nodes[k].eps[op] # NoRoute
  <2>1. T.pattern = nodes[k].eps[op] /\ T.vals = vs
    BY <1>1 DEF Try
  <2>2. IsHit(T)
    BY <1>1, <2>1 DEF IsHit
  <2> HIDE DEF T
  <2>3. Reads(reg, k, path, u, vs) => EndsIn(nodes, reg, op, path, T)
    BY <1>1, <2>1 DEF EndsIn
  <2>4. Sound(nodes, reg, op, path, k, u, vs, T)
    BY <2>2, <2>3 DEF Sound
  <2> QED BY <2>4 DEF T
<1>2. CASE ~(u = Len(path) /\ nodes[k].eps[op] # NoRoute)
  <2>1. T = find[<<k, 1, u, vs>>]
    BY <1>2 DEF Try
  <2>2. Sound(nodes, reg, op, path, k, u, vs, find[<<k, 1, u, vs>>])
    BY DEF SoundBelow
  <2> HIDE DEF T
  <2>3. Sound(nodes, reg, op, path, k, u, vs, T)
    BY <2>1, <2>2
  <2> QED BY <2>3 DEF T
<1> QED BY <1>1, <1>2

LEMMA StaticSound ==
  ASSUME NEW nodes, NEW reg, IsLog(reg), IsTree(nodes, reg), NEW n, NEW ns,
         IsGroup(nodes, n, "static", ns), NEW path, Len(path) \in Nat, NEW op,
         NEW used \in 0 .. Len(path), NEW vals \in Stacks, NEW find,
         SoundBelow(find, nodes, reg, op, path, n)
  PROVE  Sound(nodes, reg, op, path, n, used, vals, InStatic(find, nodes, op, path, ns, used, vals))
<1> DEFINE k == CHOOSE x \in Fitting(nodes, ns, path, used) : TRUE
           u == used + Len(nodes[k].prefix)
           r == InStatic(find, nodes, op, path, ns, used, vals)
<1>1. CASE Fitting(nodes, ns, path, used) = {}
  <2>1. r = Miss(vals)
    BY <1>1 DEF InStatic
  <2> HIDE DEF r
  <2>2. Sound(nodes, reg, op, path, n, used, vals, r)
    BY <2>1, MissSound
  <2> QED BY <2>2 DEF r
<1>2. CASE Fitting(nodes, ns, path, used) # {}
  <2>1. k \in Fitting(nodes, ns, path, used)
    BY <1>2
  <2>2. r = Try(find, nodes, op, path, k, u, vals)
    BY <1>2 DEF InStatic
  <2> HIDE DEF k, r
  <2>3. k \in ToSet(ns) /\ n \in DOMAIN nodes
    BY <2>1 DEF Fitting, IsGroup
  <2>4. k \in Kids(nodes, n) /\ nodes[k].prefix[1].typ = "static"
    BY <2>3 DEF IsGroup, Kids, IsTree, KidsFit, NodeTypes
  <2>5. /\ k \in DOMAIN nodes /\ k \in Nat \X Nat /\ n \in Nat \X Nat
        /\ Spans(reg, nodes[k].prefix, n, k) /\ nodes[k].prefix \in Seq(AllEdges)
    BY <2>3, <2>4, KidFacts
  <2>6. DOMAIN nodes[k].prefix = 1 .. Len(nodes[k].prefix) /\ Len(nodes[k].prefix) \in Nat
    BY <2>5
  <2>7. /\ u <= Len(path)
        /\ \A i \in 1 .. Len(nodes[k].prefix) : nodes[k].prefix[i].text = path[used + i]
    BY <2>1, <2>6 DEF Fitting
  <2>8. u \in 0 .. Len(path)
    BY <2>6, <2>7
  <2>9. Reads(reg, n, path, used, vals) => Reads(reg, k, path, u, vals)
    BY <2>4, <2>5, <2>7, ReadsCharacters
  <2> HIDE DEF u
  <2>10. Sound(nodes, reg, op, path, k, u, vals, r)
    BY <2>2, <2>4, <2>5, <2>8, TrySound
  <2>11. Sound(nodes, reg, op, path, n, used, vals, r)
    BY <2>9, <2>10 DEF Sound
  <2> QED BY <2>11 DEF r
<1> QED BY <1>1, <1>2

\* A node that takes a value.
LEMMA TakerFacts ==
  ASSUME NEW nodes, NEW reg, IsLog(reg), IsTree(nodes, reg), NEW n, NEW t, NEW ns,
         IsGroup(nodes, n, t, ns), t # "static", NEW path, Len(path) \in Nat,
         NEW used \in 0 .. Len(path), NEW to \in used .. Len(path), NEW vals \in Stacks,
         NEW i \in 1 .. Len(ns)
  PROVE  /\ ns[i] \in Kids(nodes, n) /\ ns[i] \in DOMAIN nodes /\ to \in 0 .. Len(path)
         /\ Append(vals, <<used, to>>) \in Stacks /\ Pop(Append(vals, <<used, to>>)) = vals
         /\ Reads(reg, n, path, used, vals) =>
              Reads(reg, ns[i], path, to, Append(vals, <<used, to>>))
<1> DEFINE k == ns[i]
<1>1. k \in Kids(nodes, n) /\ k \in DOMAIN nodes /\ k \in ToSet(ns)
  BY GroupFacts
<1>2. n \in DOMAIN nodes /\ t \in NodeTypes /\ ns = nodes[n].kids[t]
  BY DEF IsGroup
<1> HIDE DEF k
<1>3. nodes[k].prefix[1].typ = t
  BY <1>1, <1>2 DEF IsTree, KidsFit
<1>4. k \in Nat \X Nat /\ n \in Nat \X Nat /\ Spans(reg, nodes[k].prefix, n, k)
  BY <1>1, <1>2, KidFacts
<1>5. used \in Nat /\ to \in Nat /\ to \in 0 .. Len(path) /\ <<used, to>> \in Nat \X Nat
  OBVIOUS
<1>6. Append(vals, <<used, to>>) \in Stacks
  BY <1>5, MissTypes
<1>7. Pop(Append(vals, <<used, to>>)) = vals
  BY <1>5, PopTakesBack
<1>8. Reads(reg, n, path, used, vals) => Reads(reg, k, path, to, Append(vals, <<used, to>>))
  BY <1>3, <1>4, ReadsValue
<1> QED BY <1>1, <1>5, <1>6, <1>7, <1>8 DEF k

LEMMA ParamsSound ==
  ASSUME NEW nodes, NEW reg, IsLog(reg), IsTree(nodes, reg), NEW n, NEW t, NEW ns,
         IsGroup(nodes, n, t, ns), t # "static", NEW path, Len(path) \in Nat, NEW op,
         NEW used \in 0 .. Len(path), NEW vals \in Stacks, NEW find,
         SoundBelow(find, nodes, reg, op, path, n)
  PROVE  Sound(nodes, reg, op, path, n, used, vals, InParams(find, nodes, op, path, ns, used, vals))
<1> DEFINE W(i) == WithValue(find, nodes, op, path, ns[i], used, vals)
           found == {i \in DOMAIN ns : TakesValue(nodes[ns[i]].prefix[1], path, used) /\ IsHit(W(i))}
           first == CHOOSE i \in found : \A j \in found : i <= j
           empty == Append(vals, <<used, used>>)
           end == find[<<ns[Len(ns)], 1, used, empty>>]
           r == InParams(find, nodes, op, path, ns, used, vals)
<1>1. r = IF used = Len(path) THEN Miss(vals)
          ELSE IF found # {} THEN W(first)
          ELSE IF IsHit(end) THEN end ELSE Miss(Pop(end.vals))
  BY DEF InParams
<1>2. Len(ns) \in Nat \ {0} /\ DOMAIN ns = 1 .. Len(ns)
  BY GroupFacts
<1>3. found # {} => first \in found
  <2>1. found \in SUBSET Nat
    BY <1>2
  <2> HIDE DEF found
  <2> QED BY <2>1, LeastNumber
<1>4. ASSUME NEW i \in found PROVE Sound(nodes, reg, op, path, n, used, vals, W(i))
  <2> DEFINE to == ValueEnd(nodes[ns[i]].prefix[1], path, used)
             vs == Append(vals, <<used, to>>)
  <2>1. i \in 1 .. Len(ns) /\ IsHit(W(i))
    BY <1>2
  <2>2. to \in used .. Len(path)
    BY ValueEndIs
  <2>3. W(i) = Try(find, nodes, op, path, ns[i], to, vs)
    BY DEF WithValue
  <2> HIDE DEF to, W, found
  <2>4. /\ ns[i] \in Kids(nodes, n) /\ ns[i] \in DOMAIN nodes /\ to \in 0 .. Len(path) /\ vs \in Stacks
        /\ Reads(reg, n, path, used, vals) => Reads(reg, ns[i], path, to, vs)
    BY <2>1, <2>2, TakerFacts
  <2> HIDE DEF vs
  <2>5. Sound(nodes, reg, op, path, ns[i], to, vs, W(i))
    BY <2>3, <2>4, TrySound
  <2> QED BY <2>1, <2>4, <2>5, SoundUp
<1> HIDE DEF W, found, first
<1>5. Sound(nodes, reg, op, path, n, used, vals, IF IsHit(end) THEN end ELSE Miss(Pop(end.vals)))
  <2>1. Len(ns) \in 1 .. Len(ns) /\ used \in used .. Len(path)
    BY <1>2
  <2>2. /\ ns[Len(ns)] \in Kids(nodes, n) /\ empty \in Stacks /\ Pop(empty) = vals
        /\ Reads(reg, n, path, used, vals) => Reads(reg, ns[Len(ns)], path, used, empty)
    BY <2>1, TakerFacts
  <2>3. Sound(nodes, reg, op, path, ns[Len(ns)], used, empty, end)
    <3> HIDE DEF empty
    <3> QED BY <2>2 DEF SoundBelow
  <2> HIDE DEF end, empty
  <2>4. CASE IsHit(end)
    <3>1. Sound(nodes, reg, op, path, n, used, vals, end)
      BY <2>2, <2>3, <2>4, SoundUp
    <3> QED BY <2>4, <3>1
  <2>5. CASE ~IsHit(end)
    <3>1. end.vals = empty
      BY <2>3, <2>5 DEF Sound
    <3>2. Pop(end.vals) = vals
      BY <2>2, <3>1
    <3>3. Sound(nodes, reg, op, path, n, used, vals, Miss(vals))
      BY MissSound
    <3> QED BY <2>5, <3>2, <3>3
  <2> QED BY <2>4, <2>5
<1> HIDE DEF end, r
<1>6. Sound(nodes, reg, op, path, n, used, vals, Miss(vals))
  BY MissSound
<1>7. Sound(nodes, reg, op, path, n, used, vals, r)
  BY <1>1, <1>3, <1>4, <1>5, <1>6
<1> QED BY <1>7 DEF r

LEMMA CatchAllSound ==
  ASSUME NEW nodes, NEW reg, IsLog(reg), IsTree(nodes, reg), NEW n, NEW t, NEW ns,
         IsGroup(nodes, n, t, ns), t # "static", NEW path, Len(path) \in Nat, NEW op,
         NEW used \in 0 .. Len(path), NEW vals \in Stacks, NEW find,
         SoundBelow(find, nodes, reg, op, path, n)
  PROVE  Sound(nodes, reg, op, path, n, used, vals, InCatchAll(find, nodes, op, path, ns, used, vals))
<1> DEFINE vs == Append(vals, <<used, Len(path)>>)
           T == Try(find, nodes, op, path, ns[1], Len(path), vs)
           r == InCatchAll(find, nodes, op, path, ns, used, vals)
<1>1. r = IF IsHit(T) THEN T ELSE Miss(Pop(T.vals))
  BY DEF InCatchAll
<1>2. 1 \in 1 .. Len(ns) /\ Len(path) \in used .. Len(path)
  <2>1. Len(ns) \in Nat \ {0}
    BY GroupFacts
  <2> QED BY <2>1
<1>3. /\ ns[1] \in Kids(nodes, n) /\ ns[1] \in DOMAIN nodes /\ Len(path) \in 0 .. Len(path)
      /\ vs \in Stacks /\ Pop(vs) = vals
      /\ Reads(reg, n, path, used, vals) => Reads(reg, ns[1], path, Len(path), vs)
  BY <1>2, TakerFacts
<1> HIDE DEF vs
<1>4. Sound(nodes, reg, op, path, ns[1], Len(path), vs, T)
  BY <1>3, TrySound
<1> HIDE DEF T, r
<1>5. CASE IsHit(T)
  <2>1. Sound(nodes, reg, op, path, n, used, vals, T)
    BY <1>3, <1>4, <1>5, SoundUp
  <2> QED BY <1>1, <1>5, <2>1 DEF r
<1>6. CASE ~IsHit(T)
  <2>1. T.vals = vs
    BY <1>4, <1>6 DEF Sound
  <2>2. r = Miss(vals)
    BY <1>1, <1>3, <1>6, <2>1
  <2>3. Sound(nodes, reg, op, path, n, used, vals, r)
    BY <2>2, MissSound
  <2> QED BY <2>3 DEF r
<1> QED BY <1>5, <1>6

LEMMA GroupSound ==
  ASSUME NEW nodes, NEW reg, IsLog(reg), IsTree(nodes, reg), NEW n \in DOMAIN nodes,
         NEW t \in NodeTypes, NEW path, Len(path) \in Nat, NEW op,
         NEW used \in 0 .. Len(path), NEW vals \in Stacks, NEW find,
         SoundBelow(find, nodes, reg, op, path, n)
  PROVE  Sound(nodes, reg, op, path, n, used, vals, InGroup(find, nodes, op, path, n, t, used, vals))
<1> DEFINE ns == nodes[n].kids[t]
           r == InGroup(find, nodes, op, path, n, t, used, vals)
<1>1. CASE ns = <<>>
  <2>1. r = Miss(vals)
    BY <1>1 DEF InGroup
  <2> HIDE DEF r
  <2>2. Sound(nodes, reg, op, path, n, used, vals, r)
    BY <2>1, MissSound
  <2> QED BY <2>2 DEF r
<1>2. CASE ns # <<>>
  <2>1. IsGroup(nodes, n, t, ns)
    BY <1>2 DEF IsGroup, IsTree
  <2>2. CASE t = "static"
    <3>1. r = InStatic(find, nodes, op, path, ns, used, vals)
      BY <1>2, <2>2 DEF InGroup
    <3>2. IsGroup(nodes, n, "static", ns)
      BY <2>1, <2>2
    <3> HIDE DEF ns, r
    <3>3. Sound(nodes, reg, op, path, n, used, vals, r)
      BY <3>1, <3>2, StaticSound
    <3> QED BY <3>3 DEF r
  <2>3. CASE t \in {"regexp", "param"}
    <3>1. r = InParams(find, nodes, op, path, ns, used, vals)
      BY <1>2, <2>3 DEF InGroup
    <3>2. t # "static"
      BY <2>3
    <3> HIDE DEF ns, r
    <3>3. Sound(nodes, reg, op, path, n, used, vals, r)
      BY <2>1, <3>1, <3>2, ParamsSound
    <3> QED BY <3>3 DEF r
  <2>4. CASE t = "catchall"
    <3>1. t # "static" /\ t \notin {"regexp", "param"}
      BY <2>4
    <3>2. r = InCatchAll(find, nodes, op, path, ns, used, vals)
      BY <1>2, <2>4, <3>1 DEF InGroup
    <3> HIDE DEF ns, r
    <3>3. Sound(nodes, reg, op, path, n, used, vals, r)
      BY <2>1, <3>1, <3>2, CatchAllSound
    <3> QED BY <3>3 DEF r
  <2> QED BY <2>2, <2>3, <2>4 DEF NodeTypes
<1> QED BY <1>1, <1>2

\* By induction on the size of a call, every search is sound.
LEMMA SearchSound ==
  ASSUME NEW nodes, NEW reg, IsLog(reg), IsTree(nodes, reg), NEW op \in Ops,
         NEW path, Len(path) \in Nat, NEW find, IsSearch(find, nodes, op, path)
  PROVE  \A vals \in Stacks :
           Sound(nodes, reg, op, path, Top, 0, vals, find[<<Top, 1, 0, vals>>])
<1>1. PICK B \in Nat : \A n \in Positions(reg) : n[2] <= B
  BY LongestPattern
<1>2. \A n \in DOMAIN nodes : n[2] \in 0 .. B
  BY <1>1, PositionTypes DEF IsTree, Placed
<1> DEFINE All(n, g) == \A used \in 0 .. Len(path), vals \in Stacks :
             Sound(nodes, reg, op, path, n, used, vals, find[<<n, g, used, vals>>])
           S == {b \in Nat : \A n \in DOMAIN nodes : \A g \in 1 .. 5 :
                   CallSize(B, n[2], g) < b => All(n, g)}
<1>3. \A n \in DOMAIN nodes : \A g \in 1 .. 5 : CallSize(B, n[2], g) \in 0 .. B * 5 + 4
  <2> TAKE n \in DOMAIN nodes
  <2> TAKE g \in 1 .. 5
  <2>1. n[2] \in 0 .. B
    BY <1>2
  <2> QED BY <1>1, <2>1, CallSizes
<1>4. 0 \in S
  <2>1. \A n \in DOMAIN nodes : \A g \in 1 .. 5 : ~(CallSize(B, n[2], g) < 0)
    <3> TAKE n \in DOMAIN nodes
    <3> TAKE g \in 1 .. 5
    <3>1. CallSize(B, n[2], g) \in 0 .. B * 5 + 4
      BY <1>3
    <3> QED BY <3>1
  <2> QED BY <2>1
<1>5. ASSUME NEW b \in Nat, b \in S PROVE b + 1 \in S
  <2> SUFFICES ASSUME NEW n \in DOMAIN nodes, NEW g \in 1 .. 5, CallSize(B, n[2], g) < b + 1
               PROVE  All(n, g)
    OBVIOUS
  <2>1. n[2] \in 0 .. B /\ CallSize(B, n[2], g) \in Nat
    <3>1. CallSize(B, n[2], g) \in 0 .. B * 5 + 4
      BY <1>3
    <3> QED BY <1>2, <3>1
  <2>2. ASSUME NEW m \in DOMAIN nodes, NEW h \in 1 .. 5, CallSize(B, m[2], h) < CallSize(B, n[2], g)
        PROVE  All(m, h)
    <3>1. CallSize(B, m[2], h) \in 0 .. B * 5 + 4
      BY <1>3
    <3>2. CallSize(B, m[2], h) < b
      BY <2>1, <2>2, <3>1
    <3> HIDE DEF All
    <3> QED BY <1>5, <3>2
  <2>3. SoundBelow(find, nodes, reg, op, path, n)
    <3> SUFFICES ASSUME NEW k \in Kids(nodes, n) PROVE All(k, 1)
      BY DEF SoundBelow
    <3>1. k \in DOMAIN nodes /\ n[2] < k[2]
      BY KidFacts DEF Spans
    <3>2. k[2] \in n[2] + 1 .. B /\ 1 \in 1 .. 5
      BY <1>1, <1>2, <2>1, <3>1
    <3>3. CallSize(B, k[2], 1) < CallSize(B, n[2], g)
      BY <1>1, <2>1, <3>2, CallSizes
    <3> HIDE DEF All
    <3> QED BY <2>2, <3>1, <3>2, <3>3
  <2> SUFFICES ASSUME NEW used \in 0 .. Len(path), NEW vals \in Stacks
               PROVE  Sound(nodes, reg, op, path, n, used, vals, find[<<n, g, used, vals>>])
    OBVIOUS
  <2> DEFINE R == InGroup(find, nodes, op, path, n, Groups[g], used, vals)
             f == find[<<n, g, used, vals>>]
  <2>4. f = IF g > 4 THEN Miss(vals) ELSE IF IsHit(R) THEN R ELSE find[<<n, g + 1, used, R.vals>>]
    <3>1. f = FindFrom(find, nodes, op, path, n, g, used, vals)
      BY DEF IsSearch
    <3> QED BY <3>1, GroupsAre DEF FindFrom
  <2>5. Sound(nodes, reg, op, path, n, used, vals, Miss(vals))
    BY MissSound
  <2>6. CASE g > 4
    BY <2>4, <2>5, <2>6
  <2>7. CASE ~(g > 4)
    <3>1. g \in 1 .. 4 /\ g + 1 \in 1 .. 5
      BY <2>7
    <3>2. Groups[g] \in NodeTypes
      BY <3>1, GroupsAre
    <3>3. Sound(nodes, reg, op, path, n, used, vals, R)
      BY <2>3, <3>2, GroupSound
    <3> HIDE DEF R
    <3>4. CASE IsHit(R)
      BY <2>4, <2>7, <3>3, <3>4
    <3>5. CASE ~IsHit(R)
      <4>1. R.vals = vals
        BY <3>3, <3>5 DEF Sound
      <4>2. f = find[<<n, g + 1, used, vals>>]
        BY <2>4, <2>7, <3>5, <4>1
      <4>3. CallSize(B, n[2], g + 1) < CallSize(B, n[2], g)
        BY <1>1, <2>1, CallSizes
      <4>4. All(n, g + 1)
        <5> HIDE DEF All
        <5> QED BY <2>2, <3>1, <4>3
      <4>5. Sound(nodes, reg, op, path, n, used, vals, find[<<n, g + 1, used, vals>>])
        BY <4>4
      <4> HIDE DEF f
      <4>6. Sound(nodes, reg, op, path, n, used, vals, f)
        BY <4>2, <4>5
      <4> QED BY <4>6 DEF f
    <3> QED BY <3>4, <3>5
  <2> QED BY <2>6, <2>7
<1>6. \A b \in Nat : b \in S
  <2> HIDE DEF S
  <2> QED BY <1>4, <1>5, AllNumbers
<1>7. Top \in DOMAIN nodes /\ 1 \in 1 .. 5 /\ 0 \in 0 .. Len(path)
  BY DEF IsTree, Placed
<1>8. CallSize(B, Top[2], 1) < B * 5 + 5 /\ B * 5 + 5 \in Nat
  <2>1. CallSize(B, Top[2], 1) \in 0 .. B * 5 + 4
    BY <1>3, <1>7
  <2> QED BY <1>1, <2>1
<1>9. All(Top, 1)
  <2>1. B * 5 + 5 \in S
    BY <1>6, <1>8
  <2> HIDE DEF All
  <2> QED BY <1>7, <1>8, <2>1
<1> QED BY <1>7, <1>9

\* The values as parts of the path.
LEMMA ShownFacts ==
  ASSUME NEW path, NEW vals \in Stacks
  PROVE  /\ Len(ShownValues(path, vals)) = Len(vals)
         /\ \A k \in 1 .. Len(vals) : ShownValues(path, vals)[k] = ValueOf(path, vals[k])
<1> DEFINE s == ShownValues(path, vals)
           S == {ValueOf(path, vals[k]) : k \in DOMAIN vals}
<1>1. Len(vals) \in Nat /\ DOMAIN vals = 1 .. Len(vals)
  BY DEF Stacks
<1>2. s \in [1 .. Len(vals) -> S]
  BY <1>1 DEF ShownValues
<1>3. s \in Seq(S)
  <2> HIDE DEF s, S
  <2> QED BY <1>1, <1>2, SeqDef
<1>4. DOMAIN s = 1 .. Len(s) /\ DOMAIN s = 1 .. Len(vals) /\ Len(s) \in Nat
  <2> HIDE DEF s, S
  <2> QED BY <1>2, <1>3
<1>5. \A a, b \in Nat : 1 .. a = 1 .. b => a = b
  <2> SUFFICES ASSUME NEW a \in Nat, NEW b \in Nat, 1 .. a = 1 .. b PROVE a = b
    OBVIOUS
  <2>1. a \in 1 .. a \/ a = 0
    OBVIOUS
  <2>2. b \in 1 .. b \/ b = 0
    OBVIOUS
  <2>3. a <= b
    BY <2>1
  <2>4. b <= a
    BY <2>2
  <2> QED BY <2>3, <2>4
<1>6. Len(s) = Len(vals)
  <2> HIDE DEF s, S
  <2> QED BY <1>1, <1>4, <1>5
<1>7. \A k \in 1 .. Len(vals) : s[k] = ValueOf(path, vals[k])
  BY <1>1 DEF ShownValues
<1> QED BY <1>6, <1>7

\* Along a way that reads a path, its pattern takes as many values as it has
\* parameters, and with them stands for the path.
LEMMA ReadTypes ==
  ASSUME NEW q, Len(q) \in Nat, NEW path, Len(path) \in Nat, NEW vals \in Stacks,
         NEW cut, NEW num, ReadBy(q, path, vals, cut, num)
  PROVE  /\ \A i \in 0 .. Len(q) : cut[i] \in 0 .. Len(path) /\ num[i] \in 0 .. Len(vals)
                                  /\ num[i] \in Nat
         /\ \A i \in 1 .. Len(q) :
              /\ i - 1 \in 0 .. Len(q) /\ i \in 0 .. Len(q) /\ cut[i - 1] \in 0 .. Len(path)
              /\ q[i] \notin Wild => /\ num[i] = num[i - 1] /\ cut[i] = cut[i - 1] + 1
                                     /\ path[cut[i]] = q[i]
              /\ q[i] \in Wild => /\ num[i] = num[i - 1] + 1 /\ num[i] \in 1 .. Len(vals)
                                  /\ cut[i] \in cut[i - 1] .. Len(path)
                                  /\ vals[num[i]] = <<cut[i - 1], cut[i]>>
<1>1. Len(vals) \in Nat
  BY DEF Stacks
<1>2. \A i \in 0 .. Len(q) : cut[i] \in 0 .. Len(path) /\ num[i] \in 0 .. Len(vals) /\ num[i] \in Nat
  BY <1>1 DEF ReadBy
<1>3. ASSUME NEW i \in 1 .. Len(q)
      PROVE  /\ i - 1 \in 0 .. Len(q) /\ i \in 0 .. Len(q) /\ cut[i - 1] \in 0 .. Len(path)
             /\ q[i] \notin Wild => /\ num[i] = num[i - 1] /\ cut[i] = cut[i - 1] + 1
                                    /\ path[cut[i]] = q[i]
             /\ q[i] \in Wild => /\ num[i] = num[i - 1] + 1 /\ num[i] \in 1 .. Len(vals)
                                 /\ cut[i] \in cut[i - 1] .. Len(path)
                                 /\ vals[num[i]] = <<cut[i - 1], cut[i]>>
  <2>1. i - 1 \in 0 .. Len(q) /\ i \in 0 .. Len(q)
    OBVIOUS
  <2>2. cut[i - 1] \in 0 .. Len(path) /\ cut[i] \in 0 .. Len(path) /\ num[i - 1] \in Nat /\ num[i] \in Nat
    BY <1>2, <2>1
  <2>3. Reading(Edge(q, i), path, vals, cut[i - 1], cut[i], num[i - 1], num[i])
    BY DEF ReadBy
  <2>4. CASE q[i] \notin Wild
    <3>1. Edge(q, i).typ = "static" /\ Edge(q, i).text = q[i]
      BY <2>4, EdgeTypes, StaticEdges
    <3> QED BY <2>1, <2>2, <2>3, <2>4, <3>1 DEF Reading
  <2>5. CASE q[i] \in Wild
    <3>1. Edge(q, i).typ # "static"
      BY <2>5, EdgeTypes
    <3>2. /\ num[i] = num[i - 1] + 1 /\ num[i] <= Len(vals) /\ cut[i - 1] <= cut[i]
          /\ vals[num[i]] = <<cut[i - 1], cut[i]>>
      BY <2>3, <3>1 DEF Reading
    <3>3. num[i] \in 1 .. Len(vals) /\ cut[i] \in cut[i - 1] .. Len(path)
      BY <1>1, <2>2, <3>2
    <3> QED BY <2>1, <2>2, <2>5, <3>2, <3>3
  <2> QED BY <2>4, <2>5
<1> QED BY <1>2, <1>3

LEMMA OneValueEach ==
  ASSUME NEW q, Len(q) \in Nat, NEW path, Len(path) \in Nat, NEW vals \in Stacks,
         NEW cut, NEW num, ReadBy(q, path, vals, cut, num)
  PROVE  Cardinality({i \in 1 .. Len(q) : q[i] \in Wild}) = Len(vals)
<1> DEFINE C(i) == {j \in 1 .. i : q[j] \in Wild}
           S == {i \in Nat : i <= Len(q) => IsFiniteSet(C(i)) /\ Cardinality(C(i)) = num[i]}
<1>1. 0 \in S
  <2>1. C(0) = {}
    OBVIOUS
  <2>2. num[0] = 0
    BY DEF ReadBy
  <2> HIDE DEF C
  <2>3. IsFiniteSet(C(0)) /\ Cardinality(C(0)) = num[0]
    BY <2>1, <2>2, FS_EmptySet
  <2> QED BY <2>3
<1>2. ASSUME NEW i \in Nat, i \in S PROVE i + 1 \in S
  <2> SUFFICES ASSUME i + 1 <= Len(q)
               PROVE  IsFiniteSet(C(i + 1)) /\ Cardinality(C(i + 1)) = num[i + 1]
    OBVIOUS
  <2>1. i <= Len(q) /\ i + 1 \in 1 .. Len(q) /\ (i + 1) - 1 = i
    OBVIOUS
  <2>2. IsFiniteSet(C(i)) /\ Cardinality(C(i)) = num[i]
    BY <1>2, <2>1
  <2>3. i + 1 \notin C(i)
    OBVIOUS
  <2>4. CASE q[i + 1] \in Wild
    <3>1. C(i + 1) = C(i) \cup {i + 1}
      <4>1. \A j \in 1 .. i + 1 : j \in 1 .. i \/ j = i + 1
        OBVIOUS
      <4>2. \A j \in 1 .. i : j \in 1 .. i + 1
        OBVIOUS
      <4>3. i + 1 \in 1 .. i + 1
        OBVIOUS
      <4> QED BY <2>4, <4>1, <4>2, <4>3
    <3>2. num[i + 1] = num[i] + 1
      BY <2>1, <2>4, ReadTypes
    <3> HIDE DEF C
    <3> QED BY <2>2, <2>3, <3>1, <3>2, FS_AddElement
  <2>5. CASE q[i + 1] \notin Wild
    <3>1. C(i + 1) = C(i)
      <4>1. \A j \in 1 .. i + 1 : j \in 1 .. i \/ j = i + 1
        OBVIOUS
      <4>2. \A j \in 1 .. i : j \in 1 .. i + 1
        OBVIOUS
      <4> QED BY <2>5, <4>1, <4>2
    <3>2. num[i + 1] = num[i]
      BY <2>1, <2>5, ReadTypes
    <3> HIDE DEF C
    <3> QED BY <2>2, <3>1, <3>2
  <2> QED BY <2>4, <2>5
<1>3. Len(q) \in S
  <2> HIDE DEF S
  <2> QED BY <1>1, <1>2, AllNumbers
<1>4. Cardinality(C(Len(q))) = num[Len(q)]
  <2> HIDE DEF C
  <2> QED BY <1>3
<1> QED BY <1>4 DEF ReadBy

LEMMA FillsIn ==
  ASSUME NEW q, Len(q) \in Nat, NEW path, path \in Seq(ToSet(path)), NEW vals \in Stacks,
         NEW cut, NEW num, ReadBy(q, path, vals, cut, num)
  PROVE  Fill(q, ShownValues(path, vals)) = path
<1> DEFINE shown == ShownValues(path, vals)
           T == ToSet(path)
           g == [i \in 0 .. Len(q) |-> <<SubSeq(path, 1, cut[i]), num[i]>>]
           D == 0 .. Len(q)
<1>1. Len(path) \in Nat /\ path \in Seq(T) /\ \A i \in 1 .. Len(path) : path[i] \in T
  <2> HIDE DEF T
  <2> QED BY DEF T
<1> HIDE DEF T
<1>2. \A i \in D : g[i] = <<SubSeq(path, 1, cut[i]), num[i]>> /\ g[i][1] = SubSeq(path, 1, cut[i])
                  /\ g[i][2] = num[i]
  OBVIOUS
<1> HIDE DEF g, shown
<1>3. ASSUME NEW i \in D, NEW f, i # 0 => f[i - 1] = g[i - 1]
      PROVE  FillTo(f, q, shown, i) = g[i]
  <2>1. CASE i = 0
    <3>1. cut[0] = 0 /\ num[0] = 0
      BY DEF ReadBy
    <3>2. SubSeq(path, 1, 0) = <<>>
      BY SubSeqEmpty
    <3>3. g[0] = <<<<>>, 0>>
      <4>1. 0 \in D
        OBVIOUS
      <4>2. g[0] = <<SubSeq(path, 1, cut[0]), num[0]>>
        BY <1>2, <4>1
      <4> QED BY <3>1, <3>2, <4>2
    <3> QED BY <2>1, <3>3 DEF FillTo
  <2>2. CASE i # 0
    <3>1. i \in 1 .. Len(q)
      BY <2>2
    <3> DEFINE a == cut[i - 1]
               b == cut[i]
    <3>2. /\ i - 1 \in D /\ a \in 0 .. Len(path) /\ b \in 0 .. Len(path)
          /\ q[i] \notin Wild => num[i] = num[i - 1] /\ b = a + 1 /\ path[b] = q[i]
          /\ q[i] \in Wild => /\ num[i] = num[i - 1] + 1 /\ num[i] \in 1 .. Len(vals)
                              /\ b \in a .. Len(path) /\ vals[num[i]] = <<a, b>>
      BY <1>1, <3>1, ReadTypes
    <3>3. f[i - 1][1] = SubSeq(path, 1, a) /\ f[i - 1][2] = num[i - 1]
      <4>1. f[i - 1] = g[i - 1]
        BY <1>3, <2>2
      <4> QED BY <1>2, <3>2, <4>1
    <3>4. g[i] = <<SubSeq(path, 1, b), num[i]>>
      BY <1>2
    <3> HIDE DEF a, b
    <3>5. FillTo(f, q, shown, i) =
            IF q[i] \in Wild THEN <<f[i - 1][1] \o shown[f[i - 1][2] + 1], f[i - 1][2] + 1>>
            ELSE <<Append(f[i - 1][1], q[i]), f[i - 1][2]>>
      BY <2>2 DEF FillTo
    <3>6. CASE q[i] \in Wild
      <4>1. shown[num[i]] = SubSeq(path, a + 1, b)
        <5>1. shown[num[i]] = ValueOf(path, vals[num[i]])
          BY <3>2, <3>6, ShownFacts DEF shown
        <5>2. ValueOf(path, <<a, b>>) = SubSeq(path, a + 1, b)
          BY DEF ValueOf
        <5> QED BY <3>2, <3>6, <5>1, <5>2
      <4>2. SubSeq(path, 1, a) \o SubSeq(path, a + 1, b) = SubSeq(path, 1, b)
        <5>1. 1 \in 1 .. Len(path) + 1 /\ a \in 1 - 1 .. Len(path) /\ b \in a .. Len(path)
          BY <1>1, <3>2, <3>6
        <5> QED BY <1>1, <5>1, ConcatAdjacentSubSeq
      <4>3. f[i - 1][2] + 1 = num[i]
        BY <3>2, <3>3, <3>6
      <4> QED BY <3>3, <3>4, <3>5, <3>6, <4>1, <4>2, <4>3
    <3>7. CASE q[i] \notin Wild
      <4>1. Append(SubSeq(path, 1, a), q[i]) = SubSeq(path, 1, b)
        <5>1. b \in 1 .. Len(path) /\ 1 \in 1 .. Len(path) /\ b - 1 = a
          BY <1>1, <3>2, <3>7
        <5>2. SubSeq(path, 1, b) = SubSeq(path, 1, b - 1) \o <<path[b]>>
          BY <1>1, <5>1, SubSeqRecursiveSecond
        <5>3. SubSeq(path, 1, a) \in Seq(T) /\ path[b] \in T
          <6>1. \A j \in 1 .. a : path[j] \in T
            BY <1>1, <3>2
          <6>2. 1 \in Int /\ a \in Int
            BY <3>2
          <6> QED BY <1>1, <5>1, <6>1, <6>2, SubSeqProperties
        <5>4. Append(SubSeq(path, 1, a), path[b]) = SubSeq(path, 1, a) \o <<path[b]>>
          BY <5>3, AppendIsConcat
        <5> QED BY <3>2, <3>7, <5>1, <5>2, <5>4
      <4> QED BY <3>2, <3>3, <3>4, <3>5, <3>7, <4>1
    <3> QED BY <3>6, <3>7
  <2> QED BY <2>1, <2>2
<1> DEFINE Is(f) == f = [i \in D |-> FillTo(f, q, shown, i)]
           w == CHOOSE f : Is(f)
<1>4. Is(g)
  <2>1. \A i \in D : FillTo(g, q, shown, i) = g[i]
    BY <1>3
  <2>2. g = [i \in D |-> g[i]]
    BY DEF g
  <2> HIDE DEF D
  <2> QED BY <2>1, <2>2
<1>5. Is(w)
  <2> HIDE DEF Is
  <2> QED BY <1>4
<1>6. Fill(q, shown) = w[Len(q)][1]
  BY DEF Fill
<1> HIDE DEF w
<1>7. \A i \in D : w[i] = FillTo(w, q, shown, i)
  BY <1>5
<1> HIDE DEF Is
<1> DEFINE S == {i \in Nat : i <= Len(q) => w[i] = g[i]}
<1>8. 0 \in S
  <2>1. 0 \in D
    OBVIOUS
  <2>2. FillTo(w, q, shown, 0) = g[0]
    BY <1>3, <2>1
  <2> QED BY <1>7, <2>1, <2>2
<1>9. ASSUME NEW i \in Nat, i \in S PROVE i + 1 \in S
  <2> SUFFICES ASSUME i + 1 <= Len(q) PROVE w[i + 1] = g[i + 1]
    OBVIOUS
  <2>1. i + 1 \in D /\ (i + 1) - 1 = i /\ w[i] = g[i]
    BY <1>9
  <2>2. FillTo(w, q, shown, i + 1) = g[i + 1]
    BY <1>3, <2>1
  <2> QED BY <1>7, <2>1, <2>2
<1>10. w[Len(q)] = g[Len(q)]
  <2>1. Len(q) \in S
    <3> HIDE DEF S
    <3> QED BY <1>8, <1>9, AllNumbers
  <2> QED BY <2>1
<1>11. g[Len(q)][1] = path
  <2>1. Len(q) \in D /\ cut[Len(q)] = Len(path)
    BY DEF ReadBy
  <2>2. SubSeq(path, 1, Len(path)) = path
    BY <1>1, SubSeqFull
  <2> QED BY <1>2, <2>1, <2>2
<1> QED BY <1>6, <1>10, <1>11 DEF shown

LEMMA FitsWhatItFinds ==
  ASSUME RadixInv(tree, registered)
  PROVE  FoundFits
<1>1. IsLog(registered) /\ IsTree(tree, registered)
  BY DEF RadixInv
<1> SUFFICES ASSUME NEW op \in Ops, NEW path \in Paths, IsHit(FindRoute(tree, op, path))
             PROVE  LET r == FindRoute(tree, op, path) IN
                    /\ r.pattern \in Registered(op)
                    /\ Len(r.vals) = Cardinality({i \in DOMAIN r.pattern : r.pattern[i] \in Wild})
                    /\ Fill(r.pattern, r.vals) = path
  BY DEF FoundFits
<1>2. path \in Seq(ToSet(path)) /\ Len(path) \in Nat
  BY PathsAssumption
<1>3. PICK find : /\ IsSearch(find, tree, op, path)
                  /\ FindRoute(tree, op, path) = Shown(path, find[<<Top, 1, 0, <<>>>>])
  BY <1>1, <1>2, FindIs
<1> DEFINE f == find[<<Top, 1, 0, <<>>>>]
           r == FindRoute(tree, op, path)
<1>4. f \in Results /\ f.vals \in Stacks
  <2>1. <<>> \in Stacks /\ 1 \in 1 .. 5 /\ 0 \in 0 .. Len(path) /\ Top \in DOMAIN tree
    BY <1>1, <1>2 DEF Stacks, IsTree, Placed
  <2>2. <<Top, 1, 0, <<>>>> \in Calls(tree, path)
    BY <2>1, CallTypes
  <2>3. f \in Results
    BY <1>3, <2>2 DEF IsSearch
  <2> HIDE DEF f
  <2> QED BY <2>3 DEF Results
<1>5. Sound(tree, registered, op, path, Top, 0, <<>>, f)
  <2>1. <<>> \in Stacks
    BY DEF Stacks
  <2> QED BY <1>1, <1>2, <1>3, <2>1, SearchSound
<1> HIDE DEF f
<1>6. r.pattern = f.pattern /\ r.vals = ShownValues(path, f.vals) /\ IsHit(f)
  <2>1. r = Shown(path, f)
    BY <1>3 DEF f
  <2>2. Shown(path, f).pattern = f.pattern /\ Shown(path, f).vals = ShownValues(path, f.vals)
    BY DEF Shown, ShownValues
  <2> HIDE DEF r
  <2>3. r.pattern = f.pattern /\ r.vals = ShownValues(path, f.vals)
    BY <2>1, <2>2
  <2>4. IsHit(r)
    BY DEF r
  <2> QED BY <2>3, <2>4 DEF IsHit
<1> HIDE DEF r
\* Nothing is read at the root.
<1>7. Reads(registered, Top, path, 0, <<>>)
  <2>1. Top[2] = 0 /\ Len(<<>>) = 0
    BY DEF Top
  <2>2. [i \in 0 .. 0 |-> 0] \in [0 .. 0 -> 0 .. Len(path)] /\ [i \in 0 .. 0 |-> 0][0] = 0
    BY <1>2
  <2>3. [i \in 0 .. 0 |-> 0] \in [0 .. 0 -> 0 .. 0]
    OBVIOUS
  <2> DEFINE zero == [i \in 0 .. 0 |-> 0]
  <2> HIDE DEF zero
  <2>4. zero \in [0 .. 0 -> 0 .. Len(path)] /\ zero \in [0 .. 0 -> 0 .. 0] /\ zero[0] = 0
    BY <2>2, <2>3 DEF zero
  <2>5. \A i \in 1 .. 0 : FALSE
    OBVIOUS
  <2> QED BY <2>1, <2>4, <2>5 DEF Reads
<1>8. PICK m \in DOMAIN tree : f.pattern = tree[m].eps[op] /\ Reads(registered, m, path, Len(path), f.vals)
  BY <1>5, <1>6, <1>7 DEF Sound, EndsIn
<1>9. f.pattern # NoRoute
  BY <1>6 DEF IsHit
<1> DEFINE q == f.pattern
<1>10. PICK i \in 1 .. Len(registered) : EndsHere(registered, m, i) /\ q = registered[i][2]
  BY <1>8, <1>9 DEF RadixInv, LastWins
<1>11. q \in Patterns /\ Len(q) \in Nat /\ DOMAIN q = 1 .. Len(q)
  BY <1>1, <1>10, LogTypes, PatternTypes
<1>12. PICK cut, num : ReadBy(q, path, f.vals, cut, num)
  <2>1. m[2] = Len(q) /\ \A x \in 1 .. m[2] : Way(registered, m, x) = Edge(q, x)
    BY <1>10 DEF EndsHere, Leads, Way
  <2>2. PICK cut \in [0 .. m[2] -> 0 .. Len(path)], num \in [0 .. m[2] -> 0 .. Len(f.vals)] :
          /\ cut[0] = 0 /\ num[0] = 0 /\ cut[m[2]] = Len(path) /\ num[m[2]] = Len(f.vals)
          /\ \A x \in 1 .. m[2] : Reading(Way(registered, m, x), path, f.vals,
                                          cut[x - 1], cut[x], num[x - 1], num[x])
    BY <1>8 DEF Reads
  <2> HIDE DEF q
  <2>3. ReadBy(q, path, f.vals, cut, num)
    BY <2>1, <2>2 DEF ReadBy
  <2> QED BY <2>3
<1>13. q \in Registered(op)
  <2>1. q \in Listed(op)
    <3>1. AllNodes(tree) = DOMAIN tree
      BY <1>1, WalkIs
    <3> QED BY <1>8, <1>9, <3>1 DEF Listed
  <2> QED BY <2>1, ListsThem DEF ListsEveryRoute
<1> HIDE DEF q
<1>14. Cardinality({x \in 1 .. Len(q) : q[x] \in Wild}) = Len(f.vals)
  BY <1>2, <1>4, <1>11, <1>12, OneValueEach
<1>15. Fill(q, ShownValues(path, f.vals)) = path
  BY <1>2, <1>4, <1>11, <1>12, FillsIn
<1>16. Len(ShownValues(path, f.vals)) = Len(f.vals)
  BY <1>4, ShownFacts
<1> QED BY <1>6, <1>11, <1>13, <1>14, <1>15, <1>16 DEF q, r

\* What a search finds is a registered route for the operation, with one value per
\* parameter, which fill its pattern in to the path: every group that finds nothing
\* takes back what it pushed (radix.go findRoute, xsearch and its value stack).
THEOREM FoundRouteFits == Spec => []FoundFits
<1>1. RadixInv(tree, registered) => FoundFits
  BY FitsWhatItFinds
<1> QED BY <1>1, TreeOfPatterns, PTL

----------------------------------------------------------------------------
(* Components of patterns, and paths of names *)

\* A script's routes are registered with the router: to the radix tree, the walk
\* changes nothing.
THEOREM RegistryRegisters == SpecTree => Spec
<1>1. InitTree => Init
  BY DEF InitTree
<1>2. [NextTree]_tvars => [Next]_vars
  <2> SUFFICES ASSUME [NextTree]_tvars PROVE [Next]_vars
    OBVIOUS
  <2>1. ASSUME NEW op \in Ops, NEW p \in ScriptPatterns, RegisterRoute(op, p) PROVE Next
    BY <2>1, ScriptsAssumption DEF RegisterRoute, Next
  <2>2. CASE UNCHANGED <<tree, registered>>
    BY <2>2 DEF vars
  <2>3. Mount \/ (\E name \in Names : Lookup(name) \/ LookupListed(name) \/ Create(name))
          => UNCHANGED <<tree, registered>>
    BY DEF Mount, Lookup, LookupListed, Create
  <2>4. UNCHANGED tvars => UNCHANGED <<tree, registered>>
    BY DEF tvars
  <2> QED BY <2>1, <2>2, <2>3, <2>4 DEF NextTree
<1> QED BY <1>1, <1>2, PTL DEF SpecTree, Spec

\* A function that is built up one number after the other is there.
LEMMA StepsAre ==
  ASSUME NEW n \in Nat, NEW V, NEW first \in V, NEW next, IsStep(n, V, next)
  PROVE  \E f \in [0 .. n -> V] : StepsFrom(f, n, first, next)
<1> USE DEF StepsFrom, IsStep
<1> DEFINE Good(f, m) == f[0] = first /\ \A i \in 1 .. n : i <= m => f[i] = next[<<i, f[i - 1]>>]
           S == {m \in Nat : \E f \in [0 .. n -> V] : Good(f, m)}
<1>1. 0 \in S
  <2>1. [i \in 0 .. n |-> first] \in [0 .. n -> V] /\ [i \in 0 .. n |-> first][0] = first
    OBVIOUS
  <2> DEFINE f == [i \in 0 .. n |-> first]
  <2>2. \A i \in 1 .. n : ~(i <= 0)
    OBVIOUS
  <2>3. Good(f, 0)
    BY <2>1, <2>2
  <2> QED BY <2>1, <2>3
<1>2. ASSUME NEW m \in Nat, m \in S PROVE m + 1 \in S
  <2>1. PICK f \in [0 .. n -> V] : Good(f, m)
    BY <1>2
  <2> DEFINE g == [i \in 0 .. n |-> IF i = m + 1 THEN next[<<i, f[m]>>] ELSE f[i]]
  <2>2. g \in [0 .. n -> V]
    <3>1. ASSUME NEW i \in 0 .. n, i = m + 1 PROVE next[<<i, f[m]>>] \in V
      <4>1. i \in 1 .. n /\ m \in 0 .. n
        BY <3>1
      <4> QED BY <4>1
    <3> QED BY <3>1
  <2>3. g[0] = first
    BY <2>1
  <2>4. ASSUME NEW i \in 1 .. n, i <= m + 1 PROVE g[i] = next[<<i, g[i - 1]>>]
    <3>1. i \in 0 .. n /\ i - 1 \in 0 .. n /\ i - 1 # m + 1
      BY <2>4
    <3>2. g[i - 1] = f[i - 1]
      BY <3>1
    <3>3. CASE i = m + 1
      <4>1. g[i] = next[<<i, f[m]>>] /\ i - 1 = m
        BY <3>1, <3>3
      <4> QED BY <3>2, <4>1
    <3>4. CASE i # m + 1
      <4>1. g[i] = f[i] /\ i <= m
        BY <2>4, <3>1, <3>4
      <4>2. f[i] = next[<<i, f[i - 1]>>]
        BY <2>1, <4>1
      <4> QED BY <3>2, <4>1, <4>2
    <3> QED BY <3>3, <3>4
  <2> HIDE DEF g
  <2>5. Good(g, m + 1)
    BY <2>3, <2>4
  <2> HIDE DEF Good
  <2> QED BY <2>2, <2>5
<1>3. n \in S
  <2> HIDE DEF S
  <2> QED BY <1>1, <1>2, AllNumbers
<1>4. PICK f \in [0 .. n -> V] : Good(f, n)
  BY <1>3
<1>5. \A i \in 1 .. n : i <= n
  OBVIOUS
<1> QED BY <1>4, <1>5

\* What ComponentsTo makes of the components so far.
LEMMA LongerTypes ==
  ASSUME NEW T, NEW before \in Seq(Names0(T)), NEW c \in T
  PROVE  /\ Append(before, <<c>>) \in Seq(Names0(T))
         /\ LongerLast(before, c) \in Seq(Names0(T))
<1>1. <<c>> \in Names0(T)
  BY DEF Names0
<1>2. CASE before = <<>>
  <2>1. LongerLast(before, c) = before
    BY <1>2 DEF LongerLast
  <2> QED BY <1>1, <2>1
<1>3. CASE before # <<>>
  <2> DEFINE n == Len(before)
             e == Append(before[n], c)
  <2>1. n \in 1 .. Len(before)
    BY <1>3
  <2>2. before[n] \in Names0(T)
    BY <2>1
  <2>3. e \in Seq(T) /\ e # <<>>
    BY <2>2, AppendProperties DEF Names0
  <2>4. e \in Names0(T)
    BY <2>3 DEF Names0
  <2> HIDE DEF e
  <2>5. [before EXCEPT ![n] = e] \in Seq(Names0(T))
    BY <2>1, <2>4, ExceptSeq
  <2> QED BY <1>1, <2>5 DEF LongerLast, e
<1> QED BY <1>2, <1>3

LEMMA ComponentsAre ==
  ASSUME NEW s, s \in Seq(ToSet(s))
  PROVE  \E parts \in [0 .. Len(s) -> Seq(Names0(Tokens(s)))] :
           PartsFollow(parts, s) /\ Components(s) = parts[Len(s)]
<1> DEFINE n == Len(s)
           V == Seq(Names0(Tokens(s)))
           next == [x \in (1 .. n) \X V |-> NextParts(x[2], s, x[1])]
           Is(f) == f = [i \in 0 .. n |-> ComponentsTo(f, s, i)]
           w == CHOOSE f : Is(f)
<1>1. n \in Nat /\ <<>> \in V
  OBVIOUS
<1>2. ASSUME NEW i \in 1 .. n, NEW before \in V PROVE NextParts(before, s, i) \in V
  <2>1. s[i] # "/" => s[i] \in Tokens(s)
    BY DEF Tokens, ToSet
  <2> QED BY <2>1, LongerTypes DEF NextParts
<1>3. next \in [(1 .. n) \X V -> V]
  <2>1. ASSUME NEW x \in (1 .. n) \X V PROVE NextParts(x[2], s, x[1]) \in V
    BY <1>2
  <2> HIDE DEF V
  <2> QED BY <2>1
<1>4. \A i \in 1 .. n, before \in V : next[<<i, before>>] = NextParts(before, s, i)
  OBVIOUS
<1>5. PICK g \in [0 .. n -> V] : g[0] = <<>> /\ \A i \in 1 .. n : g[i] = next[<<i, g[i - 1]>>]
  <2> HIDE DEF n, V, next
  <2>1. IsStep(n, V, next)
    BY <1>3 DEF IsStep
  <2>2. \E f \in [0 .. n -> V] : StepsFrom(f, n, <<>>, next)
    BY <1>1, <2>1, StepsAre
  <2> QED BY <2>2 DEF StepsFrom
<1>6. \A i \in 1 .. n : g[i] = NextParts(g[i - 1], s, i)
  <2> HIDE DEF next, V
  <2>1. \A i \in 1 .. n : g[i - 1] \in V
    OBVIOUS
  <2> QED BY <1>4, <1>5, <2>1
<1>7. \A f, i : ComponentsTo(f, s, i) = IF i = 0 THEN <<>> ELSE NextParts(f[i - 1], s, i)
  BY DEF ComponentsTo, NextParts, LongerLast
<1> HIDE DEF V, next
<1>8. Is(g)
  <2>1. \A i \in 0 .. n : g[i] = ComponentsTo(g, s, i)
    <3>1. \A i \in 0 .. n : i = 0 \/ i \in 1 .. n
      OBVIOUS
    <3>2. \A i \in 1 .. n : i # 0
      OBVIOUS
    <3> HIDE DEF n
    <3> QED BY <1>5, <1>6, <1>7, <3>1, <3>2
  <2>2. g = [i \in 0 .. n |-> g[i]]
    BY <1>5
  <2> HIDE DEF n
  <2> QED BY <2>1, <2>2
<1>9. Is(w)
  <2> HIDE DEF Is
  <2> QED BY <1>8
<1>10. Components(s) = w[n]
  BY DEF Components
<1> HIDE DEF w
<1>11. w = [i \in 0 .. n |-> ComponentsTo(w, s, i)]
  BY <1>9
<1> HIDE DEF Is
<1>12. \A i \in 0 .. n : w[i] = ComponentsTo(w, s, i)
  BY <1>11
<1> DEFINE S == {i \in Nat : i <= n => w[i] = g[i]}
<1>13. 0 \in S
  <2>1. 0 \in 0 .. n
    BY <1>1
  <2>2. w[0] = g[0]
    BY <1>5, <1>7, <1>12, <2>1
  <2> QED BY <2>2
<1>14. ASSUME NEW i \in Nat, i \in S PROVE i + 1 \in S
  <2> SUFFICES ASSUME i + 1 <= n PROVE w[i + 1] = g[i + 1]
    OBVIOUS
  <2>1. i + 1 \in 0 .. n /\ i + 1 \in 1 .. n /\ i + 1 # 0 /\ (i + 1) - 1 = i /\ i <= n
    BY <1>1
  <2>2. w[i] = g[i]
    BY <1>14, <2>1
  <2>3. w[i + 1] = NextParts(w[i], s, i + 1)
    BY <1>7, <1>12, <2>1
  <2>4. g[i + 1] = NextParts(g[i], s, i + 1)
    BY <1>6, <2>1
  <2> QED BY <2>2, <2>3, <2>4
<1>15. w[n] = g[n]
  <2>1. n \in S
    <3> HIDE DEF S, n
    <3> QED BY <1>1, <1>13, <1>14, AllNumbers
  <2> QED BY <1>1, <2>1
<1>16. PartsFollow(g, s)
  BY <1>5, <1>6 DEF PartsFollow
<1> QED BY <1>5, <1>10, <1>15, <1>16 DEF V

\* The paths of the names up to each.
LEMMA PathsAre ==
  ASSUME NEW T, NEW names \in Seq(Seq(T))
  PROVE  \E paths \in [0 .. Len(names) -> Seq(T \cup {"/"})] :
           /\ PathsFollow(paths, names)
           /\ PathOf(names) = IF names = <<>> THEN <<"/">> ELSE paths[Len(names)]
<1> DEFINE n == Len(names)
           V == Seq(T \cup {"/"})
           next == [x \in (1 .. n) \X V |-> x[2] \o (<<"/">> \o names[x[1]])]
           Is(f) == f = [i \in 0 .. n |-> PathTo(f, names, i)]
           w == CHOOSE f : Is(f)
<1>1. n \in Nat /\ <<>> \in V
  OBVIOUS
<1>2. ASSUME NEW i \in 1 .. n, NEW before \in V PROVE before \o (<<"/">> \o names[i]) \in V
  <2>1. names[i] \in Seq(T)
    OBVIOUS
  <2>2. names[i] \in V /\ <<"/">> \in V
    BY <2>1
  <2>3. <<"/">> \o names[i] \in V
    BY <2>2, ConcatProperties
  <2> QED BY <2>3, ConcatProperties
<1>3. next \in [(1 .. n) \X V -> V]
  <2>1. ASSUME NEW x \in (1 .. n) \X V PROVE x[2] \o (<<"/">> \o names[x[1]]) \in V
    BY <1>2
  <2> HIDE DEF V
  <2> QED BY <2>1
<1>4. \A i \in 1 .. n, before \in V : next[<<i, before>>] = before \o (<<"/">> \o names[i])
  OBVIOUS
<1>5. PICK g \in [0 .. n -> V] : g[0] = <<>> /\ \A i \in 1 .. n : g[i] = next[<<i, g[i - 1]>>]
  <2> HIDE DEF n, V, next
  <2>1. IsStep(n, V, next)
    BY <1>3 DEF IsStep
  <2>2. \E f \in [0 .. n -> V] : StepsFrom(f, n, <<>>, next)
    BY <1>1, <2>1, StepsAre
  <2> QED BY <2>2 DEF StepsFrom
<1>6. \A i \in 1 .. n : g[i] = g[i - 1] \o (<<"/">> \o names[i])
  <2> HIDE DEF next, V
  <2>1. \A i \in 1 .. n : g[i - 1] \in V
    OBVIOUS
  <2> QED BY <1>4, <1>5, <2>1
<1>7. \A f, i : PathTo(f, names, i) = IF i = 0 THEN <<>> ELSE f[i - 1] \o (<<"/">> \o names[i])
  BY DEF PathTo
<1> HIDE DEF V, next
<1>8. Is(g)
  <2>1. \A i \in 0 .. n : g[i] = PathTo(g, names, i)
    <3>1. \A i \in 0 .. n : i = 0 \/ i \in 1 .. n
      OBVIOUS
    <3>2. \A i \in 1 .. n : i # 0
      OBVIOUS
    <3> HIDE DEF n
    <3> QED BY <1>5, <1>6, <1>7, <3>1, <3>2
  <2>2. g = [i \in 0 .. n |-> g[i]]
    BY <1>5
  <2> HIDE DEF n
  <2> QED BY <2>1, <2>2
<1>9. Is(w)
  <2> HIDE DEF Is
  <2> QED BY <1>8
<1>10. PathOf(names) = IF names = <<>> THEN <<"/">> ELSE w[n]
  BY DEF PathOf
<1> HIDE DEF w
<1>11. w = [i \in 0 .. n |-> PathTo(w, names, i)]
  BY <1>9
<1> HIDE DEF Is
<1>12. \A i \in 0 .. n : w[i] = PathTo(w, names, i)
  BY <1>11
<1> DEFINE S == {i \in Nat : i <= n => w[i] = g[i]}
<1>13. 0 \in S
  <2>1. 0 \in 0 .. n
    BY <1>1
  <2>2. w[0] = g[0]
    BY <1>5, <1>7, <1>12, <2>1
  <2> QED BY <2>2
<1>14. ASSUME NEW i \in Nat, i \in S PROVE i + 1 \in S
  <2> SUFFICES ASSUME i + 1 <= n PROVE w[i + 1] = g[i + 1]
    OBVIOUS
  <2>1. i + 1 \in 0 .. n /\ i + 1 \in 1 .. n /\ i + 1 # 0 /\ (i + 1) - 1 = i /\ i <= n
    BY <1>1
  <2>2. w[i] = g[i]
    BY <1>14, <2>1
  <2>3. w[i + 1] = w[i] \o (<<"/">> \o names[i + 1])
    BY <1>7, <1>12, <2>1
  <2>4. g[i + 1] = g[i] \o (<<"/">> \o names[i + 1])
    BY <1>6, <2>1
  <2> QED BY <2>2, <2>3, <2>4
<1>15. w[n] = g[n]
  <2>1. n \in S
    <3> HIDE DEF S, n
    <3> QED BY <1>1, <1>13, <1>14, AllNumbers
  <2> QED BY <1>1, <2>1
<1>16. PathsFollow(g, names)
  BY <1>5, <1>6 DEF PathsFollow
<1> QED BY <1>5, <1>10, <1>15, <1>16 DEF V

\* The path of names, and of no names nothing.
LEMMA JoinedAre ==
  ASSUME NEW T, NEW names \in Seq(Seq(T)), NEW paths, PathsFollow(paths, names)
  PROVE  Joined(names) = paths[Len(names)]
<1>1. PICK g \in [0 .. Len(names) -> Seq(T \cup {"/"})] :
        /\ PathsFollow(g, names)
        /\ PathOf(names) = IF names = <<>> THEN <<"/">> ELSE g[Len(names)]
  BY PathsAre
<1> DEFINE S == {i \in Nat : i <= Len(names) => paths[i] = g[i]}
<1>2. Len(names) \in Nat
  OBVIOUS
<1>3. 0 \in S
  BY <1>1 DEF PathsFollow
<1>4. ASSUME NEW i \in Nat, i \in S PROVE i + 1 \in S
  <2> SUFFICES ASSUME i + 1 <= Len(names) PROVE paths[i + 1] = g[i + 1]
    OBVIOUS
  <2>1. i + 1 \in 1 .. Len(names) /\ (i + 1) - 1 = i /\ paths[i] = g[i]
    BY <1>2, <1>4
  <2> QED BY <1>1, <2>1 DEF PathsFollow
<1>5. Len(names) \in S
  <2> HIDE DEF S
  <2> QED BY <1>2, <1>3, <1>4, AllNumbers
<1>6. paths[Len(names)] = g[Len(names)]
  BY <1>2, <1>5
<1>7. names = <<>> => Len(names) = 0 /\ g[0] = <<>>
  BY <1>1 DEF PathsFollow
<1> QED BY <1>1, <1>6, <1>7 DEF Joined

LEMMA JoinedGrows ==
  ASSUME NEW T, NEW names \in Seq(Seq(T)), NEW c \in Seq(T)
  PROVE  /\ Joined(Append(names, c)) = Joined(names) \o (<<"/">> \o c)
         /\ Joined(names) \in Seq(T \cup {"/"})
<1> DEFINE n == Len(names)
           more == Append(names, c)
<1>1. PICK g \in [0 .. n -> Seq(T \cup {"/"})] : PathsFollow(g, names)
  BY PathsAre
<1>2. n \in Nat /\ more \in Seq(Seq(T)) /\ Len(more) = n + 1 /\ more[n + 1] = c
      /\ \A i \in 1 .. n : more[i] = names[i]
  OBVIOUS
<1>3. PICK h \in [0 .. n + 1 -> Seq(T \cup {"/"})] : PathsFollow(h, more)
  <2> HIDE DEF more
  <2> QED BY <1>2, PathsAre
<1>4. PathsFollow(h, names)
  <2>1. \A i \in 1 .. n : i \in 1 .. n + 1
    BY <1>2
  <2> QED BY <1>2, <1>3, <2>1 DEF PathsFollow
<1> HIDE DEF more
<1>5. Joined(names) = h[n] /\ Joined(more) = h[n + 1]
  BY <1>2, <1>3, <1>4, JoinedAre
<1>6. n + 1 \in 1 .. n + 1 /\ (n + 1) - 1 = n /\ n \in 0 .. n + 1
  BY <1>2
<1>7. h[n + 1] = h[n] \o (<<"/">> \o c)
  BY <1>2, <1>3, <1>6 DEF PathsFollow
<1>8. h[n] \in Seq(T \cup {"/"})
  BY <1>3, <1>6
<1> QED BY <1>5, <1>7, <1>8 DEF more

LEMMA Regrouped ==
  ASSUME NEW S, NEW s \in Seq(S), NEW t \in Seq(S), NEW u \in Seq(S)
  PROVE  Regroups(s, t, u)
BY ConcatAssociative DEF Regroups

\* A component more, or a character more in the last one, is as much more of the
\* path.
LEMMA LongerJoined ==
  ASSUME NEW T, "/" \notin T, NEW before \in Seq(Names0(T)), before # <<>>, NEW c \in T
  PROVE  Joined(LongerLast(before, c)) = Append(Joined(before), c)
<1>1. PICK front \in Seq(Names0(T)), name \in Names0(T) : before = Append(front, name)
  BY SequenceEmptyOrAppend
<1> DEFINE n == Len(before)
           S == T \cup {"/"}
<1>2. n = Len(front) + 1 /\ before[n] = name /\ name \in Seq(T) /\ n \in 1 .. Len(before)
  BY <1>1 DEF Names0
<1>3. Append(name, c) \in Seq(T) /\ Append(name, c) = name \o <<c>> /\ Append(name, c) # <<>>
  BY <1>2, AppendIsConcat, AppendProperties
<1> DEFINE e == Append(name, c)
<1>4. LongerLast(before, c) = [before EXCEPT ![n] = e]
  BY <1>2 DEF LongerLast
<1>5. front \in Seq(Seq(T)) /\ before \in Seq(Seq(T))
  BY DEF Names0
<1> HIDE DEF e
<1>6. LongerLast(before, c) = Append(front, e)
  <2>1. /\ LongerLast(before, c) \in Seq(Seq(T)) /\ Len(LongerLast(before, c)) = n
        /\ \A j \in 1 .. n : LongerLast(before, c)[j] = IF j = n THEN e ELSE before[j]
    BY <1>2, <1>3, <1>4, <1>5, ExceptSeq DEF e
  <2>2. /\ Append(front, e) \in Seq(Seq(T)) /\ Len(Append(front, e)) = n
        /\ \A j \in 1 .. Len(front) : Append(front, e)[j] = front[j]
        /\ Append(front, e)[n] = e
    BY <1>2, <1>3, <1>5, AppendProperties DEF e
  <2>3. \A j \in 1 .. n : LongerLast(before, c)[j] = Append(front, e)[j]
    <3>1. \A j \in 1 .. Len(front) : before[j] = front[j]
      BY <1>1
    <3>2. \A j \in 1 .. n : j = n \/ j \in 1 .. Len(front)
      BY <1>2
    <3>3. \A j \in 1 .. Len(front) : j # n
      BY <1>2
    <3> HIDE DEF n
    <3> QED BY <2>1, <2>2, <3>1, <3>2, <3>3
  <2> HIDE DEF n
  <2> QED BY <2>1, <2>2, <2>3, SeqEqual
<1>7. /\ Joined(Append(front, e)) = Joined(front) \o (<<"/">> \o e)
      /\ Joined(Append(front, name)) = Joined(front) \o (<<"/">> \o name)
      /\ Joined(front) \in Seq(S)
  BY <1>2, <1>3, <1>5, JoinedGrows DEF e
<1>8. name \in Seq(S) /\ <<c>> \in Seq(S) /\ <<"/">> \in Seq(S) /\ c \in S
  BY <1>2
<1> HIDE DEF S
<1>9. /\ <<"/">> \o name \in Seq(S) /\ <<"/">> \o (name \o <<c>>) = (<<"/">> \o name) \o <<c>>
      /\ Joined(front) \o ((<<"/">> \o name) \o <<c>>) = (Joined(front) \o (<<"/">> \o name)) \o <<c>>
  <2>1. <<"/">> \o name \in Seq(S)
    BY <1>8, ConcatProperties
  <2>2. (<<"/">> \o name) \o <<c>> = <<"/">> \o (name \o <<c>>)
    BY <1>8, Regrouped DEF Regroups
  <2>3. (Joined(front) \o (<<"/">> \o name)) \o <<c>> = Joined(front) \o ((<<"/">> \o name) \o <<c>>)
    <3>1. Regroups(Joined(front), <<"/">> \o name, <<c>>)
      BY <1>7, <1>8, <2>1, Regrouped
    <3> QED BY <3>1 DEF Regroups
  <2> QED BY <2>1, <2>2, <2>3
<1>10. Joined(before) = Joined(front) \o (<<"/">> \o name) /\ Joined(before) \in Seq(S)
  BY <1>1, <1>7, <1>9, ConcatProperties
<1>11. Append(Joined(before), c) = Joined(before) \o <<c>>
  BY <1>8, <1>10, AppendIsConcat
<1> QED BY <1>3, <1>6, <1>7, <1>9, <1>10, <1>11 DEF e

\* A pattern is the path of its components.
LEMMA PathOfComponents ==
  ASSUME NEW p, PatternIsLegal(p), PatternIsWhole(p)
  PROVE  /\ Components(p) \in Seq(Names0(Tokens(p)))
         /\ PathOf(Components(p)) = p
<1> DEFINE T == Tokens(p)
           S == ToSet(p)
           n == Len(p)
<1>1. p \in Seq(S) /\ n \in Nat \ {0} /\ DOMAIN p = 1 .. n /\ p[1] = "/" /\ \A i \in 1 .. n : p[i] \in S
  BY DEF PatternIsLegal, ToSet
<1>2. PICK parts \in [0 .. n -> Seq(Names0(T))] : PartsFollow(parts, p) /\ Components(p) = parts[n]
  BY <1>1, ComponentsAre
<1>3. \A i \in 1 .. n : p[i] = "/" => n = 1 \/ (i < n /\ p[i + 1] # "/")
  BY <1>1 DEF PatternIsWhole
<1>4. T \cup {"/"} = S /\ "/" \notin T /\ \A i \in 1 .. n : p[i] # "/" => p[i] \in T
  BY <1>1 DEF Tokens, ToSet
<1> HIDE DEF T, S
<1> DEFINE Upto(i) == SubSeq(p, 1, i)
           Right(i) == Joined(parts[i]) = IF i > 0 /\ p[i] = "/" THEN Upto(i - 1) ELSE Upto(i)
           R == {i \in Nat : i <= n => Right(i)}
<1>5. Upto(0) = <<>> /\ \A i \in 1 .. n : Upto(i) = Append(Upto(i - 1), p[i]) /\ Upto(i - 1) \in Seq(S)
  <2>1. Upto(0) = <<>>
    BY SubSeqEmpty
  <2>2. ASSUME NEW i \in 1 .. n PROVE Upto(i) = Append(Upto(i - 1), p[i]) /\ Upto(i - 1) \in Seq(S)
    <3>1. 1 \in 1 .. n /\ 1 \in Int /\ i - 1 \in Int /\ \A j \in 1 .. i - 1 : p[j] \in S
      BY <1>1
    <3>2. Upto(i - 1) \in Seq(S)
      BY <3>1, SubSeqProperties
    <3>3. Upto(i) = Upto(i - 1) \o <<p[i]>>
      BY <1>1, <3>1, SubSeqRecursiveSecond
    <3> HIDE DEF Upto
    <3>4. Append(Upto(i - 1), p[i]) = Upto(i - 1) \o <<p[i]>>
      BY <1>1, <3>2, AppendIsConcat
    <3> QED BY <3>2, <3>3, <3>4
  <2> QED BY <2>1, <2>2
<1> HIDE DEF Upto
<1>6. 0 \in R
  <2>1. parts[0] = <<>> /\ Joined(<<>>) = <<>>
    BY <1>2 DEF PartsFollow, Joined
  <2> QED BY <1>5, <2>1
<1>7. ASSUME NEW i \in Nat, i \in R PROVE i + 1 \in R
  <2> SUFFICES ASSUME i + 1 <= n PROVE Right(i + 1)
    OBVIOUS
  <2>1. /\ i \in 0 .. n /\ i + 1 \in 1 .. n /\ (i + 1) - 1 = i /\ i + 1 > 0 /\ i < n
        /\ i # 0 => i \in 1 .. n /\ i > 0
        /\ i + 1 = 1 <=> i = 0
    BY <1>1
  <2>2. Right(i)
    BY <1>7, <2>1
  <2>3. parts[i] \in Seq(Names0(T)) /\ parts[i] \in Seq(Seq(T))
    BY <1>2, <2>1 DEF Names0
  <2>4. parts[i + 1] = NextParts(parts[i], p, i + 1)
    BY <1>2, <2>1 DEF PartsFollow
  <2>5. Upto(i + 1) = Append(Upto(i), p[i + 1]) /\ Upto(i) \in Seq(S)
    BY <1>5, <2>1
  <2>6. CASE p[i + 1] = "/"
    <3>1. i = 0 \/ (i # 0 /\ p[i] # "/")
      BY <1>3, <2>1, <2>6
    <3>2. Joined(parts[i]) = Upto(i)
      BY <2>2, <3>1
    <3>3. parts[i + 1] = parts[i]
      BY <2>4, <2>6 DEF NextParts
    <3> QED BY <2>1, <2>6, <3>2, <3>3
  <2>7. CASE p[i + 1] # "/" /\ p[i] = "/"
    <3>1. i # 0 /\ p[i + 1] \in T
      BY <1>1, <1>4, <2>1, <2>7
    <3>2. Joined(parts[i]) = Upto(i - 1) /\ Upto(i) = Append(Upto(i - 1), "/") /\ Upto(i - 1) \in Seq(S)
      BY <1>5, <2>1, <2>2, <2>7, <3>1
    <3>3. parts[i + 1] = Append(parts[i], <<p[i + 1]>>)
      BY <2>1, <2>4, <2>7, <3>1 DEF NextParts
    <3>4. <<p[i + 1]>> \in Seq(T)
      BY <3>1
    <3>5. Joined(parts[i + 1]) = Upto(i - 1) \o (<<"/">> \o <<p[i + 1]>>)
      BY <2>3, <3>2, <3>3, <3>4, JoinedGrows
    <3>6. "/" \in S /\ p[i + 1] \in S
      BY <1>4, <3>1
    <3>7. Append(Upto(i), p[i + 1]) = (Upto(i - 1) \o <<"/">>) \o <<p[i + 1]>>
      BY <2>5, <3>2, <3>6, AppendIsConcat
    <3>8. <<"/">> \in Seq(S) /\ <<p[i + 1]>> \in Seq(S)
      BY <3>6
    <3> DEFINE slash == <<"/">>
               c == <<p[i + 1]>>
    <3>9. slash \in Seq(S) /\ c \in Seq(S)
      BY <3>8
    <3>10. /\ Joined(parts[i + 1]) = Upto(i - 1) \o (slash \o c)
           /\ Upto(i + 1) = (Upto(i - 1) \o slash) \o c
      BY <2>5, <3>5, <3>7
    <3> HIDE DEF slash, c
    <3>11. (Upto(i - 1) \o slash) \o c = Upto(i - 1) \o (slash \o c)
      <4>1. Regroups(Upto(i - 1), slash, c)
        BY <3>2, <3>9, Regrouped
      <4> QED BY <4>1 DEF Regroups
    <3>12. Joined(parts[i + 1]) = Upto(i + 1)
      BY <3>10, <3>11
    <3> QED BY <2>7, <3>12
  <2>8. CASE p[i + 1] # "/" /\ p[i] # "/"
    <3>1. i # 0
      BY <1>1, <2>8
    <3>2. Joined(parts[i]) = Upto(i) /\ Upto(i) # <<>>
      <4>1. Joined(parts[i]) = Upto(i)
        BY <2>2, <2>8
      <4>2. Upto(i) = Append(Upto(i - 1), p[i]) /\ Upto(i - 1) \in Seq(S) /\ p[i] \in S
        BY <1>1, <1>5, <2>1, <3>1
      <4> QED BY <4>1, <4>2, AppendProperties
    <3>3. parts[i] # <<>> /\ p[i + 1] \in T
      BY <1>4, <2>1, <2>8, <3>2 DEF Joined
    <3>4. parts[i + 1] = LongerLast(parts[i], p[i + 1])
      BY <2>1, <2>4, <2>8, <3>1 DEF NextParts
    <3>5. Joined(parts[i + 1]) = Append(Upto(i), p[i + 1])
      BY <1>4, <2>3, <3>2, <3>3, <3>4, LongerJoined
    <3> QED BY <2>5, <2>8, <3>5
  <2> QED BY <2>6, <2>7, <2>8
<1>8. Right(n)
  <2>1. n \in R
    <3> HIDE DEF R, n
    <3> QED BY <1>1, <1>6, <1>7, AllNumbers
  <2> QED BY <1>1, <2>1
<1>9. Upto(n) = p /\ n > 0 /\ n \in 1 .. n
  BY <1>1, SubSeqFull DEF Upto
<1>10. Components(p) \in Seq(Names0(T))
  BY <1>2, <1>9
<1>11. CASE p[n] = "/"
  <2>1. n = 1
    BY <1>3, <1>9, <1>11
  <2>2. parts[1] = <<>>
    <3>1. parts[1] = NextParts(parts[0], p, 1) /\ parts[0] = <<>>
      <4>1. 1 \in 1 .. n /\ 1 - 1 = 0
        BY <1>1
      <4> QED BY <1>2, <4>1 DEF PartsFollow
    <3> QED BY <1>1, <3>1 DEF NextParts
  <2>3. p = <<"/">>
    BY <1>1, <2>1
  <2> QED BY <1>2, <1>10, <2>1, <2>2, <2>3 DEF PathOf, T
<1>12. CASE p[n] # "/"
  <2>1. Joined(parts[n]) = p
    BY <1>8, <1>9, <1>12
  <2>2. p # <<>>
    BY DEF PatternIsLegal
  <2> QED BY <1>2, <1>10, <2>1, <2>2 DEF Joined, T
<1> QED BY <1>11, <1>12

----------------------------------------------------------------------------
(* The walk *)

\* What scripts register, and the components of that.
LEMMA ScriptFacts ==
  ASSUME NEW p \in Scripts
  PROVE  /\ p \in Patterns /\ PatternIsLegal(p) /\ PatternIsWhole(p)
         /\ ToSet(p) \cap Globs = {}
<1>1. PICK s \in ScriptPatterns : p = ConvertGlobPattern(s)
  BY DEF Scripts
<1>2. p \in Patterns /\ PatternIsWhole(p)
  BY <1>1, ScriptsAssumption
<1>3. PatternIsLegal(p)
  BY <1>2, PatternsAssumption
<1>4. ASSUME NEW t \in ToSet(p), t \in Globs PROVE FALSE
  <2>1. PICK i \in DOMAIN p : t = p[i]
    BY DEF ToSet
  <2>2. DOMAIN p = DOMAIN s
    BY <1>1 DEF ConvertGlobPattern
  <2>3. p[i] = IF s[i] \in Globs \/ (s[i] = Star /\ i < Len(s)) THEN GlobRegexp[s[i]] ELSE s[i]
    BY <1>1, <2>2 DEF ConvertGlobPattern
  <2>4. p[i] \in Regexps \/ p[i] \notin Globs
    BY <2>3, GlobsAssumption
  <2> QED BY <1>4, <2>1, <2>4, GlobsAssumption DEF Wild
<1> QED BY <1>2, <1>3, <1>4

LEMMA ComponentTypes ==
  ASSUME NEW p \in Scripts
  PROVE  /\ Components(p) \in Seq(Comps) /\ PathOf(Components(p)) = p
         /\ \A i \in 1 .. Len(Components(p)) :
              /\ Components(p)[i] \in Comps
              /\ ToSet(Components(p)[i]) \subseteq ToSet(p) \ {"/"}
<1>1. Components(p) \in Seq(Names0(Tokens(p))) /\ PathOf(Components(p)) = p
  BY ScriptFacts, PathOfComponents
<1> DEFINE C == Components(p)
<1> HIDE DEF C
<1>2. \A i \in 1 .. Len(C) : C[i] \in Names0(Tokens(p))
  BY <1>1 DEF C
<1>3. \A c \in Names0(Tokens(p)) : c \in Comps /\ ToSet(c) \subseteq Tokens(p)
  <2>1. Tokens(p) \subseteq AllTokens
    <3>1. p \in Patterns
      BY ScriptFacts
    <3>2. \A t \in Tokens(p) : t \in ToSet(p) /\ t # "/"
      BY DEF Tokens
    <3>3. \A t \in ToSet(p) : t # "/" => t \in AllTokens
      <4> SUFFICES ASSUME NEW t \in ToSet(p), t # "/" PROVE t \in AllTokens
        OBVIOUS
      <4>1. t \in UNION {ToSet(q) : q \in Patterns}
        BY <3>1
      <4> QED BY <4>1 DEF AllTokens
    <3> QED BY <3>2, <3>3
  <2> SUFFICES ASSUME NEW c \in Seq(Tokens(p)), c # <<>>
               PROVE  c \in Seq(AllTokens) /\ ToSet(c) \subseteq Tokens(p)
    BY DEF Names0, Comps
  <2>2. \A i \in 1 .. Len(c) : c[i] \in Tokens(p)
    OBVIOUS
  <2>3. ToSet(c) \subseteq Tokens(p)
    BY <2>2 DEF ToSet
  <2>4. c \in Seq(AllTokens)
    BY <2>1
  <2> QED BY <2>3, <2>4
<1>4. C \in Seq(Comps)
  <2>1. Names0(Tokens(p)) \subseteq Comps
    BY <1>3
  <2> QED BY <1>1, <2>1 DEF C
<1> QED BY <1>1, <1>2, <1>3, <1>4 DEF C, Tokens

\* The nodes are the ways to the components of the routes.
LEMMA NodesAre ==
  ASSUME mounted \subseteq Ops \X Scripts
  PROVE  /\ <<>> \in Nodes
         /\ \A n \in Nodes : n \in Seq(Comps) /\ Len(n) \in Nat
         /\ \A r \in mounted : \A k \in 0 .. Len(Components(r[2])) :
              SubSeq(Components(r[2]), 1, k) \in Nodes
         /\ \A n \in Nodes : n = <<>> \/ \E r \in mounted : \E k \in 1 .. Len(Components(r[2])) :
              n = SubSeq(Components(r[2]), 1, k)
<1>1. ASSUME NEW r \in mounted PROVE Components(r[2]) \in Seq(Comps)
  <2>1. r[2] \in Scripts
    OBVIOUS
  <2> QED BY <2>1, ComponentTypes
<1>2. \A n \in Nodes : n = <<>> \/ \E r \in mounted : \E k \in 1 .. Len(Components(r[2])) :
        n = SubSeq(Components(r[2]), 1, k)
  BY DEF Nodes
<1>3. <<>> \in Nodes
  BY DEF Nodes
<1>4. ASSUME NEW r \in mounted, NEW k \in 0 .. Len(Components(r[2]))
      PROVE  SubSeq(Components(r[2]), 1, k) \in Nodes
  <2>1. CASE k = 0
    <3>1. SubSeq(Components(r[2]), 1, k) = <<>>
      BY <2>1, SubSeqEmpty
    <3> QED BY <1>3, <3>1
  <2>2. CASE k # 0
    <3>1. k \in 1 .. Len(Components(r[2]))
      BY <1>1, <2>2
    <3> QED BY <3>1 DEF Nodes
  <2> QED BY <2>1, <2>2
<1>5. ASSUME NEW n \in Nodes PROVE n \in Seq(Comps)
  <2>1. CASE n = <<>>
    BY <2>1
  <2>2. ASSUME NEW r \in mounted, NEW k \in 1 .. Len(Components(r[2])),
               n = SubSeq(Components(r[2]), 1, k)
        PROVE  n \in Seq(Comps)
    <3> DEFINE C == Components(r[2])
    <3> HIDE DEF C
    <3>1. C \in Seq(Comps) /\ k \in 1 .. Len(C) /\ n = SubSeq(C, 1, k)
      BY <1>1, <2>2 DEF C
    <3>2. \A i \in 1 .. k : C[i] \in Comps
      BY <3>1
    <3>3. 1 \in Int /\ k \in Int
      OBVIOUS
    <3> QED BY <3>1, <3>2, <3>3, SubSeqProperties
  <2> QED BY <1>2, <2>1, <2>2
<1>6. \A n \in Nodes : Len(n) \in Nat
  BY <1>5
<1> QED BY <1>2, <1>3, <1>4, <1>5, <1>6

\* A child is its node and one component more.
LEMMA ChildFacts ==
  ASSUME mounted \subseteq Ops \X Scripts, NEW n \in Nodes, NEW child \in Children(n)
  PROVE  /\ child \in Nodes /\ child \in Seq(Comps) /\ Len(child) = Len(n) + 1
         /\ SubSeq(child, 1, Len(n)) = n /\ SubSeq(child, 1, Len(child)) = child
         /\ \A i \in 0 .. Len(n) : SubSeq(child, 1, i) = SubSeq(n, 1, i)
         /\ Last(child) = child[Len(n) + 1] /\ Last(child) \in Comps
<1>1. n \in Seq(Comps) /\ Len(n) \in Nat
  BY NodesAre
<1>2. child \in Nodes /\ Len(child) = Len(n) + 1 /\ IsPrefix(n, child)
  BY DEF Children
<1>3. child \in Seq(Comps)
  BY <1>2, NodesAre
<1>4. SubSeq(child, 1, Len(n)) = n /\ SubSeq(child, 1, Len(child)) = child
  <2>1. SubSeq(n, 1, Len(n)) = SubSeq(child, 1, Len(n))
    BY <1>2 DEF IsPrefix
  <2>2. SubSeq(n, 1, Len(n)) = n /\ SubSeq(child, 1, Len(child)) = child
    BY <1>1, <1>3, SubSeqFull
  <2> QED BY <2>1, <2>2
<1>5. ASSUME NEW i \in 0 .. Len(n) PROVE SubSeq(child, 1, i) = SubSeq(n, 1, i)
  <2>1. \A j \in 1 .. Len(n) : n[j] = child[j]
    <3>1. \A j \in 1 .. Len(n) : child[j] \in Comps
      BY <1>1, <1>2, <1>3
    <3>2. \A j \in 1 .. Len(n) - 1 + 1 : SubSeq(child, 1, Len(n))[j] = child[1 + j - 1]
      <4>1. 1 \in Int /\ Len(n) \in Int
        BY <1>1
      <4> QED BY <3>1, <4>1, SubSeqProperties
    <3>3. \A j \in 1 .. Len(n) : j \in 1 .. Len(n) - 1 + 1 /\ 1 + j - 1 = j
      BY <1>1
    <3> QED BY <1>4, <3>2, <3>3
  <2>2. \A j \in 1 .. i : j \in 1 .. Len(n)
    BY <1>1
  <2>3. \A j \in 1 .. i : n[j] = child[j]
    BY <2>1, <2>2
  <2> QED BY <1>1, <1>2, <1>3, <2>3
<1>6. Last(child) = child[Len(n) + 1] /\ Last(child) \in Comps
  BY <1>1, <1>2, <1>3 DEF Last
<1> QED BY <1>2, <1>3, <1>4, <1>5, <1>6

\* The search of a node's child, here and for the whole tree.
LEMMA FirstIs ==
  ASSUME NEW a, NEW b, NEW c, NEW d
  PROVE  FirstNonEmpty(<<a, b, c, d>>) =
           IF a # {} THEN a ELSE IF b # {} THEN b ELSE IF c # {} THEN c ELSE d
<1> DEFINE sets == <<a, b, c, d>>
           k == {i \in DOMAIN sets : sets[i] # {}}
           First(i) == i \in k /\ \A j \in k : i <= j
           first == CHOOSE i \in k : \A j \in k : i <= j
<1>1. DOMAIN sets = {1, 2, 3, 4} /\ sets[1] = a /\ sets[2] = b /\ sets[3] = c /\ sets[4] = d
  OBVIOUS
<1>2. FirstNonEmpty(sets) = IF k = {} THEN {} ELSE sets[first]
  BY DEF FirstNonEmpty
<1>3. ASSUME NEW i, First(i) PROVE k # {} /\ sets[first] = sets[i]
  <2>1. k \subseteq {1, 2, 3, 4}
    BY <1>1
  <2>2. i \in k /\ \A j \in k : i <= j
    BY <1>3
  <2>3. first \in k /\ \A j \in k : first <= j
    <3> HIDE DEF k
    <3> QED BY <2>2
  <2>4. first \in {1, 2, 3, 4} /\ i \in {1, 2, 3, 4} /\ first <= i /\ i <= first
    BY <2>1, <2>2, <2>3
  <2>5. first = i
    BY <2>4
  <2> QED BY <2>2, <2>5
<1> HIDE DEF first
<1>4. CASE a # {}
  <2>1. First(1)
    BY <1>1, <1>4
  <2> QED BY <1>1, <1>2, <1>3, <1>4, <2>1
<1>5. CASE a = {} /\ b # {}
  <2>1. First(2)
    BY <1>1, <1>5
  <2> QED BY <1>1, <1>2, <1>3, <1>5, <2>1
<1>6. CASE a = {} /\ b = {} /\ c # {}
  <2>1. First(3)
    BY <1>1, <1>6
  <2> QED BY <1>1, <1>2, <1>3, <1>6, <2>1
<1>7. CASE a = {} /\ b = {} /\ c = {} /\ d # {}
  <2>1. First(4)
    BY <1>1, <1>7
  <2> QED BY <1>1, <1>2, <1>3, <1>7, <2>1
<1>8. CASE a = {} /\ b = {} /\ c = {} /\ d = {}
  <2>1. k = {}
    BY <1>1, <1>8
  <2> QED BY <1>2, <1>8, <2>1
<1> QED BY <1>4, <1>5, <1>6, <1>7, <1>8

\* A child with the name of a client is a plain one.
LEMMA NamesArePlain ==
  ASSUME NEW name \in Names
  PROVE  /\ Kind(name) = "plain" /\ Len(name) \in Nat \ {0} /\ name \in Seq(ToSet(name))
         /\ \A i \in 1 .. Len(name) : name[i] # "/" /\ name[i] \notin Wild
<1>1. name \in Seq(ToSet(name)) /\ name # <<>> /\ ToSet(name) \cap ({"/"} \cup Wild \cup Globs) = {}
  BY NamesAssumption
<1>2. Len(name) \in Nat \ {0} /\ \A i \in 1 .. Len(name) : name[i] \in ToSet(name)
  BY <1>1 DEF ToSet
<1>3. name # <<Star>>
  <2>1. name[1] # Star
    <3>1. name[1] \in ToSet(name)
      BY <1>2
    <3> QED BY <1>1, <3>1 DEF Wild
  <2> QED BY <2>1
<1>4. ToSet(name) \cap ({Star} \cup Globs \cup Starred) = {}
  BY <1>1, GlobsAssumption DEF Wild
<1>5. Head(name) \in ToSet(name)
  <2>1. Head(name) = name[1]
    BY <1>1
  <2> QED BY <1>2, <2>1
<1>6. ~({Head(name), Last(name)} \subseteq Params \cup Regexps)
  BY <1>1, <1>5 DEF Wild
<1>7. Kind(name) = "plain"
  BY <1>3, <1>4, <1>6 DEF Kind
<1> QED BY <1>1, <1>2, <1>7

\* For the names of clients both searches look for the same children.
LEMMA FindChildIs ==
  ASSUME NEW n, NEW name \in Names
  PROVE  /\ NextNodes(n, name) = FindChild(n, name)
         /\ \A child \in FindChild(n, name) :
              /\ child \in Children(n)
              /\ \/ Kind(Last(child)) = "plain" /\ Last(child) = name
                 \/ Kind(Last(child)) = "glob" /\ ComponentMatches(Last(child), name)
                 \/ Kind(Last(child)) \in {"param", "wildcard"}
<1> DEFINE A == {c \in ChildrenOf(n, "plain") : Last(c) = name}
           B == {c \in ChildrenOf(n, "glob") : ComponentMatches(Last(c), name)}
           C == {c \in ChildrenOf(n, "param") : Last(c) # name}
           D == ChildrenOf(n, "wildcard")
<1>1. Kind(name) = "plain"
  BY NamesArePlain
<1>2. {c \in Children(n) : Last(c) = name} = A
  BY <1>1 DEF ChildrenOf
<1>3. ChildrenOf(n, "param") = C
  BY <1>1 DEF ChildrenOf
<1>4. NextNodes(n, name) = FirstNonEmpty(<<A, B, C, D>>)
  BY <1>2, <1>3 DEF NextNodes
<1>5. FindChild(n, name) = FirstNonEmpty(<<A, B, C, D>>)
  BY DEF FindChild
<1>6. \A x \in A \cup B \cup C \cup D :
        /\ x \in Children(n)
        /\ \/ Kind(Last(x)) = "plain" /\ Last(x) = name
           \/ Kind(Last(x)) = "glob" /\ ComponentMatches(Last(x), name)
           \/ Kind(Last(x)) \in {"param", "wildcard"}
  BY DEF ChildrenOf
<1>7. FirstNonEmpty(<<A, B, C, D>>) = IF A # {} THEN A ELSE IF B # {} THEN B ELSE IF C # {} THEN C ELSE D
  <2> HIDE DEF A, B, C, D
  <2> QED BY FirstIs
<1> HIDE DEF A, B, C, D
<1>8. FirstNonEmpty(<<A, B, C, D>>) \subseteq A \cup B \cup C \cup D
  BY <1>7
<1> QED BY <1>4, <1>5, <1>6, <1>8

\* The routes of a tree are registered patterns.
LEMMA ListedScripts ==
  ASSUME RadixInv(tree, registered), registered \in Seq(Ops \X Scripts)
  PROVE  ListedRoutes \subseteq Ops \X Scripts
<1> SUFFICES ASSUME NEW op \in Ops, NEW p \in Listed(op) PROVE p \in Scripts
  BY DEF ListedRoutes
<1>1. p \in Registered(op)
  BY ListsThem DEF ListsEveryRoute
<1>2. PICK i \in DOMAIN registered : p = registered[i][2]
  BY <1>1 DEF Registered, Routes
<1>3. registered[i] \in Ops \X Scripts
  BY <1>2
<1> QED BY <1>2, <1>3

\* A lookup goes on with the walk by one name.
LEMMA WalkGrows ==
  ASSUME mounted \subseteq Ops \X Scripts, NEW path \in Seq(Names), NEW n, Walked(n, path),
         NEW name \in Names, NEW child \in FindChild(n, name)
  PROVE  Walked(child, Append(path, name))
<1> DEFINE more == Append(path, name)
<1>1. n \in Nodes /\ n \in Seq(Comps) /\ Len(n) = Len(path) /\ Len(n) \in Nat
  BY NodesAre DEF Walked
<1>2. child \in Children(n)
  BY <1>1, FindChildIs
<1>3. /\ child \in Nodes /\ Len(child) = Len(n) + 1
      /\ SubSeq(child, 1, Len(n)) = n /\ SubSeq(child, 1, Len(child)) = child
      /\ \A i \in 0 .. Len(n) : SubSeq(child, 1, i) = SubSeq(n, 1, i)
  BY <1>1, <1>2, ChildFacts
<1>4. Len(more) = Len(path) + 1 /\ more[Len(path) + 1] = name /\ \A i \in 1 .. Len(path) : more[i] = path[i]
  OBVIOUS
<1> HIDE DEF more
<1>5. ASSUME NEW i \in 1 .. Len(child)
      PROVE  SubSeq(child, 1, i) \in FindChild(SubSeq(child, 1, i - 1), more[i])
  <2>1. CASE i = Len(n) + 1
    <3>1. SubSeq(child, 1, i) = child /\ SubSeq(child, 1, i - 1) = n /\ more[i] = name
      <4>1. i = Len(child) /\ i - 1 = Len(n) /\ i = Len(path) + 1
        BY <1>1, <1>3, <2>1
      <4> QED BY <1>3, <1>4, <4>1
    <3> QED BY <3>1
  <2>2. CASE i # Len(n) + 1
    <3>1. i \in 1 .. Len(n) /\ i \in 0 .. Len(n) /\ i - 1 \in 0 .. Len(n) /\ i \in 1 .. Len(path)
      BY <1>1, <1>3, <2>2
    <3>2. SubSeq(n, 1, i) \in FindChild(SubSeq(n, 1, i - 1), path[i])
      BY <3>1 DEF Walked
    <3> QED BY <1>3, <1>4, <3>1, <3>2
  <2> QED BY <2>1, <2>2
<1>6. Len(child) = Len(more)
  BY <1>1, <1>3, <1>4
<1> QED BY <1>3, <1>5, <1>6 DEF Walked, more

LEMMA WalkInvFirst == InitTree => WalkInv
<1> SUFFICES ASSUME InitTree PROVE WalkInv
  OBVIOUS
<1>1. registered = <<>> /\ mounted = {} /\ at = NotMounted
  BY DEF InitTree, Init
<1>2. at.path = <<>> /\ at.virtual = "unmounted" /\ IsAt
  BY <1>1 DEF NotMounted, Root, IsAt
<1>3. <<>> \in Seq(Names) /\ <<>> \in Seq(Ops \X Scripts)
  OBVIOUS
<1> QED BY <1>1, <1>2, <1>3 DEF WalkInv

\* What is mounted stays, and with it the tree and its searches.
LEMMA MountedStays ==
  ASSUME mounted' = mounted
  PROVE  \A n, path : Walked(n, path) => Walked(n, path)'
<1>1. Nodes' = Nodes
  BY DEF Nodes
<1>2. \A n : Children(n)' = Children(n)
  BY <1>1 DEF Children
<1>3. \A n, kind : ChildrenOf(n, kind)' = ChildrenOf(n, kind)
  BY <1>2 DEF ChildrenOf
<1>4. \A n, name : FindChild(n, name)' = FindChild(n, name)
  BY <1>3 DEF FindChild
<1> QED BY <1>1, <1>4 DEF Walked

LEMMA WalkInvNext ==
  ASSUME RadixInv(tree, registered), WalkInv, [NextTree]_tvars
  PROVE  WalkInv'
<1>1. /\ registered \in Seq(Ops \X Scripts) /\ mounted \subseteq Ops \X Scripts
      /\ mounted = IF at.virtual = "unmounted" THEN {} ELSE ListedRoutes
      /\ IsAt /\ at.path \in Seq(Names)
      /\ at.virtual = "no" => Walked(at.node, at.path)
  BY DEF WalkInv
<1>2. /\ NotMounted.virtual = "unmounted"
      /\ Root.path = <<>> /\ Root.node = <<>> /\ Root.virtual = "no"
      /\ Root = [path |-> <<>>, node |-> <<>>, virtual |-> "no", params |-> <<>>]
  BY DEF NotMounted, Root
<1>3. UNCHANGED <<tree, registered>> => ListedRoutes' = ListedRoutes
  <2> SUFFICES ASSUME tree' = tree PROVE ListedRoutes' = ListedRoutes
    OBVIOUS
  <2>1. \A op : Listed(op)' = Listed(op)
    BY DEF Listed
  <2> QED BY <2>1 DEF ListedRoutes
<1>4. ASSUME NEW op \in Ops, NEW p \in ScriptPatterns, RegisterRoute(op, p) PROVE WalkInv'
  <2>1. /\ at = NotMounted /\ mounted' = mounted /\ at' = at
        /\ registered' = Append(registered, <<op, ConvertGlobPattern(p)>>)
    BY <1>4 DEF RegisterRoute, Register
  <2>2. <<op, ConvertGlobPattern(p)>> \in Ops \X Scripts
    BY DEF Scripts
  <2>3. registered' \in Seq(Ops \X Scripts)
    BY <1>1, <2>1, <2>2
  <2>4. at'.virtual = "unmounted" /\ mounted' = {}
    BY <1>1, <1>2, <2>1
  <2>5. IsAt' /\ at'.path \in Seq(Names)
    BY <1>1, <2>1 DEF IsAt
  <2> QED BY <2>3, <2>4, <2>5 DEF WalkInv
<1>5. CASE Mount
  <2>1. mounted' = ListedRoutes /\ at' = Root /\ UNCHANGED <<tree, registered>>
    BY <1>5 DEF Mount
  <2>2. mounted' \subseteq Ops \X Scripts
    BY <1>1, <2>1, ListedScripts
  <2>3. at'.virtual = "no" /\ at'.path = <<>> /\ at'.node = <<>> /\ IsAt'
    BY <1>2, <2>1 DEF IsAt
  <2>4. Walked(<<>>, <<>>)'
    <3>1. <<>> \in Nodes'
      BY DEF Nodes
    <3>2. Len(<<>>) = 0 /\ \A i \in 1 .. 0 : FALSE
      OBVIOUS
    <3> QED BY <3>1, <3>2 DEF Walked
  <2>5. <<>> \in Seq(Names)
    OBVIOUS
  <2>6. Walked(at.node, at.path)'
    BY <2>3, <2>4 DEF Walked
  <2> QED BY <1>1, <1>3, <2>1, <2>2, <2>3, <2>5, <2>6 DEF WalkInv
\* What is the same for all steps of the walk.
<1>6. ASSUME UNCHANGED <<tree, registered, mounted>>, at.virtual # "unmounted",
             at'.virtual # "unmounted", IsAt', at'.path \in Seq(Names),
             at'.virtual = "no" => Walked(at'.node, at'.path)
      PROVE  WalkInv'
  <2>1. mounted' = ListedRoutes'
    BY <1>1, <1>3, <1>6
  <2>2. at'.virtual = "no" => Walked(at.node, at.path)'
    <3> SUFFICES ASSUME at'.virtual = "no" PROVE Walked(at.node, at.path)'
      OBVIOUS
    <3> DEFINE n == at'.node
               path == at'.path
    <3>1. Walked(n, path)
      BY <1>6
    <3> HIDE DEF n, path
    <3> QED BY <1>6, <3>1, MountedStays DEF n, path
  <2> QED BY <1>1, <1>6, <2>1, <2>2 DEF WalkInv
<1>7. IsDir => at.virtual # "unmounted"
  BY DEF IsDir
<1>8. ASSUME NEW name \in Names, Lookup(name) PROVE WalkInv'
  <2>1. PICK child \in FoundHere(name) :
          at' = [path |-> Append(at.path, name), node |-> child, virtual |-> "no",
                 params |-> Captured(child, name)]
    BY <1>8 DEF Lookup
  <2>2. UNCHANGED <<tree, registered, mounted>> /\ at.virtual = "no" /\ child \in FindChild(at.node, name)
    BY <1>8, <2>1 DEF Lookup, FoundHere
  <2>3. at'.path = Append(at.path, name) /\ at'.node = child /\ at'.virtual = "no" /\ IsAt'
    BY <2>1 DEF IsAt
  <2>4. Walked(child, Append(at.path, name))
    BY <1>1, <2>2, WalkGrows
  <2>5. at'.path \in Seq(Names)
    BY <1>1, <2>3
  <2> QED BY <1>6, <2>2, <2>3, <2>4, <2>5
<1>9. ASSUME NEW name \in Names, NEW kind \in {"file", "dir"}, at' = Virtual(name, kind),
             IsDir, UNCHANGED <<tree, registered, mounted>>
      PROVE  WalkInv'
  <2>1. at'.path = Append(at.path, name) /\ at'.virtual = kind /\ IsAt'
    BY <1>1, <1>9 DEF Virtual, IsAt
  <2>2. at'.path \in Seq(Names)
    BY <1>1, <2>1
  <2> QED BY <1>6, <1>7, <1>9, <2>1, <2>2
<1>10. ASSUME NEW name \in Names, LookupListed(name) PROVE WalkInv'
  BY <1>9, <1>10 DEF LookupListed
<1>11. ASSUME NEW name \in Names, Create(name) PROVE WalkInv'
  BY <1>9, <1>11 DEF Create
<1>12. CASE UNCHANGED tvars
  <2>1. tree' = tree /\ registered' = registered /\ mounted' = mounted /\ at' = at
    BY <1>12 DEF tvars
  <2>2. ListedRoutes' = ListedRoutes
    BY <1>3, <2>1
  <2>3. at.virtual = "no" => Walked(at.node, at.path)'
    <3> SUFFICES ASSUME at.virtual = "no" PROVE Walked(at.node, at.path)'
      OBVIOUS
    <3> DEFINE n == at.node
               path == at.path
    <3>1. Walked(n, path) /\ n = at'.node /\ path = at'.path
      BY <1>1, <2>1
    <3>2. n' = n /\ path' = path
      BY <2>1
    <3> HIDE DEF n, path
    <3>3. Walked(n, path)'
      BY <2>1, <3>1, <3>2, MountedStays DEF Walked
    <3> QED BY <3>3 DEF n, path
  <2> QED BY <1>1, <2>1, <2>2, <2>3 DEF WalkInv, IsAt
<1> QED BY <1>4, <1>5, <1>8, <1>10, <1>11, <1>12 DEF NextTree

\* The tree of the routes, and the walk in it, whatever is registered and walked.
THEOREM WalksAreWalks == SpecTree => [](RadixInv(tree, registered) /\ WalkInv)
<1>1. SpecTree => []RadixInv(tree, registered)
  BY RegistryRegisters, TreeOfPatterns, PTL
<1>2. InitTree => WalkInv
  BY WalkInvFirst
<1>3. RadixInv(tree, registered) /\ WalkInv /\ [NextTree]_tvars => WalkInv'
  BY WalkInvNext
<1> QED BY <1>1, <1>2, <1>3, PTL DEF SpecTree

\* FindNode reaches what the walk reaches: for names that clients ask for its
\* order, any literal first, comes to the order of findChild (tree.go FindNode,
\* fuse/server.go findChild).
THEOREM FindNodeIsTheWalk == SpecTree => []FindNodeAgrees
<1>1. WalkInv => FindNodeAgrees
  <2> SUFFICES ASSUME WalkInv, at.virtual = "no" PROVE at.node \in FindNode(at.path)
    BY DEF FindNodeAgrees
  <2> DEFINE n == at.node
             path == at.path
  <2>1. Walked(n, path) /\ path \in Seq(Names) /\ mounted \subseteq Ops \X Scripts
    BY DEF WalkInv
  <2> HIDE DEF n, path
  <2>2. n \in Nodes /\ Len(n) = Len(path) /\ Len(n) \in Nat
    BY <2>1, NodesAre DEF Walked
  <2>3. ASSUME NEW i \in 1 .. Len(n)
        PROVE  SubSeq(n, 1, i) \in NextNodes(SubSeq(n, 1, i - 1), path[i])
    <3>1. path[i] \in Names
      BY <2>1, <2>2
    <3>2. SubSeq(n, 1, i) \in FindChild(SubSeq(n, 1, i - 1), path[i])
      BY <2>1 DEF Walked
    <3> QED BY <3>1, <3>2, FindChildIs
  <2> QED BY <2>2, <2>3 DEF FindNode, n, path
<1> QED BY <1>1, WalksAreWalks, PTL

\* The components of routes without expressions whose parameters are components.
LEMMA WholeKinds ==
  ASSUME NEW p \in Scripts, ToSet(p) \cap Regexps = {}, PlainPattern(p),
         NEW i \in 1 .. Len(Components(p)), NEW c, c = Components(p)[i]
  PROVE  /\ c \in Comps /\ Len(c) \in Nat \ {0} /\ ToSet(c) \subseteq ToSet(p) \ {"/"}
         /\ \/ Kind(c) = "plain" /\ ToSet(c) \cap Wild = {}
            \/ Kind(c) = "param" /\ Len(c) = 1 /\ Head(c) \in Params /\ c = <<Head(c)>>
            \/ Kind(c) = "wildcard" /\ c = <<Star>>
<1>1. c \in Comps /\ ToSet(c) \subseteq ToSet(p) \ {"/"} /\ ToSet(c) \cap Globs = {}
  BY ComponentTypes, ScriptFacts
<1>2. Len(c) \in Nat \ {0} /\ Head(c) = c[1] /\ c[1] \in ToSet(c)
  BY <1>1 DEF Comps, Names0, ToSet
<1>3. Len(c) = 1 \/ ToSet(c) \cap Wild = {}
  <2>1. c \in ToSet(Components(p))
    <3>1. i \in DOMAIN Components(p)
      BY ComponentTypes
    <3> QED BY <3>1 DEF ToSet
  <2> QED BY <2>1 DEF PlainPattern
<1>4. ToSet(c) \cap Starred = {} /\ ToSet(c) \cap Regexps = {}
  BY <1>1, GlobsAssumption
<1>5. CASE ToSet(c) \cap Wild = {}
  <2>1. c # <<Star>>
    <3>1. c[1] # Star
      BY <1>2, <1>5 DEF Wild
    <3> QED BY <3>1
  <2>2. ToSet(c) \cap ({Star} \cup Globs \cup Starred) = {}
    BY <1>1, <1>4, <1>5 DEF Wild
  <2>3. ~({Head(c), Last(c)} \subseteq Params \cup Regexps)
    BY <1>2, <1>5 DEF Wild
  <2> QED BY <1>1, <1>2, <1>5, <2>1, <2>2, <2>3 DEF Kind
<1>6. CASE Len(c) = 1 /\ c[1] \in Wild
  <2>1. c = <<c[1]>> /\ ToSet(c) = {c[1]}
    BY <1>1, <1>6 DEF Comps, Names0, ToSet
  <2>2. CASE c[1] = Star
    BY <1>1, <1>2, <2>1, <2>2 DEF Kind
  <2>3. CASE c[1] \in Params
    <3>1. c[1] # Star
      BY <2>3, TokensAssumption
    <3>2. c # <<Star>>
      BY <2>1, <3>1
    <3>3. ToSet(c) \cap ({Star} \cup Globs \cup Starred) = {}
      BY <1>1, <1>4, <2>1, <3>1
    <3>4. {Head(c), Last(c)} \subseteq Params \cup Regexps
      BY <1>2, <1>6, <2>3 DEF Last
    <3>5. Kind(c) = "param"
      BY <3>2, <3>3, <3>4 DEF Kind
    <3> QED BY <1>1, <1>2, <1>6, <2>1, <2>3, <3>5
  <2>4. c[1] \notin Regexps
    BY <1>2, <1>4
  <2> QED BY <1>6, <2>2, <2>3, <2>4 DEF Wild
<1>7. CASE Len(c) = 1 /\ c[1] \notin Wild
  <2>1. ToSet(c) = {c[1]}
    BY <1>1, <1>7 DEF Comps, Names0, ToSet
  <2> QED BY <1>5, <1>7, <2>1
<1> QED BY <1>3, <1>5, <1>6, <1>7

\* The next node on the way of a route.
LEMMA NextOnTheWay ==
  ASSUME mounted \subseteq Ops \X Scripts, NEW r \in mounted, NEW way, way = Components(r[2]),
         NEW k \in 0 .. Len(way) - 1, NEW n, n = SubSeq(way, 1, k)
  PROVE  /\ SubSeq(way, 1, k + 1) \in Children(n) /\ Len(n) = k
         /\ Last(SubSeq(way, 1, k + 1)) = way[k + 1]
<1> DEFINE child == SubSeq(way, 1, k + 1)
<1>1. r[2] \in Scripts
  OBVIOUS
<1>2. way \in Seq(Comps) /\ Len(way) \in Nat
  BY <1>1, ComponentTypes
<1>3. k + 1 \in 0 .. Len(way) /\ k \in Nat /\ k + 1 \in 1 .. Len(way)
  BY <1>2
<1>4. child \in Nodes
  BY <1>3, NodesAre
<1>5. \A j \in 1 .. k + 1 : way[j] \in Comps
  BY <1>2, <1>3
<1>6. /\ Len(child) = k + 1 /\ child \in Seq(Comps)
      /\ \A j \in 1 .. k + 1 : child[j] = way[j]
  <2>1. 1 \in Int /\ k + 1 \in Int /\ 1 <= k + 1
    BY <1>3
  <2>2. /\ child \in Seq(Comps) /\ Len(child) = k + 1 - 1 + 1
        /\ \A j \in 1 .. k + 1 - 1 + 1 : child[j] = way[1 + j - 1]
    BY <1>5, <2>1, SubSeqProperties
  <2>3. k + 1 - 1 + 1 = k + 1 /\ \A j \in 1 .. k + 1 : 1 + j - 1 = j
    BY <1>3
  <2> HIDE DEF child
  <2> QED BY <2>2, <2>3
<1>7. Len(n) = k /\ n \in Seq(Comps) /\ \A j \in 1 .. k : n[j] = way[j]
  <2>1. 1 \in Int /\ k \in Int /\ \A j \in 1 .. k : way[j] \in Comps
    BY <1>3, <1>5
  <2>2. /\ n \in Seq(Comps) /\ Len(n) = IF 1 <= k THEN k - 1 + 1 ELSE 0
        /\ \A j \in 1 .. k - 1 + 1 : n[j] = way[1 + j - 1]
    BY <2>1, SubSeqProperties
  <2>3. k - 1 + 1 = k /\ (~(1 <= k) => k = 0) /\ \A j \in 1 .. k : 1 + j - 1 = j
    BY <1>3
  <2> QED BY <2>2, <2>3
<1> HIDE DEF child
<1>8. IsPrefix(n, child)
  <2>1. SubSeq(n, 1, Len(n)) = n
    BY <1>7, SubSeqFull
  <2>2. SubSeq(child, 1, k) = n
    <3>1. \A j \in 1 .. k : child[j] = n[j] /\ child[j] \in Comps
      BY <1>3, <1>5, <1>6, <1>7
    <3>2. 1 \in Int /\ k \in Int
      BY <1>3
    <3>3. /\ SubSeq(child, 1, k) \in Seq(Comps)
          /\ Len(SubSeq(child, 1, k)) = IF 1 <= k THEN k - 1 + 1 ELSE 0
          /\ \A j \in 1 .. k - 1 + 1 : SubSeq(child, 1, k)[j] = child[1 + j - 1]
      BY <3>1, <3>2, SubSeqProperties
    <3>4. k - 1 + 1 = k /\ (~(1 <= k) => k = 0) /\ \A j \in 1 .. k : 1 + j - 1 = j
      BY <1>3
    <3>5. Len(SubSeq(child, 1, k)) = k /\ \A j \in 1 .. k : SubSeq(child, 1, k)[j] = n[j]
      BY <3>1, <3>3, <3>4
    <3> QED BY <1>7, <3>3, <3>5, SeqEqual
  <2> QED BY <1>3, <1>6, <1>7, <2>1, <2>2 DEF IsPrefix
<1>9. Last(child) = way[k + 1]
  BY <1>3, <1>6 DEF Last
<1> QED BY <1>4, <1>6, <1>7, <1>8, <1>9 DEF Children, child

\* A walk on the way of a route is not refused the route's next name: the nodes on
\* the way are directories, and have children for it (fuse/server.go isDir, Lookup
\* and findChild), where parameters are whole components.
THEOREM WayStaysOpen == SpecTree => []NextNameIsFound
<1>1. WalkInv => NextNameIsFound
  <2> SUFFICES ASSUME WalkInv, at.virtual = "no", WholeComponents, NEW r \in mounted,
                      NEW way, way = Components(r[2]), NEW k, k = Len(at.node), k < Len(way),
                      at.node = SubSeq(way, 1, k)
               PROVE  /\ IsDir
                      /\ \A name \in Names :
                           way[k + 1] = name \/ Kind(way[k + 1]) # "plain" =>
                             FindChild(at.node, name) # {}
    BY DEF NextNameIsFound
  <2>1. mounted \subseteq Ops \X Scripts /\ Walked(at.node, at.path)
    BY DEF WalkInv
  <2> DEFINE n == at.node
             child == SubSeq(way, 1, k + 1)
             c == way[k + 1]
  <2>2. r[2] \in Scripts
    BY <2>1
  <2>3. n \in Nodes /\ k \in Nat
    BY <2>1, NodesAre DEF Walked
  <2>4. k \in 0 .. Len(way) - 1 /\ k + 1 \in 1 .. Len(way)
    BY <2>2, <2>3, ComponentTypes
  <2>5. child \in Children(n) /\ Last(child) = c
    BY <2>1, <2>4, NextOnTheWay
  <2>6. IsDir
    BY <2>5 DEF IsDir
  <2>7. \/ Kind(c) = "plain"
        \/ Kind(c) = "param" /\ c = <<Head(c)>> /\ Head(c) \in Params
        \/ Kind(c) = "wildcard"
    <3>1. ToSet(r[2]) \cap Regexps = {} /\ PlainPattern(r[2])
      BY DEF WholeComponents
    <3> QED BY <2>2, <2>4, <3>1, WholeKinds
  <2>8. ASSUME NEW name \in Names, c = name \/ Kind(c) # "plain"
        PROVE  FindChild(n, name) # {}
    <3> DEFINE A == {x \in ChildrenOf(n, "plain") : Last(x) = name}
               B == {x \in ChildrenOf(n, "glob") : ComponentMatches(Last(x), name)}
               C == {x \in ChildrenOf(n, "param") : Last(x) # name}
               D == ChildrenOf(n, "wildcard")
    <3>1. Kind(name) = "plain"
      BY NamesArePlain
    <3>2. child \in A \cup C \cup D
      BY <2>5, <2>7, <2>8, <3>1 DEF ChildrenOf
    <3>3. FindChild(n, name) = FirstNonEmpty(<<A, B, C, D>>)
      BY DEF FindChild
    <3> HIDE DEF A, B, C, D
    <3>4. FirstNonEmpty(<<A, B, C, D>>) # {}
      BY <3>2, FirstIs
    <3> QED BY <3>3, <3>4
  <2> HIDE DEF n, c
  <2> QED BY <2>6, <2>8 DEF n, c
<1> QED BY <1>1, WalksAreWalks, PTL

----------------------------------------------------------------------------
(* What is walked is served *)

\* A path with a slash and a name more.
LEMMA SlashAndName ==
  ASSUME NEW S, "/" \in S, NEW x \in Seq(S), NEW name \in Seq(S),
         NEW y, y = x \o (<<"/">> \o name)
  PROVE  GoesOnWith(x, y, name)
<1> DEFINE b == <<"/">> \o name
<1>1. Len(x) \in Nat /\ Len(name) \in Nat /\ <<"/">> \in Seq(S)
  OBVIOUS
<1>2. b \in Seq(S) /\ Len(b) = 1 + Len(name) /\ b[1] = "/" /\ \A j \in 1 .. Len(name) : b[1 + j] = name[j]
  BY <1>1
<1>3. y = x \o b
  OBVIOUS
<1> HIDE DEF b
<1>4. /\ Len(y) = Len(x) + Len(b)
      /\ \A i \in 1 .. Len(x) + Len(b) : y[i] = IF i <= Len(x) THEN x[i] ELSE b[i - Len(x)]
  BY <1>2, <1>3
<1>5. Len(x) + 1 \in 1 .. Len(x) + Len(b) /\ ~(Len(x) + 1 <= Len(x)) /\ Len(x) + 1 - Len(x) = 1
  BY <1>1, <1>2
<1>6. \A j \in 1 .. Len(name) : /\ Len(x) + 1 + j \in 1 .. Len(x) + Len(b)
                                /\ ~(Len(x) + 1 + j <= Len(x)) /\ Len(x) + 1 + j - Len(x) = 1 + j
  BY <1>1, <1>2
<1>7. \A i \in 1 .. Len(x) : i \in 1 .. Len(x) + Len(b) /\ i <= Len(x)
  BY <1>1, <1>2
<1>8. Len(y) = Len(x) + 1 + Len(name)
  BY <1>1, <1>2, <1>4
<1> QED BY <1>2, <1>4, <1>5, <1>6, <1>7, <1>8 DEF GoesOnWith

LEMMA BeginsOn ==
  ASSUME NEW x, NEW y, NEW z, NEW name, Len(x) \in Nat, Len(y) \in Nat, Len(name) \in Nat,
         Begins(x, y), GoesOnWith(y, z, name)
  PROVE  Begins(x, z)
<1>1. Len(z) = Len(y) + 1 + Len(name) /\ Len(x) <= Len(y)
  BY DEF Begins, GoesOnWith
<1>2. Len(x) <= Len(z) /\ \A i \in 1 .. Len(x) : i \in 1 .. Len(y)
  BY <1>1
<1> QED BY <1>2 DEF Begins, GoesOnWith

LEMMA PlacesAre ==
  ASSUME NEW T, NEW names \in Seq(Seq(T)), names # <<>>
  PROVE  /\ \E ends : Places(PathOf(names), names, ends)
         /\ PathOf(names) \in Seq(T \cup {"/"})
<1> DEFINE n == Len(names)
           S == T \cup {"/"}
<1>1. PICK paths \in [0 .. n -> Seq(S)] :
        PathsFollow(paths, names) /\ PathOf(names) = paths[n]
  BY PathsAre
<1>2. n \in Nat \ {0} /\ \A k \in 1 .. n : names[k] \in Seq(T) /\ Len(names[k]) \in Nat
  <2>1. Len(names) \in Nat /\ Len(names) # 0
    OBVIOUS
  <2>2. \A k \in 1 .. Len(names) : names[k] \in Seq(T)
    OBVIOUS
  <2> QED BY <2>1, <2>2
<1> HIDE DEF n
<1> DEFINE path == PathOf(names)
           ends == [k \in 0 .. n |-> Len(paths[k])]
<1>3. \A k \in 0 .. n : paths[k] \in Seq(S) /\ Len(paths[k]) \in Nat
  <2>1. \A k \in 0 .. n : paths[k] \in Seq(S)
    <3> HIDE DEF S
    <3> QED OBVIOUS
  <2> QED BY <2>1
<1>4. ASSUME NEW k \in 1 .. n
      PROVE  k - 1 \in 0 .. n /\ k \in 0 .. n /\ GoesOnWith(paths[k - 1], paths[k], names[k])
  <2>1. k - 1 \in 0 .. n /\ k \in 0 .. n
    BY <1>2
  <2>2. paths[k - 1] \in Seq(S) /\ "/" \in S
    BY <1>3, <2>1
  <2>3. names[k] \in Seq(S)
    <3>1. names[k] \in Seq(T)
      BY <1>2
    <3> QED BY <3>1
  <2>4. paths[k] = paths[k - 1] \o (<<"/">> \o names[k])
    BY <1>1 DEF PathsFollow, n
  <2> HIDE DEF S
  <2> QED BY <2>1, <2>2, <2>3, <2>4, SlashAndName
\* Later paths begin with the earlier ones.
<1>5. ASSUME NEW k \in 0 .. n PROVE Begins(paths[k], paths[n])
  <2> DEFINE R == {l \in Nat : k <= l /\ l <= n => Begins(paths[k], paths[l])}
  <2>1. Begins(paths[k], paths[k])
    <3>1. Len(paths[k]) \in Nat
      BY <1>3
    <3> QED BY <3>1 DEF Begins
  <2>2. 0 \in R
    <3>1. k <= 0 => k = 0
      BY <1>2
    <3> QED BY <2>1, <3>1
  <2>3. ASSUME NEW l \in Nat, l \in R PROVE l + 1 \in R
    <3> SUFFICES ASSUME k <= l + 1, l + 1 <= n PROVE Begins(paths[k], paths[l + 1])
      OBVIOUS
    <3>1. CASE k = l + 1
      BY <2>1, <3>1
    <3>2. CASE k # l + 1
      <4>1. k <= l /\ l <= n /\ l + 1 \in 1 .. n /\ (l + 1) - 1 = l /\ l \in 0 .. n
        BY <1>2, <3>2
      <4>2. Begins(paths[k], paths[l])
        BY <2>3, <4>1
      <4>3. GoesOnWith(paths[l], paths[l + 1], names[l + 1])
        <5>1. GoesOnWith(paths[(l + 1) - 1], paths[l + 1], names[l + 1])
          BY <1>4, <4>1
        <5> QED BY <4>1, <5>1
      <4>4. Len(paths[k]) \in Nat /\ Len(paths[l]) \in Nat /\ Len(names[l + 1]) \in Nat
        BY <1>2, <1>3, <4>1
      <4> QED BY <4>2, <4>3, <4>4, BeginsOn
    <3> QED BY <3>1, <3>2
  <2>4. n \in R
    <3> HIDE DEF R
    <3> QED BY <1>2, <2>2, <2>3, AllNumbers
  <2> QED BY <1>2, <2>4
<1>6. path = paths[n] /\ path \in Seq(S)
  BY <1>1, <1>2, <1>3
<1> HIDE DEF path
<1>7. ends \in [0 .. n -> 0 .. Len(path)] /\ \A k \in 0 .. n : ends[k] = Len(paths[k])
  BY <1>3, <1>5, <1>6 DEF Begins
<1>8. ends[0] = 0 /\ ends[n] = Len(path)
  <2>1. paths[0] = <<>> /\ 0 \in 0 .. n /\ n \in 0 .. n
    BY <1>1, <1>2 DEF PathsFollow
  <2> QED BY <1>6, <1>7, <2>1
<1> HIDE DEF ends
<1>9. ASSUME NEW k \in 1 .. n
      PROVE  /\ ends[k] = ends[k - 1] + 1 + Len(names[k])
             /\ path[ends[k - 1] + 1] = "/"
             /\ \A j \in 1 .. Len(names[k]) : path[ends[k - 1] + 1 + j] = names[k][j]
  <2>1. k - 1 \in 0 .. n /\ k \in 0 .. n
    BY <1>2
  <2>2. /\ ends[k] = Len(paths[k]) /\ ends[k - 1] = Len(paths[k - 1])
        /\ Len(paths[k - 1]) \in Nat /\ Len(names[k]) \in Nat
    BY <1>2, <1>3, <1>7, <2>1
  <2>3. GoesOnWith(paths[k - 1], paths[k], names[k])
    BY <1>4
  <2>4. \A i \in 1 .. Len(paths[k]) : path[i] = paths[k][i]
    BY <1>5, <1>6, <2>1 DEF Begins
  <2>5. Len(paths[k]) = Len(paths[k - 1]) + 1 + Len(names[k])
    BY <2>3 DEF GoesOnWith
  <2>6. /\ ends[k - 1] + 1 \in 1 .. Len(paths[k])
        /\ \A j \in 1 .. Len(names[k]) : ends[k - 1] + 1 + j \in 1 .. Len(paths[k])
    <3> DEFINE a == Len(paths[k - 1])
               b == Len(names[k])
    <3>1. a \in Nat /\ b \in Nat /\ ends[k - 1] = a /\ Len(paths[k]) = a + 1 + b
      BY <2>2, <2>5
    <3> HIDE DEF a, b
    <3>2. a + 1 \in 1 .. a + 1 + b /\ \A j \in 1 .. b : a + 1 + j \in 1 .. a + 1 + b
      BY <3>1
    <3> QED BY <3>1, <3>2 DEF b
  <2> QED BY <2>2, <2>3, <2>4, <2>5, <2>6 DEF GoesOnWith
<1>10. Places(path, names, ends)
  BY <1>7, <1>8, <1>9 DEF Places, n
<1> QED BY <1>6, <1>10 DEF path

\* A place in a path is in the name, or is the slash, that ends first at or after
\* it.
LEMMA PlaceOf ==
  ASSUME NEW path, NEW names, Len(names) \in Nat, \A k \in 1 .. Len(names) : Len(names[k]) \in Nat,
         Len(path) \in Nat, NEW ends, Places(path, names, ends), NEW x \in 1 .. Len(path)
  PROVE  \E k \in 1 .. Len(names) : \E j \in 0 .. Len(names[k]) :
           x = ends[k - 1] + 1 + j /\ ends[k - 1] \in 0 .. Len(path) /\ ends[k] \in 0 .. Len(path)
<1> DEFINE n == Len(names)
           S == {k \in 0 .. n : x <= ends[k]}
<1>1. n \in S /\ S \in SUBSET Nat /\ S # {}
  <2>1. n \in 0 .. n /\ ends[n] = Len(path) /\ x <= Len(path)
    BY DEF Places
  <2> QED BY <2>1
<1>2. PICK k \in S : \A l \in S : k <= l
  <2> HIDE DEF S
  <2> QED BY <1>1, LeastNumber
<1>3. k # 0
  <2>1. ends[0] = 0 /\ ~(x <= 0)
    BY DEF Places
  <2> QED BY <1>2, <2>1
<1>4. k \in 1 .. n /\ k - 1 \in 0 .. n /\ k - 1 \notin S /\ k \in 0 .. n
  <2>1. k \in 1 .. n /\ k - 1 \in 0 .. n /\ k \in 0 .. n
    BY <1>2, <1>3
  <2>2. ~(k <= k - 1)
    BY <2>1
  <2> QED BY <1>2, <2>1, <2>2
<1>5. x <= ends[k] /\ ~(x <= ends[k - 1])
  BY <1>2, <1>4
<1>6. /\ ends[k] = ends[k - 1] + 1 + Len(names[k]) /\ Len(names[k]) \in Nat
      /\ ends[k - 1] \in 0 .. Len(path) /\ ends[k] \in 0 .. Len(path)
  BY <1>4 DEF Places
<1> DEFINE a == ends[k - 1]
           b == Len(names[k])
<1>7. a \in Nat /\ b \in Nat /\ x \in Nat /\ x <= a + 1 + b /\ ~(x <= a)
  BY <1>5, <1>6
<1> HIDE DEF a, b
<1>8. x - a - 1 \in 0 .. b /\ x = a + 1 + (x - a - 1)
  BY <1>7
<1> QED BY <1>4, <1>6, <1>8 DEF a, b

\* The part of a path at a place is the name there.
LEMMA NameAt ==
  ASSUME NEW T, NEW path \in Seq(T), NEW name \in Seq(T), NEW e \in Nat,
         e + Len(name) <= Len(path), \A j \in 1 .. Len(name) : path[e + j] = name[j]
  PROVE  ValueOf(path, <<e, e + Len(name)>>) = name
<1>1. Len(name) \in Nat /\ Len(path) \in Nat
  OBVIOUS
<1> DEFINE f == e + Len(name)
<1>2. e + 1 \in Int /\ f \in Int /\ \A i \in e + 1 .. f : path[i] \in T
  BY <1>1
<1>3. ValueOf(path, <<e, f>>) = SubSeq(path, e + 1, f)
  BY DEF ValueOf
<1> HIDE DEF f
<1> DEFINE v == SubSeq(path, e + 1, f)
<1>4. /\ v \in Seq(T) /\ Len(v) = IF e + 1 <= f THEN f - (e + 1) + 1 ELSE 0
      /\ \A i \in 1 .. f - (e + 1) + 1 : v[i] = path[e + 1 + i - 1]
  BY <1>2, SubSeqProperties
<1> HIDE DEF v
<1>5. Len(v) = Len(name) /\ \A i \in 1 .. Len(name) : v[i] = path[e + i]
  <2>1. f - (e + 1) + 1 = Len(name) /\ (~(e + 1 <= f) => Len(name) = 0)
        /\ \A i \in 1 .. Len(name) : e + 1 + i - 1 = e + i
    BY <1>1 DEF f
  <2> QED BY <1>4, <2>1
<1>6. v = name
  BY <1>4, <1>5, SeqEqual
<1> QED BY <1>3, <1>6 DEF v, f

\* A cut of the first tokens of a pattern is continued.
LEMMA CutMore ==
  ASSUME NEW p, NEW path, NEW cut, NEW l \in Nat, NEW m, CutsTo(p, path, cut, l, m),
         NEW more, NEW d \in Nat, CutsOn(p, path, more, l, d, m)
  PROVE  \E both : CutsTo(p, path, both, l + d, more[d]) /\ GoesOnFrom(both, cut, l)
<1> DEFINE both == [i \in 0 .. l + d |-> IF i <= l THEN cut[i] ELSE more[i - l]]
<1>1. \A i \in 0 .. l + d : /\ i <= l => i \in 0 .. l
                            /\ ~(i <= l) => i - l \in 0 .. d /\ i - l \in 1 .. d
  OBVIOUS
<1>2. both \in [0 .. l + d -> 0 .. Len(path)]
  BY <1>1 DEF CutsTo, CutsOn
<1>3. \A i \in 0 .. l + d : both[i] = IF i <= l THEN cut[i] ELSE more[i - l]
  OBVIOUS
<1> HIDE DEF both
<1>4. \A i \in 0 .. d : both[l + i] = more[i]
  <2> SUFFICES ASSUME NEW i \in 0 .. d PROVE both[l + i] = more[i]
    OBVIOUS
  <2>1. CASE i = 0
    <3>1. l + i = l /\ l \in 0 .. l + d /\ l <= l
      BY <2>1
    <3> QED BY <1>3, <2>1, <3>1 DEF CutsTo, CutsOn
  <2>2. CASE i # 0
    <3>1. l + i \in 0 .. l + d /\ ~(l + i <= l) /\ l + i - l = i
      BY <2>2
    <3> QED BY <1>3, <3>1
  <2> QED BY <2>1, <2>2
<1>5. both[0] = 0 /\ both[l + d] = more[d]
  <2>1. 0 \in 0 .. l + d /\ 0 <= l /\ d \in 0 .. d
    OBVIOUS
  <2> QED BY <1>3, <1>4, <2>1 DEF CutsTo
<1>6. ASSUME NEW i \in 1 .. l + d
      PROVE  both[i - 1] <= both[i] /\ MayBe(p, i, ValueOf(path, <<both[i - 1], both[i]>>))
  <2>1. CASE i <= l
    <3>1. i \in 0 .. l + d /\ i - 1 \in 0 .. l + d /\ i - 1 <= l /\ i \in 1 .. l
      BY <2>1
    <3>2. both[i] = cut[i] /\ both[i - 1] = cut[i - 1]
      BY <1>3, <2>1, <3>1
    <3> QED BY <3>1, <3>2 DEF CutsTo
  <2>2. CASE ~(i <= l)
    <3> DEFINE j == i - l
    <3>1. j \in 1 .. d /\ j \in 0 .. d /\ j - 1 \in 0 .. d /\ l + j = i /\ l + (j - 1) = i - 1
      BY <2>2
    <3> HIDE DEF j
    <3>2. both[i] = more[j] /\ both[i - 1] = more[j - 1]
      BY <1>4, <3>1
    <3>3. more[j - 1] <= more[j] /\ MayBe(p, l + j, ValueOf(path, <<more[j - 1], more[j]>>))
      BY <3>1 DEF CutsOn
    <3> QED BY <3>1, <3>2, <3>3
  <2> QED BY <2>1, <2>2
<1>7. CutsTo(p, path, both, l + d, more[d])
  BY <1>2, <1>5, <1>6 DEF CutsTo
<1>8. \A i \in 0 .. l : both[i] = cut[i]
  <2>1. \A i \in 0 .. l : i \in 0 .. l + d /\ i <= l
    OBVIOUS
  <2> QED BY <1>3, <2>1
<1> QED BY <1>7, <1>8 DEF GoesOnFrom

\* What a component of a route takes.
LEMMA Takings ==
  ASSUME NEW c \in Comps, NEW name \in Names, Takes(c, name)
  PROVE  \/ c = name
         \/ /\ Len(c) = 1 /\ c[1] \in Wild
            /\ \/ c[1] = Star \/ c[1] \in Params
               \/ c[1] \in Regexps /\ name \in Language[RexOf[c[1]]]
<1>1. Kind(c) = "wildcard" => c = <<Star>>
  BY DEF Kind
<1>2. c = <<Star>> => Len(c) = 1 /\ c[1] = Star
  OBVIOUS
<1>3. Head(c) = c[1]
  BY DEF Comps, Names0
<1> QED BY <1>1, <1>2, <1>3 DEF Takes, Wild

\* The components of a route and the names it takes.
LEMMA TakenTypes ==
  ASSUME NEW p \in Scripts, NEW comps, NEW o, NEW path, NEW names, NEW m,
         Taken(p, comps, o, path, names, m), NEW k \in 1 .. Len(comps)
  PROVE  /\ comps[k] \in Comps /\ names[k] \in Names /\ Takes(comps[k], names[k])
         /\ Len(comps) \in Nat /\ Len(p) \in Nat /\ Len(path) \in Nat
         /\ Len(comps[k]) \in Nat /\ Len(names[k]) \in Nat
         /\ o[k - 1] \in Nat /\ o[k] = o[k - 1] + 1 + Len(comps[k]) /\ o[k] <= Len(p)
         /\ m[k - 1] \in Nat /\ m[k] = m[k - 1] + 1 + Len(names[k]) /\ m[k] <= Len(path)
         /\ p[o[k - 1] + 1] = "/" /\ \A j \in 1 .. Len(comps[k]) : p[o[k - 1] + 1 + j] = comps[k][j]
         /\ path[m[k - 1] + 1] = "/" /\ \A j \in 1 .. Len(names[k]) : path[m[k - 1] + 1 + j] = names[k][j]
<1>1. comps \in Seq(Comps) /\ Len(comps) \in Nat /\ comps[k] \in Comps
  <2>1. comps = Components(p) /\ Components(p) \in Seq(Comps)
    BY ComponentTypes DEF Taken
  <2> QED BY <2>1
<1>2. names[k] \in Names /\ Takes(comps[k], names[k]) /\ Len(names) = Len(comps)
  BY DEF Taken
<1>3. Len(comps[k]) \in Nat /\ Len(names[k]) \in Nat
  BY <1>1, <1>2, NamesArePlain DEF Comps, Names0
<1>4. Len(p) \in Nat /\ Len(path) \in Nat
  BY ScriptFacts, PatternTypes DEF Taken
<1>5. k \in 0 .. Len(comps) /\ k - 1 \in 0 .. Len(comps)
  BY <1>1
<1>6. /\ o[k - 1] \in 0 .. Len(p) /\ o[k] \in 0 .. Len(p)
      /\ m[k - 1] \in 0 .. Len(path) /\ m[k] \in 0 .. Len(path)
  BY <1>2, <1>5 DEF Taken, Places
<1>7. /\ o[k] = o[k - 1] + 1 + Len(comps[k]) /\ p[o[k - 1] + 1] = "/"
      /\ \A j \in 1 .. Len(comps[k]) : p[o[k - 1] + 1 + j] = comps[k][j]
  BY DEF Taken, Places
<1>8. /\ m[k] = m[k - 1] + 1 + Len(names[k]) /\ path[m[k - 1] + 1] = "/"
      /\ \A j \in 1 .. Len(names[k]) : path[m[k - 1] + 1 + j] = names[k][j]
  BY <1>2 DEF Taken, Places
<1> QED BY <1>1, <1>2, <1>3, <1>4, <1>6, <1>7, <1>8

\* After a component that is a parameter there is a slash, or nothing.
LEMMA SlashFollows ==
  ASSUME NEW p \in Scripts, NEW comps, NEW o, NEW path, NEW names, NEW m,
         Taken(p, comps, o, path, names, m), NEW k \in 1 .. Len(comps)
  PROVE  /\ o[k] = Len(p) \/ p[o[k] + 1] = "/"
         /\ p[o[k]] \in Params \cup Regexps => TailAt(p, o[k]) = "/"
<1>1. Len(comps) \in Nat
  BY TakenTypes
<1>2. o[k] = Len(p) \/ p[o[k] + 1] = "/"
  <2>1. CASE k = Len(comps)
    BY <2>1 DEF Taken, Places
  <2>2. CASE k # Len(comps)
    <3>1. k + 1 \in 1 .. Len(comps) /\ (k + 1) - 1 = k
      BY <1>1, <2>2
    <3>2. p[o[(k + 1) - 1] + 1] = "/"
      BY <3>1, TakenTypes
    <3> QED BY <3>1, <3>2
  <2> QED BY <2>1, <2>2
<1>3. "/" \notin Params \cup Regexps
  BY PathsAssumption DEF Wild
<1> QED BY <1>2, <1>3 DEF TailAt, FirstByte

\* A slash and a component cut the slash and the name off.
LEMMA ComponentCut ==
  ASSUME NEW p \in Scripts, NEW comps, NEW o, NEW path, NEW names, NEW m,
         Taken(p, comps, o, path, names, m), NEW k \in 1 .. Len(comps)
  PROVE  \E more : CutsOn(p, path, more, o[k - 1], 1 + Len(comps[k]), m[k - 1])
                   /\ more[1 + Len(comps[k])] = m[k]
<1> DEFINE c == comps[k]
           name == names[k]
           a == o[k - 1]
           b == m[k - 1]
           T == ToSet(path)
<1>1. /\ c \in Comps /\ name \in Names /\ Takes(c, name) /\ Len(p) \in Nat /\ Len(path) \in Nat
      /\ Len(c) \in Nat /\ Len(name) \in Nat /\ a \in Nat /\ b \in Nat
      /\ o[k] = a + 1 + Len(c) /\ m[k] = b + 1 + Len(name) /\ m[k] <= Len(path)
      /\ p[a + 1] = "/" /\ \A j \in 1 .. Len(c) : p[a + 1 + j] = c[j]
      /\ path[b + 1] = "/" /\ \A j \in 1 .. Len(name) : path[b + 1 + j] = name[j]
  BY TakenTypes
<1>2. path \in Seq(T) /\ \A i \in 1 .. Len(path) : path[i] \in T
  <2>1. path \in Seq(ToSet(path))
    BY DEF Taken
  <2> QED BY <2>1 DEF ToSet
<1>3. /\ name \in Seq(ToSet(name)) /\ Len(name) \in Nat \ {0}
      /\ \A i \in 1 .. Len(name) : name[i] # "/" /\ name[i] \notin Wild
  BY <1>1, NamesArePlain
<1>4. /\ p[o[k]] \in Params \cup Regexps => TailAt(p, o[k]) = "/"
      /\ "/" \notin Wild
  BY SlashFollows, PathsAssumption
<1> HIDE DEF c, name, a, b, T
<1>5. ASSUME NEW x \in 0 .. Len(path) - 1 PROVE ValueOf(path, <<x, x + 1>>) = <<path[x + 1]>>
  <2> DEFINE v == <<path[x + 1]>>
  <2>1. x + 1 \in 1 .. Len(path) /\ x \in Nat
    BY <1>1
  <2>2. v \in Seq(T) /\ Len(v) = 1 /\ x + Len(v) <= Len(path)
        /\ \A j \in 1 .. Len(v) : path[x + j] = v[j]
    BY <1>1, <1>2, <2>1
  <2>3. x + Len(v) = x + 1
    BY <2>2
  <2> HIDE DEF v
  <2>4. ValueOf(path, <<x, x + Len(v)>>) = v
    BY <1>2, <2>1, <2>2, NameAt
  <2> QED BY <2>3, <2>4 DEF v
<1>6. CASE c = name
  <2> DEFINE more == [i \in 0 .. 1 + Len(c) |-> b + i]
  <2>1. more \in [0 .. 1 + Len(c) -> 0 .. Len(path)] /\ more[0] = b /\ more[1 + Len(c)] = m[k]
    BY <1>1, <1>6
  <2>2. ASSUME NEW i \in 1 .. 1 + Len(c)
        PROVE  more[i - 1] <= more[i] /\ MayBe(p, a + i, ValueOf(path, <<more[i - 1], more[i]>>))
    <3>1. more[i] = (b + (i - 1)) + 1 /\ more[i - 1] = b + (i - 1) /\ b + (i - 1) \in 0 .. Len(path) - 1
      BY <1>1, <1>6
    <3> DEFINE x == b + (i - 1)
    <3>2. ValueOf(path, <<x, x + 1>>) = <<path[x + 1]>>
      BY <1>5, <3>1
    <3>3. path[x + 1] = p[a + i] /\ p[a + i] \notin Wild
      <4>1. CASE i = 1
        <5>1. x + 1 = b + 1 /\ a + i = a + 1
          BY <1>1, <4>1
        <5> QED BY <1>1, <1>4, <5>1
      <4>2. CASE i # 1
        <5>1. i - 1 \in 1 .. Len(c) /\ x + 1 = b + 1 + (i - 1) /\ a + i = a + 1 + (i - 1)
          BY <1>1, <4>2
        <5>2. path[x + 1] = c[i - 1] /\ p[a + i] = c[i - 1] /\ c[i - 1] \notin Wild
          BY <1>1, <1>3, <1>6, <5>1
        <5> QED BY <5>2
      <4> QED BY <4>1, <4>2
    <3>4. more[i - 1] <= more[i]
      BY <1>1, <3>1
    <3>5. ValueOf(path, <<more[i - 1], more[i]>>) = <<p[a + i]>>
      BY <3>1, <3>2, <3>3
    <3> HIDE DEF more, x
    <3> QED BY <3>3, <3>4, <3>5 DEF MayBe
  <2> HIDE DEF more
  <2>3. CutsOn(p, path, more, a, 1 + Len(c), b)
    BY <2>1, <2>2 DEF CutsOn
  <2> QED BY <2>1, <2>3 DEF a, b, c
<1>7. CASE /\ Len(c) = 1 /\ c[1] \in Wild
           /\ c[1] = Star \/ c[1] \in Params \/ (c[1] \in Regexps /\ name \in Language[RexOf[c[1]]])
  <2> DEFINE more == [i \in 0 .. 2 |-> IF i = 0 THEN b ELSE IF i = 1 THEN b + 1 ELSE m[k]]
  <2>1. /\ more \in [0 .. 2 -> 0 .. Len(path)] /\ more[0] = b /\ more[1] = b + 1 /\ more[2] = m[k]
        /\ 1 + Len(c) = 2 /\ b <= b + 1 /\ b + 1 <= m[k]
    BY <1>1, <1>7
  <2> HIDE DEF more
  <2>2. MayBe(p, a + 1, ValueOf(path, <<b, b + 1>>))
    <3>1. b \in 0 .. Len(path) - 1
      BY <1>1
    <3> QED BY <1>1, <1>4, <1>5, <3>1 DEF MayBe
  <2>3. p[a + 2] = c[1] /\ o[k] = a + 2
    <3>1. 1 \in 1 .. Len(c) /\ a + 1 + 1 = a + 2 /\ a + 1 + Len(c) = a + 2
      BY <1>1, <1>7
    <3> QED BY <1>1, <3>1
  <2>4. ValueOf(path, <<b + 1, m[k]>>) = name
    <3>1. /\ b + 1 \in Nat /\ (b + 1) + Len(name) <= Len(path) /\ (b + 1) + Len(name) = m[k]
      BY <1>1
    <3>2. name \in Seq(T)
      <4>1. \A j \in 1 .. Len(name) : b + 1 + j \in 1 .. Len(path)
        BY <1>1
      <4>2. \A j \in 1 .. Len(name) : name[j] \in T
        BY <1>1, <1>2, <4>1
      <4> QED BY <1>3, <4>2
    <3>3. ValueOf(path, <<b + 1, (b + 1) + Len(name)>>) = name
      BY <1>1, <1>2, <3>1, <3>2, NameAt
    <3> QED BY <3>1, <3>3
  <2>5. MayBe(p, a + 2, name)
    <3>1. name # <<>> /\ "/" \notin ToSet(name)
      BY <1>3 DEF ToSet
    <3>2. c[1] # Star => TailAt(p, a + 2) = "/"
      BY <1>4, <1>7, <2>3
    <3>3. c[1] \in Params \cup Regexps => c[1] # Star
      BY TokensAssumption
    <3> QED BY <1>7, <2>3, <3>1, <3>2, <3>3 DEF MayBe
  <2>6. ASSUME NEW i \in 1 .. 2
        PROVE  more[i - 1] <= more[i] /\ MayBe(p, a + i, ValueOf(path, <<more[i - 1], more[i]>>))
    <3>1. i = 1 \/ i = 2
      OBVIOUS
    <3>2. 1 - 1 = 0 /\ 2 - 1 = 1
      OBVIOUS
    <3> QED BY <2>1, <2>2, <2>4, <2>5, <3>1, <3>2
  <2>7. CutsOn(p, path, more, a, 1 + Len(c), b)
    BY <2>1, <2>6 DEF CutsOn
  <2> QED BY <2>1, <2>7 DEF a, b, c
<1> QED BY <1>1, <1>6, <1>7, Takings

\* A route with such components has no parameter before another, and cuts the path.
LEMMA TakenFollows ==
  ASSUME NEW p \in Scripts, NEW comps, NEW o, NEW path, NEW names, NEW m,
         Taken(p, comps, o, path, names, m)
  PROVE  CharacterFollows(p)
<1> SUFFICES ASSUME NEW i \in 1 .. Len(p) - 1, p[i] \in Params \cup Regexps
             PROVE  p[i + 1] \notin Wild
  BY DEF CharacterFollows
<1>1. Len(p) \in Nat /\ comps \in Seq(Comps) /\ Len(comps) \in Nat
  <2>1. comps = Components(p) /\ Components(p) \in Seq(Comps)
    BY ComponentTypes DEF Taken
  <2> QED BY <2>1, ScriptFacts, PatternTypes
<1>2. \A k \in 1 .. Len(comps) : Len(comps[k]) \in Nat
  BY TakenTypes
<1>3. i \in 1 .. Len(p) /\ Places(p, comps, o)
  BY <1>1 DEF Taken
<1>4. PICK k \in 1 .. Len(comps) : \E j \in 0 .. Len(comps[k]) :
        i = o[k - 1] + 1 + j /\ o[k - 1] \in 0 .. Len(p) /\ o[k] \in 0 .. Len(p)
  BY <1>1, <1>2, <1>3, PlaceOf
<1>5. PICK j \in 0 .. Len(comps[k]) : i = o[k - 1] + 1 + j
  BY <1>4
<1>6. "/" \notin Wild /\ p[i] \in Wild
  BY PathsAssumption DEF Wild
<1>7. /\ comps[k] \in Comps /\ names[k] \in Names /\ Takes(comps[k], names[k])
      /\ Len(comps[k]) \in Nat /\ o[k - 1] \in Nat /\ o[k] = o[k - 1] + 1 + Len(comps[k])
      /\ p[o[k - 1] + 1] = "/"
      /\ \A l \in 1 .. Len(comps[k]) : p[o[k - 1] + 1 + l] = comps[k][l]
  BY TakenTypes
<1>8. j # 0
  <2>1. j = 0 => i = o[k - 1] + 1
    BY <1>5, <1>7
  <2> QED BY <1>6, <1>7, <2>1
<1>9. j \in 1 .. Len(comps[k]) /\ comps[k][j] = p[i]
  BY <1>5, <1>7, <1>8
<1>10. comps[k] # names[k]
  <2>1. \A l \in 1 .. Len(names[k]) : names[k][l] \notin Wild
    BY <1>7, NamesArePlain
  <2> QED BY <1>6, <1>9, <2>1
<1>11. Len(comps[k]) = 1
  BY <1>7, <1>10, Takings
<1>12. i = o[k]
  BY <1>5, <1>7, <1>9, <1>11
<1>13. o[k] = Len(p) \/ p[o[k] + 1] = "/"
  BY SlashFollows
<1>14. i # Len(p)
  BY <1>1
<1> QED BY <1>6, <1>12, <1>13, <1>14

\* A route that takes the names cuts their path.
LEMMA TakenCuts ==
  ASSUME NEW p \in Scripts, NEW comps, NEW o, NEW path, NEW names, NEW m,
         Taken(p, comps, o, path, names, m)
  PROVE  \E cut : Cuts(p, path, cut) /\ CutsAt(cut, o, m, Len(comps))
<1> DEFINE n == Len(comps)
           Upto(k) == \E cut : CutsTo(p, path, cut, o[k], m[k]) /\ CutsAt(cut, o, m, k)
           S == {k \in Nat : k <= n => Upto(k)}
<1>1. n \in Nat
  <2>1. comps = Components(p) /\ Components(p) \in Seq(Comps)
    BY ComponentTypes DEF Taken
  <2> QED BY <2>1
<1>2. Len(p) \in Nat /\ Len(path) \in Nat /\ Len(names) = n
  BY ScriptFacts, PatternTypes DEF Taken
<1>3. o[0] = 0 /\ o[n] = Len(p) /\ m[0] = 0 /\ m[n] = Len(path)
  BY <1>2 DEF Taken, Places
<1> HIDE DEF n
<1>4. 0 \in S
  <2> DEFINE cut == [i \in 0 .. 0 |-> 0]
  <2>1. cut \in [0 .. 0 -> 0 .. Len(path)] /\ cut[0] = 0 /\ \A i \in 1 .. 0 : FALSE
    BY <1>2
  <2> HIDE DEF cut
  <2>2. CutsTo(p, path, cut, 0, 0)
    BY <2>1 DEF CutsTo
  <2>3. CutsAt(cut, o, m, 0)
    BY <1>3, <2>1 DEF CutsAt
  <2> QED BY <1>3, <2>2, <2>3
<1>5. ASSUME NEW k \in Nat, k \in S PROVE k + 1 \in S
  <2> SUFFICES ASSUME k + 1 <= n PROVE Upto(k + 1)
    OBVIOUS
  <2>1. k + 1 \in 1 .. n /\ (k + 1) - 1 = k /\ k <= n
    BY <1>1
  <2>2. PICK cut : CutsTo(p, path, cut, o[k], m[k]) /\ CutsAt(cut, o, m, k)
    BY <1>5, <2>1
  <2>3. /\ o[k] \in Nat /\ o[k + 1] = o[k] + 1 + Len(comps[k + 1]) /\ Len(comps[k + 1]) \in Nat
    <3>1. /\ o[(k + 1) - 1] \in Nat /\ o[k + 1] = o[(k + 1) - 1] + 1 + Len(comps[k + 1])
          /\ Len(comps[k + 1]) \in Nat
      BY <2>1, TakenTypes DEF n
    <3> QED BY <2>1, <3>1
  <2>4. PICK more : /\ CutsOn(p, path, more, o[k], 1 + Len(comps[k + 1]), m[k])
                    /\ more[1 + Len(comps[k + 1])] = m[k + 1]
    <3>1. \E more : /\ CutsOn(p, path, more, o[(k + 1) - 1], 1 + Len(comps[k + 1]), m[(k + 1) - 1])
                    /\ more[1 + Len(comps[k + 1])] = m[k + 1]
      BY <2>1, ComponentCut DEF n
    <3> QED BY <2>1, <3>1
  <2> DEFINE d == 1 + Len(comps[k + 1])
  <2>5. d \in Nat /\ o[k] + d = o[k + 1]
    BY <2>3
  <2> HIDE DEF d
  <2>6. CutsOn(p, path, more, o[k], d, m[k]) /\ more[d] = m[k + 1]
    BY <2>4 DEF d
  <2>7. PICK both : CutsTo(p, path, both, o[k] + d, more[d]) /\ GoesOnFrom(both, cut, o[k])
    BY <2>2, <2>3, <2>5, <2>6, CutMore
  <2>8. CutsTo(p, path, both, o[k + 1], m[k + 1])
    BY <2>5, <2>6, <2>7
  <2>9. CutsAt(both, o, m, k + 1)
    <3>1. \A l \in 0 .. k : o[l] \in 0 .. o[k] /\ cut[o[l]] = m[l]
      BY <2>2 DEF CutsAt
    <3>2. \A x \in 0 .. o[k] : x \in 0 .. o[k + 1]
      BY <2>3, <2>5
    <3>3. o[k + 1] \in 0 .. o[k + 1] /\ both[o[k + 1]] = m[k + 1]
      BY <2>3, <2>5, <2>8 DEF CutsTo
    <3>4. \A l \in 0 .. k + 1 : l \in 0 .. k \/ l = k + 1
      OBVIOUS
    <3> QED BY <2>7, <3>1, <3>2, <3>3, <3>4 DEF CutsAt, GoesOnFrom
  <2> QED BY <2>8, <2>9
<1>6. n \in S
  <2> HIDE DEF S
  <2> QED BY <1>1, <1>4, <1>5, AllNumbers
<1>7. PICK cut : CutsTo(p, path, cut, Len(p), Len(path)) /\ CutsAt(cut, o, m, n)
  BY <1>1, <1>3, <1>6
<1> QED BY <1>7 DEF CutsTo, Cuts, n

\* The path of what a client has walked.
LEMMA PathFacts ==
  ASSUME NEW names \in Seq(Names)
  PROVE  /\ PathOf(names) \in Seq(ToSet(PathOf(names)))
         /\ names # <<>> => \E m : Places(PathOf(names), names, m)
         /\ names = <<>> => PathOf(names) = <<"/">>
<1> DEFINE T == UNION {ToSet(name) : name \in Names}
<1>1. names \in Seq(Seq(T))
  <2>1. Names \subseteq Seq(T)
    <3> SUFFICES ASSUME NEW name \in Names PROVE name \in Seq(T)
      OBVIOUS
    <3>1. name \in Seq(ToSet(name)) /\ Len(name) \in Nat
      BY NamesArePlain
    <3>2. ToSet(name) \subseteq T
      OBVIOUS
    <3> HIDE DEF T
    <3> QED BY <3>1, <3>2
  <2> HIDE DEF T
  <2> QED BY <2>1
<1> HIDE DEF T
<1> DEFINE path == PathOf(names)
<1>2. names = <<>> => path = <<"/">>
  BY DEF PathOf
<1>3. CASE names = <<>>
  <2>1. path = <<"/">> /\ path \in Seq(ToSet(path))
    <3>1. path = <<"/">>
      BY <1>2, <1>3
    <3> HIDE DEF path
    <3>2. path[1] = "/" /\ 1 \in DOMAIN path
      BY <3>1
    <3>3. "/" \in ToSet(path)
      BY <3>2 DEF ToSet
    <3> QED BY <3>1, <3>3
  <2> QED BY <1>3, <2>1
<1>4. CASE names # <<>>
  <2>1. path \in Seq(T \cup {"/"}) /\ \E m : Places(path, names, m)
    BY <1>1, <1>4, PlacesAre
  <2> HIDE DEF path
  <2>2. path \in Seq(ToSet(path))
    <3>1. \A i \in 1 .. Len(path) : path[i] \in ToSet(path)
      BY <2>1 DEF ToSet
    <3> QED BY <2>1, <3>1
  <2> QED BY <1>4, <2>1, <2>2 DEF path
<1> QED BY <1>3, <1>4

\* A route that takes the names of a path one by one cuts it.
LEMMA NamesCut ==
  ASSUME NEW p \in Scripts, NEW names \in Seq(Names), TakesPath(p, names),
         NEW path, path = PathOf(names)
  PROVE  CharacterFollows(p) /\ \E cut : Cuts(p, path, cut)
<1> DEFINE comps == Components(p)
<1>1. comps \in Seq(Comps) /\ PathOf(comps) = p /\ Len(comps) = Len(names)
  BY ComponentTypes DEF TakesPath
<1>2. path \in Seq(ToSet(path))
  BY PathFacts
<1> HIDE DEF comps
<1>3. CASE names = <<>>
  <2>1. comps = <<>>
    BY <1>1, <1>3
  <2>2. p = <<"/">> /\ path = <<"/">>
    BY <1>1, <1>3, <2>1, PathFacts DEF PathOf
  <2>3. Len(p) = 1 /\ p[1] \notin Wild
    BY <2>2, PathsAssumption
  <2>4. \A i \in 1 .. Len(p) : i = 1
    BY <2>3
  <2>5. \E cut : Cuts(p, p, cut)
    BY <1>2, <2>2, <2>3, <2>4, OwnCut
  <2>6. CharacterFollows(p)
    BY <2>3 DEF CharacterFollows
  <2> QED BY <2>2, <2>5, <2>6
<1>4. CASE names # <<>>
  <2>1. comps # <<>>
    BY <1>1, <1>4
  <2>2. PICK m : Places(path, names, m)
    BY <1>4, PathFacts
  <2>3. comps \in Seq(Seq(AllTokens))
    <3>1. Comps \subseteq Seq(AllTokens)
      BY DEF Comps, Names0
    <3> QED BY <1>1, <3>1
  <2>4. PICK o : Places(p, comps, o)
    <3>1. \E o : Places(PathOf(comps), comps, o)
      BY <2>1, <2>3, PlacesAre
    <3> QED BY <1>1, <3>1
  <2>5. \A k \in 1 .. Len(comps) : Takes(comps[k], names[k])
    BY <1>1 DEF TakesPath, comps
  <2>6. Taken(p, comps, o, path, names, m)
    BY <1>1, <1>2, <2>1, <2>2, <2>4, <2>5 DEF Taken, comps
  <2> QED BY <2>6, TakenFollows, TakenCuts
<1> QED BY <1>3, <1>4

\* A star in a pattern that scripts register is a component.
LEMMA StarsAreComponents ==
  ASSUME NEW p \in Scripts, NEW k \in 1 .. Len(Components(p)), NEW c, c = Components(p)[k],
         Star \in ToSet(c)
  PROVE  c = <<Star>>
<1> DEFINE comps == Components(p)
<1>1. /\ comps \in Seq(Comps) /\ PathOf(comps) = p /\ comps[k] \in Comps
      /\ Comps \subseteq Seq(AllTokens)
  BY ComponentTypes DEF Comps, Names0
<1>2. k \in 1 .. Len(comps) /\ c = comps[k]
  OBVIOUS
<1> HIDE DEF comps
<1>3. comps # <<>> /\ comps \in Seq(Seq(AllTokens))
  BY <1>1, <1>2
<1>4. PICK o : Places(p, comps, o)
  <2>1. \E o : Places(PathOf(comps), comps, o)
    BY <1>3, PlacesAre
  <2> QED BY <1>1, <2>1
<1>5. c \in Seq(AllTokens) /\ Len(c) \in Nat
  BY <1>1, <1>2
<1>6. PICK j \in 1 .. Len(c) : c[j] = Star
  BY <1>5 DEF ToSet
<1>7. Len(p) \in Nat /\ \A i \in 1 .. Len(p) - 1 : p[i] # Star
  BY ScriptFacts, PatternTypes DEF PatternIsLegal
<1>8. /\ o[k - 1] \in 0 .. Len(p) /\ o[k] \in 0 .. Len(p) /\ o[k] = o[k - 1] + 1 + Len(c)
      /\ \A i \in 1 .. Len(c) : p[o[k - 1] + 1 + i] = c[i]
  <2>1. k - 1 \in 0 .. Len(comps) /\ k \in 0 .. Len(comps)
    BY <1>2
  <2> QED BY <1>2, <1>4, <2>1 DEF Places
<1> DEFINE a == o[k - 1]
<1> HIDE DEF a
<1>9. /\ a \in Nat /\ a + 1 + Len(c) <= Len(p) /\ a + 1 + j \in 1 .. Len(p) /\ a + 1 + j \in Nat
      /\ p[a + 1 + j] = Star
  <2>1. a \in Nat /\ o[k] = a + 1 + Len(c) /\ o[k] <= Len(p)
    BY <1>5, <1>7, <1>8 DEF a
  <2> DEFINE b == Len(c)
  <2>2. b \in Nat /\ j \in 1 .. b /\ a + 1 + b <= Len(p)
    BY <1>5, <2>1
  <2> HIDE DEF b
  <2>3. a + 1 + j \in 1 .. Len(p) /\ a + 1 + j \in Nat
    BY <1>7, <2>1, <2>2
  <2>4. p[a + 1 + j] = c[j]
    BY <1>8 DEF a
  <2> QED BY <1>6, <2>1, <2>2, <2>3, <2>4 DEF b
\* It ends the pattern, and with it the component.
<1>10. j = Len(c)
  <2> DEFINE b == Len(c)
  <2>1. b \in Nat /\ j \in 1 .. b /\ a + 1 + b <= Len(p)
    BY <1>5, <1>9
  <2> HIDE DEF b
  <2>2. j # b => a + 1 + j \in 1 .. Len(p) - 1
    BY <1>7, <1>9, <2>1
  <2>3. j = b
    BY <1>7, <1>9, <2>2
  <2> QED BY <2>3 DEF b
\* And a slash is before it.
<1>11. j = 1
  <2>1. p[a + 1 + j - 1] = "/"
    <3>1. PatternIsWhole(p)
      BY ScriptFacts
    <3>2. a + 1 + j \in DOMAIN p
      <4>1. p \in Seq(ToSet(p))
        BY ScriptFacts DEF PatternIsLegal
      <4> QED BY <1>9, <4>1
    <3> QED BY <1>9, <3>1, <3>2 DEF PatternIsWhole
  <2>2. CASE j # 1
    <3>1. j - 1 \in 1 .. Len(c) /\ a + 1 + (j - 1) = a + 1 + j - 1
      BY <1>9, <2>2
    <3>2. c[j - 1] = "/"
      BY <1>8, <2>1, <3>1 DEF a
    <3>3. c[j - 1] \in AllTokens
      BY <1>5, <3>1
    <3> QED BY <3>2, <3>3 DEF AllTokens
  <2> QED BY <2>2
<1>12. Len(c) = 1 /\ c[1] = Star
  BY <1>6, <1>10, <1>11
<1>13. c = <<c[1]>>
  BY <1>5, <1>12
<1> QED BY <1>12, <1>13

\* What the walk takes for a component, the route takes, if its parameters are
\* components.
LEMMA WalkTakes ==
  ASSUME NEW p \in Scripts, WholeParams(p), NEW k \in 1 .. Len(Components(p)),
         NEW c, c = Components(p)[k], NEW name \in Names,
         \/ Kind(c) = "plain" /\ c = name
         \/ Kind(c) = "glob" /\ ComponentMatches(c, name)
         \/ Kind(c) \in {"param", "wildcard"}
  PROVE  Takes(c, name)
<1>1. c \in Comps /\ ToSet(c) \subseteq ToSet(p) \ {"/"} /\ ToSet(c) \cap Globs = {}
  BY ComponentTypes, ScriptFacts
<1>2. CASE Kind(c) = "glob" /\ ComponentMatches(c, name)
  <2>1. ToSet(c) \cap Starred = {}
    BY <1>2, GlobsAssumption DEF ComponentMatches
  <2>2. c # <<Star>> /\ ToSet(c) \cap ({Star} \cup Globs \cup Starred) # {}
    <3>1. c # <<Star>>
      BY <1>2 DEF Kind
    <3>2. CASE ToSet(c) \cap ({Star} \cup Globs \cup Starred) = {}
      BY <1>2, <3>1, <3>2 DEF Kind
    <3> QED BY <3>1, <3>2
  <2>3. Star \in ToSet(c)
    BY <1>1, <2>1, <2>2
  <2> QED BY <2>2, <2>3, StarsAreComponents
<1>3. CASE Kind(c) = "param"
  <2>1. c \in ToSet(Components(p))
    <3>1. Components(p) \in Seq(Comps)
      BY ComponentTypes
    <3> QED BY <3>1 DEF ToSet
  <2>2. Len(c) = 1 /\ Head(c) \in Params
    BY <1>3, <2>1 DEF WholeParams
  <2> QED BY <2>2 DEF Takes
<1>4. CASE Kind(c) = "wildcard"
  BY <1>4 DEF Takes
<1> QED BY <1>2, <1>3, <1>4 DEF Takes

\* What is mounted is registered, and scripts have written it.
LEMMA MountedRegistered ==
  ASSUME RadixInv(tree, registered), WalkInv, NEW r \in mounted
  PROVE  r[1] \in Ops /\ r[2] \in Scripts /\ r[2] \in Registered(r[1])
<1>1. mounted \subseteq Ops \X Scripts /\ r \in ListedRoutes
  BY DEF WalkInv
<1>2. PICK op \in Ops : r \in {op} \X Listed(op)
  BY <1>1 DEF ListedRoutes
<1>3. Listed(op) = Registered(op)
  BY ListsThem DEF ListsEveryRoute
<1> QED BY <1>1, <1>2, <1>3

\* The search of the radix tree finds what takes the names of the path.
LEMMA TakenIsServed ==
  ASSUME RadixInv(tree, registered), WalkInv, NEW r \in mounted, TakesPath(r[2], at.path)
  PROVE  Served(r[1], Here)
<1> DEFINE op == r[1]
           p == r[2]
           names == at.path
           path == PathOf(names)
<1>1. op \in Ops /\ p \in Scripts /\ p \in Registered(op) /\ names \in Seq(Names)
  BY MountedRegistered DEF WalkInv
<1>2. TakesPath(p, names)
  OBVIOUS
<1> HIDE DEF op, p, names
<1>3. CharacterFollows(p) /\ \E cut : Cuts(p, path, cut)
  BY <1>1, <1>2, NamesCut
<1>4. path \in Seq(ToSet(path))
  BY <1>1, PathFacts
<1> HIDE DEF path
<1>5. IsHit(FindRoute(tree, op, path))
  BY <1>1, <1>3, <1>4, HitsIfCut
<1> QED BY <1>1, <1>5 DEF Served, Here, op, path, names

\* A request on a path that a mounted route takes name by name is served, whatever
\* the walk made of the path (radix.go findRoute, fuse/server.go findChild).
THEOREM TakenRoutesAreServed == SpecTree => []RoutedNameByName
<1>1. RadixInv(tree, registered) /\ WalkInv => RoutedNameByName
  BY TakenIsServed DEF RoutedNameByName
<1> QED BY <1>1, WalksAreWalks, PTL

\* The route of a node that is walked to takes the names of the walk.
LEMMA WalkedTakes ==
  ASSUME mounted \subseteq Ops \X Scripts, NEW r \in mounted, NEW p, p = r[2], WholeParams(p),
         NEW way, way = Components(p), NEW path \in Seq(Names), Walked(way, path)
  PROVE  TakesPath(p, path)
<1>1. p \in Scripts /\ way \in Seq(Comps) /\ Len(way) \in Nat /\ Len(path) = Len(way)
  <2>1. p \in Scripts
    OBVIOUS
  <2> QED BY <2>1, ComponentTypes DEF Walked
<1>2. ASSUME NEW i \in 1 .. Len(path) PROVE Takes(way[i], path[i])
  <2> DEFINE k == i - 1
             before == SubSeq(way, 1, k)
             child == SubSeq(way, 1, k + 1)
  <2>1. k \in 0 .. Len(way) - 1 /\ k + 1 = i /\ i \in 1 .. Len(way)
    BY <1>1
  <2>2. Last(child) = way[k + 1]
    BY <2>1, NextOnTheWay
  <2>3. child \in FindChild(before, path[i]) /\ path[i] \in Names
    <3>1. SubSeq(way, 1, i) \in FindChild(SubSeq(way, 1, i - 1), path[i])
      BY <2>1 DEF Walked
    <3>2. SubSeq(way, 1, i) = child /\ SubSeq(way, 1, i - 1) = before
      BY <2>1
    <3>3. path[i] \in Names
      OBVIOUS
    <3> HIDE DEF before, child, k
    <3> QED BY <3>1, <3>2, <3>3
  <2> HIDE DEF before, child
  <2> DEFINE c == way[i]
             name == path[i]
  <2>4. Last(child) = c
    BY <2>1, <2>2
  <2> HIDE DEF k, c, name
  <2>5. \/ Kind(c) = "plain" /\ c = name
        \/ Kind(c) = "glob" /\ ComponentMatches(c, name)
        \/ Kind(c) \in {"param", "wildcard"}
    BY <2>3, <2>4, FindChildIs DEF name
  <2>6. i \in 1 .. Len(Components(p)) /\ c = Components(p)[i] /\ name \in Names
    BY <2>1, <2>3 DEF c, name
  <2>7. Takes(c, name)
    BY <1>1, <2>5, <2>6, WalkTakes
  <2> QED BY <2>7 DEF c, name
<1>3. DOMAIN path = 1 .. Len(path)
  OBVIOUS
<1> QED BY <1>1, <1>2, <1>3 DEF TakesPath

\* And what the walk reaches with a handler is served, although the tree compares
\* components and the radix tree characters (fuse/server.go findChild, tree.go
\* addRouteToTree, radix.go findRoute).
THEOREM WalkedRoutesAreServed == SpecTree => []WalkedIsServed
<1>1. RadixInv(tree, registered) /\ WalkInv => WalkedIsServed
  <2> SUFFICES ASSUME RadixInv(tree, registered), WalkInv, at.virtual = "no",
                      NEW r \in Handlers(at.node), WholeParams(r[2])
               PROVE  Served(r[1], Here)
    BY DEF WalkedIsServed
  <2>1. r \in mounted /\ at.node = Components(r[2])
    BY DEF Handlers
  <2>2. mounted \subseteq Ops \X Scripts /\ Walked(at.node, at.path) /\ at.path \in Seq(Names)
    BY DEF WalkInv
  <2>3. TakesPath(r[2], at.path)
    BY <2>1, <2>2, WalkedTakes
  <2> QED BY <2>1, <2>3, TakenIsServed
<1> QED BY <1>1, WalksAreWalks, PTL

----------------------------------------------------------------------------
(* Which route a search finds *)

\* The child's prefix is read before the rest.
LEMMA ReadsOnFrom ==
  ASSUME NEW reg, NEW path, Len(path) \in Nat, NEW n \in Nat \X Nat, NEW k \in Nat \X Nat,
         NEW m \in Nat \X Nat, NEW nodes, Spans(reg, nodes[k].prefix, n, k), Leads(reg, k, m),
         NEW used, NEW u, StepsTo(nodes, path, n, k, used, u), ReadsOn(reg, m, path, k[2], u)
  PROVE  ReadsOn(reg, m, path, n[2], used)
<1> DEFINE prefix == nodes[k].prefix
           a == n[2]
           b == k[2]
           d == m[2]
<1>1. /\ a \in Nat /\ b \in Nat /\ d \in Nat /\ a < b /\ b <= d
      /\ used \in 0 .. Len(path) /\ u \in 0 .. Len(path) /\ used \in Nat
  BY DEF Spans, Leads, StepsTo
<1>2. PICK cut \in [b .. d -> 0 .. Len(path)] :
        /\ cut[b] = u /\ cut[d] = Len(path)
        /\ \A i \in b + 1 .. d : Way(reg, m, i).typ = "static" =>
             cut[i] = cut[i - 1] + 1 /\ path[cut[i]] = Way(reg, m, i).text
  BY DEF ReadsOn
<1>3. /\ Len(prefix) = b - a
      /\ \A i \in a + 1 .. b : i - a \in 1 .. b - a /\ Way(reg, m, i) = prefix[i - a]
  <2>1. ASSUME NEW i \in a + 1 .. b PROVE i - a \in 1 .. b - a /\ Way(reg, m, i) = prefix[i - a]
    <3> DEFINE j == i - a
    <3>1. j \in 1 .. b - a /\ a + j = i /\ i \in 1 .. b
      BY <1>1
    <3> HIDE DEF j
    <3>2. prefix[j] = Way(reg, k, a + j)
      BY <3>1 DEF Spans
    <3>3. Way(reg, k, i) = Way(reg, m, i)
      BY <3>1 DEF Leads
    <3> QED BY <3>1, <3>2, <3>3 DEF j
  <2> QED BY <2>1 DEF Spans
\* Where the prefix is not static it has one edge.
<1>4. ASSUME NEW i \in a + 1 .. b, Way(reg, m, i).typ = "static"
      PROVE  /\ b <= d /\ u = used + (b - a) /\ used + (i - a) \in 0 .. Len(path)
             /\ path[used + (i - a)] = Way(reg, m, i).text
  <2>1. prefix[1].typ = "static"
    <3>1. CASE b - a > 1
      <4>1. 1 \in 1 .. b - a
        BY <1>1
      <4> QED BY <3>1, <4>1 DEF Spans
    <3>2. CASE ~(b - a > 1)
      <4>1. i - a = 1
        BY <1>1, <3>2
      <4> QED BY <1>3, <1>4, <4>1
    <3> QED BY <3>1, <3>2
  <2>2. u = used + (b - a) /\ \A j \in 1 .. b - a : prefix[j].text = path[used + j]
    BY <1>3, <2>1 DEF StepsTo
  <2>3. used + (i - a) \in 0 .. Len(path)
    BY <1>1, <2>2
  <2> QED BY <1>1, <1>3, <2>2, <2>3
<1> HIDE DEF a, b, d, prefix
<1> DEFINE static == \A i \in a + 1 .. b : Way(reg, m, i).typ = "static"
           cut2 == [i \in a .. d |-> IF i < b THEN (IF static THEN used + (i - a) ELSE used) ELSE cut[i]]
<1>5. \A i \in a .. d : /\ i < b => cut2[i] = IF static THEN used + (i - a) ELSE used
                        /\ ~(i < b) => cut2[i] = cut[i] /\ i \in b .. d
  BY <1>1
<1>6. static => u = used + (b - a)
  <2>1. b \in a + 1 .. b
    BY <1>1
  <2> QED BY <1>4, <2>1
<1>7. ~static => b = a + 1 /\ Way(reg, m, b).typ # "static"
  <2> SUFFICES ASSUME NEW i \in a + 1 .. b, Way(reg, m, i).typ # "static"
               PROVE  b = a + 1 /\ Way(reg, m, b).typ # "static"
    OBVIOUS
  <2>1. ~(b - a > 1)
    <3>1. i - a \in 1 .. b - a /\ prefix[i - a].typ # "static"
      BY <1>3
    <3> QED BY <3>1 DEF Spans, prefix, a, b
  <2>2. b = a + 1 /\ i = b
    BY <1>1, <2>1
  <2> QED BY <2>2
<1> HIDE DEF cut2
<1>8. \A i \in a .. d : cut2[i] \in 0 .. Len(path)
  <2> SUFFICES ASSUME NEW i \in a .. d PROVE cut2[i] \in 0 .. Len(path)
    OBVIOUS
  <2>1. CASE i < b
    <3>1. static => used + (i - a) \in 0 .. Len(path)
      <4>1. static => i = a \/ (i \in a + 1 .. b /\ Way(reg, m, i).typ = "static")
        BY <1>1, <2>1
      <4>2. i = a => used + (i - a) = used
        BY <1>1
      <4> HIDE DEF static
      <4> QED BY <1>1, <1>4, <4>1, <4>2
    <3> HIDE DEF static
    <3> QED BY <1>1, <1>5, <2>1, <3>1
  <2>2. CASE ~(i < b)
    BY <1>2, <1>5, <2>2
  <2> QED BY <2>1, <2>2
<1>9. cut2 \in [a .. d -> 0 .. Len(path)]
  <2>1. cut2 = [i \in a .. d |-> cut2[i]]
    BY DEF cut2
  <2> QED BY <1>8, <2>1
<1> HIDE DEF static
<1>10. cut2[a] = used /\ cut2[d] = Len(path)
  <2>1. a \in a .. d /\ a < b /\ used + (a - a) = used /\ d \in a .. d /\ ~(d < b)
    BY <1>1
  <2> QED BY <1>2, <1>5, <2>1
<1>11. ASSUME NEW i \in a + 1 .. d, Way(reg, m, i).typ = "static"
       PROVE  cut2[i] = cut2[i - 1] + 1 /\ path[cut2[i]] = Way(reg, m, i).text
  <2>1. i \in a .. d /\ i - 1 \in a .. d /\ i - 1 \in Nat
    BY <1>1
  <2>2. CASE b < i
    <3>1. i \in b + 1 .. d /\ ~(i < b) /\ ~(i - 1 < b)
      BY <1>1, <2>2
    <3> QED BY <1>2, <1>5, <1>11, <2>1, <3>1
  <2>3. CASE i <= b
    <3>1. i \in a + 1 .. b
      BY <1>1, <2>3
    <3>2. static
      <4>1. ~static => i = b
        BY <1>1, <1>7, <3>1
      <4> QED BY <1>7, <1>11, <4>1
    <3>3. cut2[i - 1] = used + ((i - 1) - a)
      <4>1. i - 1 < b
        BY <1>1, <2>3
      <4> QED BY <1>5, <2>1, <3>2, <4>1
    <3>4. cut2[i] = used + (i - a)
      <4>1. CASE i < b
        BY <1>5, <2>1, <3>2, <4>1
      <4>2. CASE ~(i < b)
        <5>1. i = b
          BY <1>1, <2>3, <4>2
        <5> QED BY <1>2, <1>5, <1>6, <2>1, <3>2, <4>2, <5>1
      <4> QED BY <4>1, <4>2
    <3>5. used + (i - a) = (used + ((i - 1) - a)) + 1
      BY <1>1, <2>1
    <3> QED BY <1>4, <1>11, <3>1, <3>3, <3>4, <3>5
  <2> QED BY <1>1, <2>2, <2>3
<1> QED BY <1>9, <1>10, <1>11 DEF ReadsOn, a, d

\* A child that is tried, and what the search goes to from a node.
LEMMA TryFinds ==
  ASSUME NEW nodes, NEW reg, IsLog(reg), IsTree(nodes, reg), NEW n \in DOMAIN nodes,
         NEW k \in Kids(nodes, n), NEW op, NEW path, Len(path) \in Nat, NEW used, NEW u,
         StepsTo(nodes, path, n, k, used, u), NEW r, FoundIfHit(nodes, reg, op, path, k, k[2], u, r)
  PROVE  FoundIfHit(nodes, reg, op, path, k, n[2], used, r)
<1> SUFFICES ASSUME IsHit(r) PROVE FoundOn(nodes, reg, op, path, k, n[2], used, r)
  BY DEF FoundIfHit
<1>1. PICK m \in DOMAIN nodes :
        Leads(reg, k, m) /\ r.pattern = nodes[m].eps[op] /\ ReadsOn(reg, m, path, k[2], u)
  BY DEF FoundIfHit, FoundOn
<1>2. k \in Nat \X Nat /\ n \in Nat \X Nat /\ Spans(reg, nodes[k].prefix, n, k)
  BY KidFacts
<1>3. m \in Nat \X Nat
  BY PositionTypes DEF IsTree, Placed
<1>4. ReadsOn(reg, m, path, n[2], used)
  BY <1>1, <1>2, <1>3, ReadsOnFrom
<1> QED BY <1>1, <1>4 DEF FoundOn

LEMMA TryIsFound ==
  ASSUME NEW nodes, NEW reg, IsLog(reg), IsTree(nodes, reg), NEW n \in DOMAIN nodes,
         NEW k \in Kids(nodes, n), NEW op, NEW path, Len(path) \in Nat, NEW used, NEW u,
         StepsTo(nodes, path, n, k, used, u), NEW vs \in Stacks, NEW find,
         FoundBelow(find, nodes, reg, op, path, n)
  PROVE  FoundIfHit(nodes, reg, op, path, k, n[2], used, Try(find, nodes, op, path, k, u, vs))
<1> DEFINE T == Try(find, nodes, op, path, k, u, vs)
<1>1. u \in 0 .. Len(path)
  BY DEF StepsTo
<1>2. k \in DOMAIN nodes /\ k \in Nat \X Nat
  BY KidFacts
<1>3. FoundIfHit(nodes, reg, op, path, k, k[2], u, T)
  <2>1. CASE u = Len(path) /\ nodes[k].eps[op] # NoRoute
    <3>1. T.pattern = nodes[k].eps[op]
      BY <2>1 DEF Try
    <3> HIDE DEF T
    <3>2. Leads(reg, k, k)
      BY <1>2, LeadsOn
    <3>3. ReadsOn(reg, k, path, k[2], u)
      <4> DEFINE cut == [i \in k[2] .. k[2] |-> u]
      <4>1. k[2] \in k[2] .. k[2] /\ \A i \in k[2] + 1 .. k[2] : FALSE
        BY <1>2
      <4>2. cut \in [k[2] .. k[2] -> 0 .. Len(path)] /\ cut[k[2]] = u
        BY <1>1, <4>1
      <4> HIDE DEF cut
      <4> QED BY <2>1, <4>1, <4>2 DEF ReadsOn
    <3> QED BY <1>2, <3>1, <3>2, <3>3 DEF FoundIfHit, FoundOn
  <2>2. CASE ~(u = Len(path) /\ nodes[k].eps[op] # NoRoute)
    <3>1. T = find[<<k, 1, u, vs>>]
      BY <2>2 DEF Try
    <3>2. FoundIfHit(nodes, reg, op, path, k, k[2], u, find[<<k, 1, u, vs>>])
      BY <1>1 DEF FoundBelow
    <3> HIDE DEF T
    <3> QED BY <3>1, <3>2
  <2> QED BY <2>1, <2>2
<1> HIDE DEF T
<1>4. FoundIfHit(nodes, reg, op, path, k, n[2], used, T)
  BY <1>3, TryFinds
<1> QED BY <1>4 DEF T

\* What a group finds, it finds at one of its nodes.
LEMMA MissIsNone ==
  ASSUME NEW nodes, NEW reg, NEW op, NEW path, NEW n, NEW t, NEW used, NEW vals, NEW r,
         r = Miss(vals)
  PROVE  FoundIn(nodes, reg, op, path, n, t, used, r)
<1>1. ~IsHit(r)
  BY DEF Miss, IsHit
<1> QED BY <1>1 DEF FoundIn

LEMMA StaticFinds ==
  ASSUME NEW nodes, NEW reg, IsLog(reg), IsTree(nodes, reg), NEW n, NEW ns,
         IsGroup(nodes, n, "static", ns), NEW path, Len(path) \in Nat, NEW op,
         NEW used \in 0 .. Len(path), NEW vals \in Stacks, NEW find,
         FoundBelow(find, nodes, reg, op, path, n)
  PROVE  FoundIn(nodes, reg, op, path, n, "static", used,
                 InStatic(find, nodes, op, path, ns, used, vals))
<1> DEFINE k == CHOOSE x \in Fitting(nodes, ns, path, used) : TRUE
           u == used + Len(nodes[k].prefix)
           r == InStatic(find, nodes, op, path, ns, used, vals)
<1>1. CASE Fitting(nodes, ns, path, used) = {}
  <2>1. r = Miss(vals)
    BY <1>1 DEF InStatic
  <2> HIDE DEF r
  <2>2. FoundIn(nodes, reg, op, path, n, "static", used, r)
    BY <2>1, MissIsNone
  <2> QED BY <2>2 DEF r
<1>2. CASE Fitting(nodes, ns, path, used) # {}
  <2>1. k \in Fitting(nodes, ns, path, used)
    BY <1>2
  <2>2. r = Try(find, nodes, op, path, k, u, vals)
    BY <1>2 DEF InStatic
  <2> HIDE DEF k, r
  <2>3. k \in ToSet(ns) /\ n \in DOMAIN nodes /\ ns = nodes[n].kids["static"]
    BY <2>1 DEF Fitting, IsGroup
  <2>4. k \in Kids(nodes, n)
    BY <2>3 DEF Kids, NodeTypes
  <2>5. nodes[k].prefix \in Seq(AllEdges)
    BY <2>3, <2>4, KidFacts
  <2>6. DOMAIN nodes[k].prefix = 1 .. Len(nodes[k].prefix) /\ Len(nodes[k].prefix) \in Nat
    BY <2>5
  <2>7. /\ u <= Len(path)
        /\ \A i \in 1 .. Len(nodes[k].prefix) : nodes[k].prefix[i].text = path[used + i]
    BY <2>1, <2>6 DEF Fitting
  <2>8. u \in 0 .. Len(path)
    BY <2>6, <2>7
  <2>9. StepsTo(nodes, path, n, k, used, u)
    BY <2>7, <2>8 DEF StepsTo
  <2> HIDE DEF u
  <2>10. FoundIfHit(nodes, reg, op, path, k, n[2], used, r)
    BY <2>2, <2>3, <2>4, <2>9, TryIsFound
  <2>11. FoundIn(nodes, reg, op, path, n, "static", used, r)
    BY <2>3, <2>10 DEF FoundIfHit, FoundIn
  <2> QED BY <2>11 DEF r
<1> QED BY <1>1, <1>2

\* Any other node takes a value.
LEMMA TakerSteps ==
  ASSUME NEW nodes, NEW reg, IsTree(nodes, reg), NEW n, NEW t, NEW ns,
         IsGroup(nodes, n, t, ns), t # "static", NEW path, Len(path) \in Nat,
         NEW used \in 0 .. Len(path), NEW to \in used .. Len(path), NEW i \in 1 .. Len(ns)
  PROVE  /\ ns[i] \in Kids(nodes, n) /\ ns[i] \in ToSet(nodes[n].kids[t]) /\ n \in DOMAIN nodes
         /\ StepsTo(nodes, path, n, ns[i], used, to)
<1>1. ns[i] \in Kids(nodes, n) /\ ns[i] \in ToSet(ns)
  BY GroupFacts
<1>2. n \in DOMAIN nodes /\ t \in NodeTypes /\ ns = nodes[n].kids[t]
  BY DEF IsGroup
<1>3. nodes[ns[i]].prefix[1].typ = t
  BY <1>1, <1>2 DEF IsTree, KidsFit
<1>4. to \in 0 .. Len(path)
  OBVIOUS
<1> QED BY <1>1, <1>2, <1>3, <1>4 DEF StepsTo

LEMMA ValueFinds ==
  ASSUME NEW nodes, NEW reg, IsLog(reg), IsTree(nodes, reg), NEW n, NEW t, NEW ns,
         IsGroup(nodes, n, t, ns), t # "static", NEW path, Len(path) \in Nat, NEW op,
         NEW used \in 0 .. Len(path), NEW vals \in Stacks, NEW find,
         FoundBelow(find, nodes, reg, op, path, n), NEW i \in 1 .. Len(ns)
  PROVE  FoundIfHit(nodes, reg, op, path, ns[i], n[2], used,
                    WithValue(find, nodes, op, path, ns[i], used, vals))
<1> DEFINE to == ValueEnd(nodes[ns[i]].prefix[1], path, used)
           vs == Append(vals, <<used, to>>)
           W == WithValue(find, nodes, op, path, ns[i], used, vals)
<1>1. to \in used .. Len(path)
  BY ValueEndIs
<1>2. W = Try(find, nodes, op, path, ns[i], to, vs)
  BY DEF WithValue
<1> HIDE DEF to, W
<1>3. used \in Nat /\ to \in Nat
  BY <1>1
<1>4. vs \in Stacks
  BY <1>3, MissTypes
<1> HIDE DEF vs
<1>5. ns[i] \in Kids(nodes, n) /\ n \in DOMAIN nodes /\ StepsTo(nodes, path, n, ns[i], used, to)
  BY <1>1, TakerSteps
<1>6. FoundIfHit(nodes, reg, op, path, ns[i], n[2], used, W)
  BY <1>2, <1>4, <1>5, TryIsFound
<1> QED BY <1>6 DEF W

LEMMA ParamsFind ==
  ASSUME NEW nodes, NEW reg, IsLog(reg), IsTree(nodes, reg), NEW n, NEW t, NEW ns,
         IsGroup(nodes, n, t, ns), t # "static", NEW path, Len(path) \in Nat, NEW op,
         NEW used \in 0 .. Len(path), NEW vals \in Stacks, NEW find,
         FoundBelow(find, nodes, reg, op, path, n)
  PROVE  FoundIn(nodes, reg, op, path, n, t, used, InParams(find, nodes, op, path, ns, used, vals))
<1> DEFINE W(i) == WithValue(find, nodes, op, path, ns[i], used, vals)
           found == {i \in DOMAIN ns : TakesValue(nodes[ns[i]].prefix[1], path, used) /\ IsHit(W(i))}
           first == CHOOSE i \in found : \A j \in found : i <= j
           empty == Append(vals, <<used, used>>)
           end == find[<<ns[Len(ns)], 1, used, empty>>]
           r == InParams(find, nodes, op, path, ns, used, vals)
<1>1. r = IF used = Len(path) THEN Miss(vals)
          ELSE IF found # {} THEN W(first)
          ELSE IF IsHit(end) THEN end ELSE Miss(Pop(end.vals))
  BY DEF InParams
<1>2. Len(ns) \in Nat \ {0} /\ DOMAIN ns = 1 .. Len(ns) /\ Len(ns) \in 1 .. Len(ns) /\ used \in used .. Len(path)
  <2>1. Len(ns) \in Nat \ {0} /\ DOMAIN ns = 1 .. Len(ns)
    BY GroupFacts
  <2> QED BY <2>1
<1>3. found # {} => first \in 1 .. Len(ns)
  <2>1. found \in SUBSET Nat /\ found \subseteq 1 .. Len(ns)
    BY <1>2
  <2> HIDE DEF found
  <2> QED BY <2>1, LeastNumber
<1> HIDE DEF found, first
<1>4. ASSUME NEW i \in 1 .. Len(ns) PROVE FoundIn(nodes, reg, op, path, n, t, used, W(i))
  <2>1. FoundIfHit(nodes, reg, op, path, ns[i], n[2], used, W(i))
    BY ValueFinds
  <2>2. ns[i] \in ToSet(nodes[n].kids[t])
    BY <1>2, TakerSteps
  <2> HIDE DEF W
  <2> QED BY <2>1, <2>2 DEF FoundIfHit, FoundIn
<1> HIDE DEF W
<1>5. FoundIn(nodes, reg, op, path, n, t, used, end)
  <2> DEFINE k == ns[Len(ns)]
  <2>1. /\ k \in Kids(nodes, n) /\ k \in ToSet(nodes[n].kids[t]) /\ n \in DOMAIN nodes
        /\ StepsTo(nodes, path, n, k, used, used)
    BY <1>2, TakerSteps
  <2>2. empty \in Stacks
    <3>1. used \in Nat
      OBVIOUS
    <3> QED BY <3>1, MissTypes
  <2>3. FoundIfHit(nodes, reg, op, path, k, k[2], used, end)
    <3> HIDE DEF empty, k
    <3>1. FoundIfHit(nodes, reg, op, path, k, k[2], used, find[<<k, 1, used, empty>>])
      BY <2>1, <2>2 DEF FoundBelow
    <3> QED BY <3>1 DEF k
  <2> HIDE DEF end, k
  <2>4. FoundIfHit(nodes, reg, op, path, k, n[2], used, end)
    BY <2>1, <2>3, TryFinds
  <2> QED BY <2>1, <2>4 DEF FoundIfHit, FoundIn
<1> HIDE DEF end, r
<1>6. r = W(first) \/ r = end \/ r = Miss(vals) \/ r = Miss(Pop(end.vals))
  BY <1>1
<1>7. r = W(first) /\ found # {} => FoundIn(nodes, reg, op, path, n, t, used, r)
  BY <1>3, <1>4
<1>8. r = Miss(vals) \/ r = Miss(Pop(end.vals)) => FoundIn(nodes, reg, op, path, n, t, used, r)
  BY MissIsNone
<1>9. FoundIn(nodes, reg, op, path, n, t, used, r)
  BY <1>1, <1>5, <1>7, <1>8
<1> QED BY <1>9 DEF r

LEMMA CatchAllFinds ==
  ASSUME NEW nodes, NEW reg, IsLog(reg), IsTree(nodes, reg), NEW n, NEW t, NEW ns,
         IsGroup(nodes, n, t, ns), t # "static", NEW path, Len(path) \in Nat, NEW op,
         NEW used \in 0 .. Len(path), NEW vals \in Stacks, NEW find,
         FoundBelow(find, nodes, reg, op, path, n)
  PROVE  FoundIn(nodes, reg, op, path, n, t, used, InCatchAll(find, nodes, op, path, ns, used, vals))
<1> DEFINE vs == Append(vals, <<used, Len(path)>>)
           T == Try(find, nodes, op, path, ns[1], Len(path), vs)
           r == InCatchAll(find, nodes, op, path, ns, used, vals)
<1>1. r = IF IsHit(T) THEN T ELSE Miss(Pop(T.vals))
  BY DEF InCatchAll
<1>2. 1 \in 1 .. Len(ns) /\ Len(path) \in used .. Len(path) /\ used \in Nat
  <2>1. Len(ns) \in Nat \ {0}
    BY GroupFacts
  <2> QED BY <2>1
<1>3. vs \in Stacks
  BY <1>2, MissTypes
<1> HIDE DEF vs
<1>4. /\ ns[1] \in Kids(nodes, n) /\ ns[1] \in ToSet(nodes[n].kids[t]) /\ n \in DOMAIN nodes
      /\ StepsTo(nodes, path, n, ns[1], used, Len(path))
  BY <1>2, TakerSteps
<1>5. FoundIfHit(nodes, reg, op, path, ns[1], n[2], used, T)
  BY <1>3, <1>4, TryIsFound
<1> HIDE DEF T, r
<1>6. FoundIn(nodes, reg, op, path, n, t, used, T)
  BY <1>4, <1>5 DEF FoundIfHit, FoundIn
<1>7. FoundIn(nodes, reg, op, path, n, t, used, r)
  BY <1>1, <1>6, MissIsNone
<1> QED BY <1>7 DEF r

LEMMA GroupFinds ==
  ASSUME NEW nodes, NEW reg, IsLog(reg), IsTree(nodes, reg), NEW n \in DOMAIN nodes,
         NEW t \in NodeTypes, NEW path, Len(path) \in Nat, NEW op,
         NEW used \in 0 .. Len(path), NEW vals \in Stacks, NEW find,
         FoundBelow(find, nodes, reg, op, path, n)
  PROVE  FoundIn(nodes, reg, op, path, n, t, used, InGroup(find, nodes, op, path, n, t, used, vals))
<1> DEFINE ns == nodes[n].kids[t]
           r == InGroup(find, nodes, op, path, n, t, used, vals)
<1>1. CASE ns = <<>>
  <2>1. r = Miss(vals)
    BY <1>1 DEF InGroup
  <2> HIDE DEF r
  <2>2. FoundIn(nodes, reg, op, path, n, t, used, r)
    BY <2>1, MissIsNone
  <2> QED BY <2>2 DEF r
<1>2. CASE ns # <<>>
  <2>1. IsGroup(nodes, n, t, ns)
    BY <1>2 DEF IsGroup, IsTree
  <2>2. CASE t = "static"
    <3>1. r = InStatic(find, nodes, op, path, ns, used, vals)
      BY <1>2, <2>2 DEF InGroup
    <3>2. IsGroup(nodes, n, "static", ns)
      BY <2>1, <2>2
    <3> HIDE DEF ns, r
    <3>3. FoundIn(nodes, reg, op, path, n, t, used, r)
      BY <2>2, <3>1, <3>2, StaticFinds
    <3> QED BY <3>3 DEF r
  <2>3. CASE t \in {"regexp", "param"}
    <3>1. r = InParams(find, nodes, op, path, ns, used, vals)
      BY <1>2, <2>3 DEF InGroup
    <3>2. t # "static"
      BY <2>3
    <3> HIDE DEF ns, r
    <3>3. FoundIn(nodes, reg, op, path, n, t, used, r)
      BY <2>1, <3>1, <3>2, ParamsFind
    <3> QED BY <3>3 DEF r
  <2>4. CASE t = "catchall"
    <3>1. t # "static" /\ t \notin {"regexp", "param"}
      BY <2>4
    <3>2. r = InCatchAll(find, nodes, op, path, ns, used, vals)
      BY <1>2, <2>4, <3>1 DEF InGroup
    <3> HIDE DEF ns, r
    <3>3. FoundIn(nodes, reg, op, path, n, t, used, r)
      BY <2>1, <3>1, <3>2, CatchAllFinds
    <3> QED BY <3>3 DEF r
  <2> QED BY <2>2, <2>3, <2>4 DEF NodeTypes
<1> QED BY <1>1, <1>2

\* By induction on the size of a call, what a search finds below a node, it finds
\* at an endpoint that the node leads to.
LEMMA SearchFinds ==
  ASSUME NEW nodes, NEW reg, IsLog(reg), IsTree(nodes, reg), NEW op \in Ops,
         NEW path, Len(path) \in Nat, NEW find, IsSearch(find, nodes, op, path)
  PROVE  \A n \in DOMAIN nodes : FoundBelow(find, nodes, reg, op, path, n)
<1>1. PICK B \in Nat : \A n \in Positions(reg) : n[2] <= B
  BY LongestPattern
<1>2. \A n \in DOMAIN nodes : n[2] \in 0 .. B /\ n \in Nat \X Nat
  BY <1>1, PositionTypes DEF IsTree, Placed
<1> DEFINE All(n, g) == \A used \in 0 .. Len(path), vals \in Stacks :
             FoundIfHit(nodes, reg, op, path, n, n[2], used, find[<<n, g, used, vals>>])
           S == {b \in Nat : \A n \in DOMAIN nodes : \A g \in 1 .. 5 :
                   CallSize(B, n[2], g) < b => All(n, g)}
<1>3. \A n \in DOMAIN nodes : \A g \in 1 .. 5 : CallSize(B, n[2], g) \in 0 .. B * 5 + 4
  <2> TAKE n \in DOMAIN nodes
  <2> TAKE g \in 1 .. 5
  <2>1. n[2] \in 0 .. B
    BY <1>2
  <2> QED BY <1>1, <2>1, CallSizes
<1>4. 0 \in S
  <2>1. \A n \in DOMAIN nodes : \A g \in 1 .. 5 : ~(CallSize(B, n[2], g) < 0)
    <3> TAKE n \in DOMAIN nodes
    <3> TAKE g \in 1 .. 5
    <3>1. CallSize(B, n[2], g) \in 0 .. B * 5 + 4
      BY <1>3
    <3> QED BY <3>1
  <2> QED BY <2>1
<1>5. ASSUME NEW b \in Nat, b \in S PROVE b + 1 \in S
  <2> SUFFICES ASSUME NEW n \in DOMAIN nodes, NEW g \in 1 .. 5, CallSize(B, n[2], g) < b + 1
               PROVE  All(n, g)
    OBVIOUS
  <2>1. n[2] \in 0 .. B /\ CallSize(B, n[2], g) \in Nat
    <3>1. CallSize(B, n[2], g) \in 0 .. B * 5 + 4
      BY <1>3
    <3> QED BY <1>2, <3>1
  <2>2. ASSUME NEW m \in DOMAIN nodes, NEW h \in 1 .. 5, CallSize(B, m[2], h) < CallSize(B, n[2], g)
        PROVE  All(m, h)
    <3>1. CallSize(B, m[2], h) \in 0 .. B * 5 + 4
      BY <1>3
    <3>2. CallSize(B, m[2], h) < b
      BY <2>1, <2>2, <3>1
    <3> HIDE DEF All
    <3> QED BY <1>5, <3>2
  <2>3. FoundBelow(find, nodes, reg, op, path, n)
    <3> SUFFICES ASSUME NEW k \in Kids(nodes, n) PROVE All(k, 1)
      BY DEF FoundBelow
    <3>1. k \in DOMAIN nodes /\ n[2] < k[2]
      BY KidFacts DEF Spans
    <3>2. k[2] \in n[2] + 1 .. B /\ 1 \in 1 .. 5
      BY <1>1, <1>2, <2>1, <3>1
    <3>3. CallSize(B, k[2], 1) < CallSize(B, n[2], g)
      BY <1>1, <2>1, <3>2, CallSizes
    <3> HIDE DEF All
    <3> QED BY <2>2, <3>1, <3>2, <3>3
  <2> SUFFICES ASSUME NEW used \in 0 .. Len(path), NEW vals \in Stacks
               PROVE  FoundIfHit(nodes, reg, op, path, n, n[2], used, find[<<n, g, used, vals>>])
    OBVIOUS
  <2> DEFINE R == InGroup(find, nodes, op, path, n, Groups[g], used, vals)
             f == find[<<n, g, used, vals>>]
  <2>4. f = IF g > 4 THEN Miss(vals) ELSE IF IsHit(R) THEN R ELSE find[<<n, g + 1, used, R.vals>>]
    <3>1. f = FindFrom(find, nodes, op, path, n, g, used, vals)
      BY DEF IsSearch
    <3> QED BY <3>1, GroupsAre DEF FindFrom
  <2>5. CASE g > 4
    <3>1. ~IsHit(f)
      BY <2>4, <2>5, MissTypes
    <3> QED BY <3>1 DEF FoundIfHit
  <2>6. CASE ~(g > 4)
    <3>1. g \in 1 .. 4 /\ g + 1 \in 1 .. 5
      BY <2>6
    <3>2. Groups[g] \in NodeTypes
      BY <3>1, GroupsAre
    <3>3. FoundIn(nodes, reg, op, path, n, Groups[g], used, R)
      BY <2>3, <3>2, GroupFinds
    <3>4. CASE IsHit(R)
      <4>1. f = R
        BY <2>4, <2>6, <3>4
      <4> HIDE DEF R, f
      <4>2. PICK k \in ToSet(nodes[n].kids[Groups[g]]) : FoundOn(nodes, reg, op, path, k, n[2], used, R)
        BY <3>3, <3>4 DEF FoundIn
      <4>3. PICK m \in DOMAIN nodes : /\ Leads(reg, k, m) /\ R.pattern = nodes[m].eps[op]
                                      /\ ReadsOn(reg, m, path, n[2], used)
        BY <4>2 DEF FoundOn
      <4>4. k \in Kids(nodes, n)
        BY <3>2, <4>2 DEF Kids
      <4>5. Leads(reg, n, k) /\ k \in Nat \X Nat /\ n \in Nat \X Nat
        BY <4>4, KidFacts DEF Spans
      <4>6. Leads(reg, n, m)
        BY <1>2, <4>3, <4>5, LeadsOn
      <4>7. FoundIfHit(nodes, reg, op, path, n, n[2], used, R)
        BY <4>3, <4>6 DEF FoundIfHit, FoundOn
      <4> QED BY <4>1, <4>7 DEF f
    <3>5. CASE ~IsHit(R)
      <4>1. R.vals \in Stacks
        <5>1. Answers(find, nodes, path, n)
          <6>1. \A k \in Kids(nodes, n) : k \in DOMAIN nodes
            BY KidFacts
          <6>2. 1 \in 1 .. 5
            OBVIOUS
          <6>3. \A k \in Kids(nodes, n), u \in 0 .. Len(path), vs \in Stacks :
                  <<k, 1, u, vs>> \in Calls(nodes, path)
            BY <6>1, <6>2, CallTypes
          <6> QED BY <6>3 DEF Answers, IsSearch
        <5>2. R \in Results
          <6>1. IsHeap(nodes)
            BY DEF IsTree
          <6> QED BY <3>2, <5>1, <6>1, GroupTypes
        <5> HIDE DEF R
        <5> QED BY <5>2 DEF Results
      <4> HIDE DEF R
      <4>2. f = find[<<n, g + 1, used, R.vals>>]
        BY <2>4, <2>6, <3>5
      <4>3. CallSize(B, n[2], g + 1) < CallSize(B, n[2], g)
        BY <1>1, <2>1, CallSizes
      <4>4. All(n, g + 1)
        <5> HIDE DEF All
        <5> QED BY <2>2, <3>1, <4>3
      <4>5. FoundIfHit(nodes, reg, op, path, n, n[2], used, find[<<n, g + 1, used, R.vals>>])
        BY <4>1, <4>4
      <4> HIDE DEF f
      <4> QED BY <4>2, <4>5 DEF f
    <3> QED BY <3>4, <3>5
  <2> QED BY <2>5, <2>6
<1>6. \A b \in Nat : b \in S
  <2> HIDE DEF S
  <2> QED BY <1>4, <1>5, AllNumbers
<1>7. B * 5 + 5 \in Nat /\ B * 5 + 5 \in S
  BY <1>6
<1>8. ASSUME NEW k \in DOMAIN nodes PROVE All(k, 1)
  <2>1. CallSize(B, k[2], 1) \in 0 .. B * 5 + 4 /\ 1 \in 1 .. 5
    BY <1>3
  <2>2. CallSize(B, k[2], 1) < B * 5 + 5
    BY <1>1, <2>1
  <2> HIDE DEF All
  <2> QED BY <1>7, <2>1, <2>2
<1> SUFFICES ASSUME NEW n \in DOMAIN nodes, NEW k \in Kids(nodes, n) PROVE All(k, 1)
  BY DEF FoundBelow
<1>9. k \in DOMAIN nodes
  BY KidFacts
<1> HIDE DEF All
<1> QED BY <1>8, <1>9

\* If nothing is preferred to the route, its group finds the route itself.
LEMMA ParamsGive ==
  ASSUME NEW nodes, NEW reg, IsLog(reg), IsTree(nodes, reg), NEW n, NEW k, NEW p, p # NoRoute,
         OnWay(nodes, n, k, p), CharacterFollows(p), p[n[2] + 1] \in Params \cup Regexps,
         NEW path, path \in Seq(ToSet(path)), NEW cut, Cuts(p, path, cut), NEW find, NEW op,
         FoundBelow(find, nodes, reg, op, path, n),
         PreferredAt(nodes, reg, op, path, n, cut[n[2]], p),
         TryGives(find, nodes, op, path, k, cut[k[2]], p)
  PROVE  GroupGives(find, nodes, op, path, n, TypeOf(p[n[2] + 1]), cut[n[2]], p)
<1> DEFINE used == cut[n[2]]
           t == TypeOf(p[n[2] + 1])
           ns == nodes[n].kids[t]
           i == n[2] + 1
<1>1. /\ k[2] = i /\ i \in 1 .. Len(p) /\ i - 1 = n[2] /\ Len(p) \in Nat
      /\ nodes[k].prefix[1] = Edge(p, i)
  <2>1. p[n[2] + 1] \in Wild
    BY DEF Wild
  <2>2. Len(p) \in Nat
    BY DEF OnWay
  <2>3. /\ k[2] = n[2] + 1 /\ n[2] + 1 \in 1 .. Len(p) /\ (n[2] + 1) - 1 = n[2]
        /\ nodes[k].prefix[1] = Edge(p, n[2] + 1)
    BY <2>1, OneToken
  <2> QED BY <2>2, <2>3
<1>2. /\ ValueEnd(nodes[k].prefix[1], path, used) = cut[i]
      /\ TakesValue(nodes[k].prefix[1], path, used) /\ used # Len(path)
      /\ used \in Nat /\ cut[i] \in Nat /\ used \in 0 .. Len(path) /\ Len(path) \in Nat
  <2>1. used = cut[i - 1] /\ p[i] \in Params \cup Regexps
    BY <1>1
  <2> HIDE DEF i, used
  <2>2. cut[i - 1] \in 0 .. Len(path) /\ cut[i] \in cut[i - 1] .. Len(path) /\ Len(path) \in Nat
    BY <1>1, CutFacts
  <2>3. /\ ValueEnd(Edge(p, i), path, cut[i - 1]) = cut[i]
        /\ TakesValue(Edge(p, i), path, cut[i - 1]) /\ cut[i - 1] # Len(path)
    BY <1>1, <2>1, ValueTaken
  <2> QED BY <1>1, <2>1, <2>2, <2>3
<1>3. t \in {"regexp", "param"} /\ t # "static"
  BY TokenTypes
<1>4. k \in ToSet(ns) /\ n \in DOMAIN nodes /\ k \in Kids(nodes, n)
  BY DEF OnWay
<1>5. ns # <<>> /\ IsGroup(nodes, n, t, ns)
  <2>1. ns # <<>>
    BY <1>4 DEF ToSet
  <2> QED BY <1>3, <2>1 DEF IsGroup, NodeTypes, OnWay, IsTree
<1>6. PreferredAt(nodes, reg, op, path, n, used, p)
  OBVIOUS
<1>7. \A x \in ToSet(ns) : nodes[x].prefix[1].typ = t
  BY <1>3, <1>4 DEF IsTree, KidsFit, NodeTypes
<1> HIDE DEF ns, used
<1>8. /\ Len(ns) \in Nat /\ DOMAIN ns = 1 .. Len(ns) /\ ToSet(ns) = {ns[j] : j \in 1 .. Len(ns)}
      /\ \A j \in 1 .. Len(ns) : ns[j] \in Kids(nodes, n)
  BY <1>5, GroupFacts
<1>9. PICK j \in DOMAIN ns : ns[j] = k
  BY <1>4, <1>8
<1> SUFFICES ASSUME NEW vals \in Stacks
             PROVE  InGroup(find, nodes, op, path, n, t, used, vals).pattern = p
  BY DEF GroupGives, used
<1> DEFINE W(m) == WithValue(find, nodes, op, path, ns[m], used, vals)
           found == {m \in DOMAIN ns : TakesValue(nodes[ns[m]].prefix[1], path, used) /\ IsHit(W(m))}
           first == CHOOSE m \in found : \A l \in found : m <= l
<1>10. InGroup(find, nodes, op, path, n, t, used, vals) = InParams(find, nodes, op, path, ns, used, vals)
  BY <1>3, <1>5 DEF InGroup, ns
<1>11. found # {} => InParams(find, nodes, op, path, ns, used, vals) = W(first)
  BY <1>2 DEF InParams
<1>12. \A m \in DOMAIN ns : ns[m] = k => W(m).pattern = p
  <2> SUFFICES ASSUME NEW m \in DOMAIN ns, ns[m] = k PROVE W(m).pattern = p
    OBVIOUS
  <2>1. W(m) = Try(find, nodes, op, path, k, cut[i], Append(vals, <<used, cut[i]>>))
    BY <1>2 DEF WithValue
  <2>2. Append(vals, <<used, cut[i]>>) \in Stacks
    BY <1>2, MissTypes
  <2> HIDE DEF W
  <2> QED BY <1>1, <2>1, <2>2 DEF TryGives
<1>13. \A m \in 1 .. Len(ns) : FoundIfHit(nodes, reg, op, path, ns[m], n[2], used, W(m))
  <2> HIDE DEF t
  <2> QED BY <1>2, <1>3, <1>5, ValueFinds
<1> HIDE DEF W
<1>14. j \in found
  <2>1. IsHit(W(j))
    BY <1>9, <1>12 DEF IsHit
  <2> QED BY <1>2, <1>9, <2>1
<1>15. first \in found
  <2>1. found \in SUBSET Nat /\ found # {}
    BY <1>8, <1>14
  <2> HIDE DEF found
  <2> QED BY <2>1, LeastNumber
<1>16. first \in DOMAIN ns /\ IsHit(W(first))
  BY <1>15
<1> HIDE DEF found, first
<1>17. ns[first] = k
  <2> DEFINE x == ns[first]
  <2>1. x \in Kids(nodes, n) /\ x \in ToSet(ns)
    BY <1>8, <1>16
  <2>2. FoundOn(nodes, reg, op, path, x, n[2], used, W(first))
    BY <1>8, <1>13, <1>16 DEF FoundIfHit
  <2>3. nodes[x].prefix[1].typ = t
    BY <1>7, <2>1
  <2> HIDE DEF x
  <2>4. nodes[x].prefix[1] = Edge(p, n[2] + 1)
    BY <1>6, <1>16, <2>1, <2>2, <2>3 DEF PreferredAt
  <2>5. x = k
    BY <1>1, <1>4, <2>1, <2>4 DEF IsTree, SiblingsDiffer
  <2> QED BY <2>5 DEF x
<1> QED BY <1>10, <1>11, <1>12, <1>14, <1>16, <1>17

LEMMA CatchAllGives ==
  ASSUME NEW nodes, NEW reg, IsLog(reg), IsTree(nodes, reg), NEW n, NEW k, NEW p \in Patterns,
         OnWay(nodes, n, k, p), p[n[2] + 1] = Star,
         NEW path, path \in Seq(ToSet(path)), NEW cut, Cuts(p, path, cut), NEW find, NEW op,
         TryGives(find, nodes, op, path, k, cut[k[2]], p)
  PROVE  GroupGives(find, nodes, op, path, n, "catchall", cut[n[2]], p)
<1> SUFFICES ASSUME NEW vals \in Stacks
             PROVE  InGroup(find, nodes, op, path, n, "catchall", cut[n[2]], vals).pattern = p
  BY DEF GroupGives
<1>1. PICK vs \in Stacks :
        CatchAllIs(find, nodes, op, path, n, k, cut[k[2]], cut[n[2]], vals, vs)
  BY CatchAllTries
<1>2. Try(find, nodes, op, path, k, cut[k[2]], vs).pattern = p
  BY DEF TryGives
<1>3. p # NoRoute
  BY PatternTypes
<1> QED BY <1>1, <1>2, <1>3 DEF IsHit, CatchAllIs

LEMMA TokenGives ==
  ASSUME NEW nodes, NEW reg, IsLog(reg), IsTree(nodes, reg), NEW n, NEW k, NEW p \in Patterns,
         OnWay(nodes, n, k, p), CharacterFollows(p),
         NEW path, path \in Seq(ToSet(path)), NEW cut, Cuts(p, path, cut), NEW find, NEW op,
         FoundBelow(find, nodes, reg, op, path, n),
         p[n[2] + 1] \in Wild => PreferredAt(nodes, reg, op, path, n, cut[n[2]], p),
         TryGives(find, nodes, op, path, k, cut[k[2]], p)
  PROVE  GroupGives(find, nodes, op, path, n, TypeOf(p[n[2] + 1]), cut[n[2]], p)
<1> DEFINE token == p[n[2] + 1]
<1>1. CASE token \notin Wild
  <2>1. TypeOf(token) = "static"
    BY <1>1, EdgeTypes
  <2>2. p[n[2] + 1] \notin Wild
    BY <1>1
  <2> HIDE DEF token
  <2>3. GoesTo(nodes, path, n, k, cut[n[2]], cut[k[2]])
    BY <2>2, StaticGoesOn
  <2> QED BY <2>1, <2>3 DEF GroupGives, TryGives, GoesTo, token
<1>2. CASE token \in Params \cup Regexps
  <2>1. p # NoRoute /\ p[n[2] + 1] \in Wild
    BY <1>2, PatternTypes DEF Wild
  <2> QED BY <1>2, <2>1, ParamsGive
<1>3. CASE token = Star
  <2>1. TypeOf(token) = "catchall"
    BY <1>3, TokenTypes
  <2> QED BY <1>3, <2>1, CatchAllGives
<1> QED BY <1>1, <1>2, <1>3 DEF Wild

\* The groups before it find nothing, so a search finds what the group does.
LEMMA SearchGives ==
  ASSUME NEW nodes, NEW reg, IsLog(reg), IsTree(nodes, reg), NEW op \in Ops,
         NEW path, Len(path) \in Nat, NEW find, IsSearch(find, nodes, op, path),
         NEW n \in DOMAIN nodes, NEW used \in 0 .. Len(path), NEW p, p # NoRoute,
         FoundBelow(find, nodes, reg, op, path, n),
         TokenFirst(find, nodes, reg, op, path, n, used, p)
  PROVE  \A vals \in Stacks : find[<<n, 1, used, vals>>].pattern = p
<1> DEFINE R(g, vals) == InGroup(find, nodes, op, path, n, Groups[g], used, vals)
           t == TypeOf(p[n[2] + 1])
           From(g) == \A vals \in Stacks : find[<<n, g, used, vals>>].pattern = p
<1>1. ASSUME NEW g \in 1 .. 4, NEW vals \in Stacks
      PROVE  /\ R(g, vals).vals \in Stacks
             /\ find[<<n, g, used, vals>>] =
                  IF IsHit(R(g, vals)) THEN R(g, vals) ELSE find[<<n, g + 1, used, R(g, vals).vals>>]
  <2>1. Groups[g] \in NodeTypes /\ Len(Groups) = 4 /\ ~(g > 4) /\ g \in 1 .. 5
    BY GroupsAre
  <2>2. Answers(find, nodes, path, n)
    <3>1. \A k \in Kids(nodes, n) : k \in DOMAIN nodes
      BY KidFacts
    <3>2. 1 \in 1 .. 5
      OBVIOUS
    <3>3. \A k \in Kids(nodes, n), u \in 0 .. Len(path), vs \in Stacks : <<k, 1, u, vs>> \in Calls(nodes, path)
      BY <3>1, <3>2, CallTypes
    <3> QED BY <3>3 DEF Answers, IsSearch
  <2>3. R(g, vals) \in Results
    <3>1. IsHeap(nodes)
      BY DEF IsTree
    <3> QED BY <2>1, <2>2, <3>1, GroupTypes
  <2>4. find[<<n, g, used, vals>>] = FindFrom(find, nodes, op, path, n, g, used, vals)
    BY <2>1 DEF IsSearch
  <2>5. FindFrom(find, nodes, op, path, n, g, used, vals) =
          IF IsHit(R(g, vals)) THEN R(g, vals) ELSE find[<<n, g + 1, used, R(g, vals).vals>>]
    BY <2>1 DEF FindFrom
  <2> HIDE DEF R
  <2>6. R(g, vals).vals \in Stacks
    BY <2>3 DEF Results
  <2> QED BY <2>4, <2>5, <2>6
<1>2. t \in NodeTypes /\ (t # "static" => p[n[2] + 1] \in Wild)
  BY EdgeTypes
<1>3. ASSUME NEW g \in 1 .. 4, NEW vals \in Stacks, Earlier(Groups[g], t) PROVE ~IsHit(R(g, vals))
  <2> SUFFICES ASSUME IsHit(R(g, vals)) PROVE FALSE
    OBVIOUS
  <2>1. Groups[g] \in NodeTypes
    BY GroupsAre
  <2>2. FoundIn(nodes, reg, op, path, n, Groups[g], used, R(g, vals))
    BY <2>1, GroupFinds
  <2> DEFINE r == R(g, vals)
  <2> HIDE DEF R
  <2>3. PICK k \in ToSet(nodes[n].kids[Groups[g]]) : FoundOn(nodes, reg, op, path, k, n[2], used, r)
    BY <2>2 DEF FoundIn
  <2>4. k \in Kids(nodes, n) /\ nodes[k].prefix[1].typ = Groups[g]
    BY <2>1, <2>3 DEF Kids, IsTree, KidsFit
  <2>5. t # "static"
    BY <1>3 DEF Earlier
  <2> HIDE DEF r
  <2>6. ~Earlier(nodes[k].prefix[1].typ, t)
    BY <1>2, <2>3, <2>4, <2>5 DEF PreferredAt, TokenFirst, r
  <2> QED BY <1>3, <2>4, <2>6
<1>4. ASSUME NEW g \in 1 .. 4, Groups[g] = t \/ (Earlier(Groups[g], t) /\ From(g + 1)) PROVE From(g)
  <2> SUFFICES ASSUME NEW vals \in Stacks PROVE find[<<n, g, used, vals>>].pattern = p
    OBVIOUS
  <2>1. CASE Groups[g] = t
    <3>1. R(g, vals).pattern = p
      BY <2>1 DEF GroupGives, TokenFirst
    <3> HIDE DEF R
    <3>2. IsHit(R(g, vals))
      BY <3>1 DEF IsHit
    <3> QED BY <1>1, <3>1, <3>2
  <2>2. CASE Groups[g] # t
    <3>1. ~IsHit(R(g, vals))
      BY <1>3, <1>4, <2>2
    <3>2. From(g + 1)
      BY <1>4, <2>2
    <3> HIDE DEF R
    <3>3. /\ R(g, vals).vals \in Stacks
          /\ find[<<n, g, used, vals>>] = find[<<n, g + 1, used, R(g, vals).vals>>]
      BY <1>1, <3>1
    <3> QED BY <3>2, <3>3
  <2> QED BY <2>1, <2>2
<1> HIDE DEF From, R
<1>5. /\ 1 \in 1 .. 4 /\ 2 \in 1 .. 4 /\ 3 \in 1 .. 4 /\ 4 \in 1 .. 4
      /\ 1 + 1 = 2 /\ 2 + 1 = 3 /\ 3 + 1 = 4
  OBVIOUS
<1>6. /\ Groups[1] = "static" /\ Groups[2] = "regexp" /\ Groups[3] = "param" /\ Groups[4] = "catchall"
      /\ t = "static" \/ t = "regexp" \/ t = "param" \/ t = "catchall"
  BY <1>2, GroupsAre DEF NodeTypes
<1> HIDE DEF t
<1>7. t = "catchall" => From(4) /\ Earlier("param", t) /\ Earlier("regexp", t) /\ Earlier("static", t)
  BY <1>4, <1>5, <1>6 DEF Earlier
<1>8. t \in {"param", "catchall"} => From(3) /\ Earlier("regexp", t) /\ Earlier("static", t)
  BY <1>4, <1>5, <1>6, <1>7 DEF Earlier
<1>9. t \in {"regexp", "param", "catchall"} => From(2) /\ Earlier("static", t)
  BY <1>4, <1>5, <1>6, <1>8 DEF Earlier
<1>10. From(1)
  BY <1>4, <1>5, <1>6, <1>9
<1> QED BY <1>10 DEF From

\* The path does not end before the pattern, if the star takes something.
LEMMA NotYetDone ==
  ASSUME NEW p \in Patterns, CharacterFollows(p), NEW path, path \in Seq(ToSet(path)), NEW cut,
         Cuts(p, path, cut), StarTakes(p, path, cut), NEW i \in 0 .. Len(p) - 1
  PROVE  cut[i] # Len(path)
<1>1. Len(p) \in Nat /\ Len(path) \in Nat
  BY PatternTypes
<1> DEFINE j == i + 1
<1>2. j \in 1 .. Len(p) /\ j - 1 = i
  BY <1>1
<1> HIDE DEF j
<1>3. CASE p[j] \notin Wild
  <2>1. cut[j - 1] \in 0 .. Len(path) /\ cut[j] \in cut[j - 1] .. Len(path) /\ cut[j] = cut[j - 1] + 1
    BY <1>1, <1>2, <1>3, CutFacts
  <2> QED BY <1>1, <1>2, <2>1
<1>4. CASE p[j] \in Params \cup Regexps
  BY <1>1, <1>2, <1>4, ValueTaken
<1>5. CASE p[j] = Star
  <2>1. \A l \in 1 .. Len(p) - 1 : p[l] # Star
    BY PatternsAssumption DEF PatternIsLegal
  <2>2. j = Len(p)
    BY <1>1, <1>2, <1>5, <2>1
  <2> QED BY <1>2, <1>5, <2>2 DEF StarTakes
<1> QED BY <1>3, <1>4, <1>5 DEF Wild

\* So a search goes along a route's own nodes, if no other is preferred.
LEMMA FindsOwn ==
  ASSUME NEW nodes, NEW reg, IsLog(reg), IsTree(nodes, reg), NEW op \in Ops, NEW j \in 1 .. Len(reg),
         NEW z \in DOMAIN nodes, EndsHere(reg, z, j), NEW p \in Patterns, p = reg[j][2],
         nodes[z].eps[op] = p, CharacterFollows(p),
         NEW path, path \in Seq(ToSet(path)), NEW cut, Cuts(p, path, cut), StarTakes(p, path, cut),
         Preferred(nodes, reg, op, path, cut, p, z), NEW find, IsSearch(find, nodes, op, path),
         NEW n0 \in DOMAIN nodes, Leads(reg, n0, z), n0 # z
  PROVE  \A vals \in Stacks : find[<<n0, 1, cut[n0[2]], vals>>].pattern = p
<1> DEFINE Finds(n) == \A vals \in Stacks : find[<<n, 1, cut[n[2]], vals>>].pattern = p
           S == {b \in Nat : \A n \in DOMAIN nodes :
                   Leads(reg, n, z) /\ n # z /\ z[2] - n[2] < b => Finds(n)}
<1>1. Len(p) \in Nat /\ p # NoRoute /\ Len(path) \in Nat
  BY PatternTypes
<1>2. z[2] = Len(p) /\ \A n \in DOMAIN nodes : n[2] \in Nat /\ n \in Nat \X Nat
  BY PositionTypes DEF IsTree, Placed, EndsHere
<1>3. 0 \in S
  <2>1. \A n \in DOMAIN nodes : Leads(reg, n, z) => ~(z[2] - n[2] < 0)
    BY <1>1, <1>2 DEF Leads
  <2> QED BY <2>1
<1>4. ASSUME NEW b \in Nat, b \in S PROVE b + 1 \in S
  <2> SUFFICES ASSUME NEW n \in DOMAIN nodes, Leads(reg, n, z), n # z, z[2] - n[2] < b + 1
               PROVE  Finds(n)
    OBVIOUS
  <2>1. PICK k \in DOMAIN nodes : OnWay(nodes, n, k, p) /\ Leads(reg, k, z)
    BY WayGoesOn
  <2>2. n[2] \in 0 .. Len(p) /\ k[2] \in n[2] + 1 .. Len(p)
    <3>1. n[2] \in Nat /\ k[2] \in n[2] + 1 .. Len(p) /\ Len(p) \in Nat
      BY <2>1 DEF OnWay
    <3> QED BY <3>1
  <2>3. z[2] - k[2] < b
    <3>1. z[2] \in Nat /\ n[2] \in Nat /\ k[2] \in Nat /\ n[2] < k[2] /\ z[2] - n[2] < b + 1
      BY <1>1, <1>2, <2>2
    <3> QED BY <3>1
  <2>4. k # z => Finds(k)
    BY <1>4, <2>1, <2>3
  <2>5. TryGives(find, nodes, op, path, k, cut[k[2]], p)
    <3> SUFFICES ASSUME NEW vals \in Stacks
                 PROVE  Try(find, nodes, op, path, k, cut[k[2]], vals).pattern = p
      BY DEF TryGives
    <3>1. CASE k = z
      <4>1. cut[k[2]] = Len(path) /\ nodes[k].eps[op] # NoRoute
        BY <1>1, <1>2, <3>1 DEF Cuts
      <4> QED BY <3>1, <4>1 DEF Try
    <3>2. CASE k # z
      <4>1. ~(cut[k[2]] = Len(path) /\ nodes[k].eps[op] # NoRoute)
        <5>1. k[2] # Len(p)
          BY <1>2, <2>1, <3>2, OneNodePerWay
        <5>2. k[2] \in 0 .. Len(p) - 1
          BY <1>1, <2>2, <5>1
        <5> QED BY <5>2, NotYetDone
      <4> QED BY <2>4, <3>2, <4>1 DEF Try
    <3> QED BY <3>1, <3>2
  <2>6. FoundBelow(find, nodes, reg, op, path, n)
    BY <1>1, SearchFinds
  <2>7. p[n[2] + 1] \in Wild => PreferredAt(nodes, reg, op, path, n, cut[n[2]], p)
    <3> SUFFICES ASSUME p[n[2] + 1] \in Wild, NEW k2 \in Kids(nodes, n), NEW r, IsHit(r),
                        FoundOn(nodes, reg, op, path, k2, n[2], cut[n[2]], r)
                 PROVE  /\ ~Earlier(nodes[k2].prefix[1].typ, TypeOf(p[n[2] + 1]))
                        /\ nodes[k2].prefix[1].typ = TypeOf(p[n[2] + 1]) =>
                             nodes[k2].prefix[1] = Edge(p, n[2] + 1)
      BY DEF PreferredAt
    <3>1. PICK m \in DOMAIN nodes : /\ Leads(reg, k2, m) /\ r.pattern = nodes[m].eps[op]
                                    /\ ReadsOn(reg, m, path, n[2], cut[n[2]])
      BY DEF FoundOn
    <3>2. nodes[m].eps[op] # NoRoute
      BY <3>1 DEF IsHit
    <3> QED BY <3>1, <3>2 DEF Preferred
  <2>8. GroupGives(find, nodes, op, path, n, TypeOf(p[n[2] + 1]), cut[n[2]], p)
    BY <2>1, <2>5, <2>6, <2>7, TokenGives
  <2>9. cut[n[2]] \in 0 .. Len(path)
    BY <2>2 DEF Cuts
  <2>10. \A vals \in Stacks : find[<<n, 1, cut[n[2]], vals>>].pattern = p
    <3> DEFINE used == cut[n[2]]
    <3>1. used \in 0 .. Len(path) /\ FoundBelow(find, nodes, reg, op, path, n)
      BY <2>6, <2>9
    <3>2. TokenFirst(find, nodes, reg, op, path, n, used, p)
      BY <2>7, <2>8 DEF TokenFirst
    <3> HIDE DEF used, S, Finds
    <3>3. \A vals \in Stacks : find[<<n, 1, used, vals>>].pattern = p
      BY <1>1, <3>1, <3>2, SearchGives
    <3> QED BY <3>3 DEF used
  <2> QED BY <2>10
<1>5. \A b \in Nat : b \in S
  <2> HIDE DEF S
  <2> QED BY <1>3, <1>4, AllNumbers
<1>6. n0[2] <= z[2] /\ n0[2] \in Nat /\ z[2] \in Nat
  BY <1>1, <1>2 DEF Leads
<1>7. z[2] - n0[2] + 1 \in Nat /\ z[2] - n0[2] < z[2] - n0[2] + 1
  BY <1>6
<1>8. z[2] - n0[2] + 1 \in S
  BY <1>5, <1>7
<1>9. Finds(n0)
  <2> HIDE DEF Finds
  <2> QED BY <1>7, <1>8
<1> QED BY <1>9

\* Names laid out in a sequence, each after a slash.
LEMMA LaidFacts ==
  ASSUME NEW s, NEW names, NEW ends, Laid(s, names, ends), NEW k \in 1 .. Len(names)
  PROVE  /\ Len(s) \in Nat /\ Len(names) \in Nat /\ Len(names[k]) \in Nat
         /\ ends[k - 1] \in Nat /\ ends[k] \in Nat /\ ends[k] = ends[k - 1] + 1 + Len(names[k])
         /\ ends[k] <= Len(s) /\ s[ends[k - 1] + 1] = "/"
         /\ \A j \in 1 .. Len(names[k]) : s[ends[k - 1] + 1 + j] = names[k][j]
         /\ ends[k] = Len(s) \/ s[ends[k] + 1] = "/"
<1>1. Len(s) \in Nat /\ Len(names) \in Nat /\ Len(names[k]) \in Nat
  BY DEF Laid
<1>2. k \in 0 .. Len(names) /\ k - 1 \in 0 .. Len(names)
  BY <1>1
<1>3. /\ ends[k - 1] \in 0 .. Len(s) /\ ends[k] \in 0 .. Len(s)
      /\ ends[k] = ends[k - 1] + 1 + Len(names[k]) /\ s[ends[k - 1] + 1] = "/"
      /\ \A j \in 1 .. Len(names[k]) : s[ends[k - 1] + 1 + j] = names[k][j]
  BY <1>2 DEF Laid, Places
<1>4. ends[k] = Len(s) \/ s[ends[k] + 1] = "/"
  <2>1. CASE k = Len(names)
    <3>1. Places(s, names, ends)
      BY DEF Laid
    <3>2. ends[Len(names)] = Len(s)
      BY <3>1 DEF Places
    <3> QED BY <2>1, <3>2
  <2>2. CASE k # Len(names)
    <3>1. k + 1 \in 1 .. Len(names) /\ (k + 1) - 1 = k
      BY <1>1, <2>2
    <3>2. s[ends[(k + 1) - 1] + 1] = "/"
      BY <3>1 DEF Laid, Places
    <3> QED BY <3>1, <3>2
  <2> QED BY <2>1, <2>2
<1>5. ends[k - 1] \in Nat /\ ends[k] \in Nat /\ ends[k] <= Len(s)
  BY <1>1, <1>3
<1> QED BY <1>1, <1>3, <1>4, <1>5

LEMMA LaidEnds ==
  ASSUME NEW s, NEW names, NEW ends, Laid(s, names, ends), NEW k \in 1 .. Len(names)
  PROVE  /\ Len(s) \in Nat /\ Len(names[k]) \in Nat /\ ends[k - 1] \in Nat /\ ends[k] \in Nat
         /\ ends[k] = ends[k - 1] + 1 + Len(names[k]) /\ ends[k] <= Len(s)
         /\ s[ends[k - 1] + 1] = "/"
BY LaidFacts

\* The characters of a name are there.
LEMMA LaidNames ==
  ASSUME NEW s, NEW names, NEW ends, Laid(s, names, ends), NEW k \in 1 .. Len(names)
  PROVE  Has(s, ends[k - 1] + 1, names[k])
BY LaidFacts DEF Has

LEMMA NotTheLast ==
  ASSUME NEW s, NEW names, NEW ends, Laid(s, names, ends), NEW k \in 1 .. Len(names),
         k + 1 \in 1 .. Len(names)
  PROVE  ends[k] \in 1 .. Len(s) - 1 /\ s[ends[k] + 1] = "/"
<1> DEFINE l == k + 1
<1>1. l \in 1 .. Len(names) /\ l - 1 = k
  OBVIOUS
<1> HIDE DEF l
<1>2. /\ Len(s) \in Nat /\ Len(names[l]) \in Nat /\ ends[l - 1] \in Nat /\ ends[l] \in Nat
      /\ ends[l] = ends[l - 1] + 1 + Len(names[l]) /\ ends[l] <= Len(s) /\ s[ends[l - 1] + 1] = "/"
  BY <1>1, LaidEnds
<1>3. /\ Len(names[k]) \in Nat /\ ends[k - 1] \in Nat /\ ends[k] = ends[k - 1] + 1 + Len(names[k])
  BY LaidEnds
<1> DEFINE a == ends[k]
           b == ends[l]
           c == ends[k - 1]
           x == Len(names[k])
           y == Len(names[l])
           z == Len(s)
<1>4. /\ a \in Nat /\ b \in Nat /\ z \in Nat /\ c \in Nat /\ x \in Nat /\ y \in Nat
      /\ a = c + 1 + x /\ b = a + 1 + y /\ b <= z
  <2>1. ends[l - 1] = a
    BY <1>1
  <2> QED BY <1>2, <1>3, <2>1
<1> HIDE DEF a, b, c, x, y, z
<1>5. a \in 1 .. z - 1
  BY <1>4
<1> QED BY <1>1, <1>2, <1>5 DEF a, z

LEMMA LaidGrows ==
  ASSUME NEW s, NEW names, NEW ends, Laid(s, names, ends), NEW a \in 0 .. Len(names),
         NEW b \in a .. Len(names)
  PROVE  ends[a] <= ends[b] /\ ends[a] \in Nat /\ ends[b] \in Nat
<1>1. Len(names) \in Nat /\ Len(s) \in Nat /\ \A i \in 0 .. Len(names) : ends[i] \in Nat
  <2>1. Len(names) \in Nat /\ Len(s) \in Nat /\ Places(s, names, ends)
    BY DEF Laid
  <2>2. ends \in [0 .. Len(names) -> 0 .. Len(s)]
    BY <2>1 DEF Places
  <2> QED BY <2>1, <2>2
<1> DEFINE S == {i \in Nat : a + i <= Len(names) => ends[a] <= ends[a + i]}
<1>2. 0 \in S
  <2>1. a + 0 = a /\ ends[a] \in Nat
    BY <1>1
  <2> QED BY <2>1
<1>3. ASSUME NEW i \in Nat, i \in S PROVE i + 1 \in S
  <2> SUFFICES ASSUME a + (i + 1) <= Len(names) PROVE ends[a] <= ends[a + (i + 1)]
    OBVIOUS
  <2> DEFINE k == a + (i + 1)
  <2>1. k \in 1 .. Len(names) /\ k - 1 = a + i /\ a + i <= Len(names) /\ a \in 0 .. Len(names)
    BY <1>1
  <2> HIDE DEF k
  <2>2. ends[k] = ends[k - 1] + 1 + Len(names[k]) /\ Len(names[k]) \in Nat /\ ends[k - 1] \in Nat
    BY <2>1, LaidEnds
  <2>3. ends[a] <= ends[k - 1] /\ ends[a] \in Nat
    BY <1>1, <1>3, <2>1
  <2>4. ends[a] <= ends[k]
    BY <2>2, <2>3
  <2> QED BY <2>4 DEF k
<1>4. b - a \in Nat /\ a + (b - a) = b
  BY <1>1
<1>5. b - a \in S
  <2> HIDE DEF S
  <2> QED BY <1>2, <1>3, <1>4, AllNumbers
<1>6. ends[a] <= ends[b]
  BY <1>4, <1>5
<1> QED BY <1>1, <1>6

\* Two names at one place, each with a slash or the end after it, are one.
LEMMA NotLonger ==
  ASSUME NEW s, Len(s) \in Nat, NEW a \in Nat, NEW c, NEW d, Len(c) \in Nat, Len(d) \in Nat,
         At(s, a, c), At(s, a, d), \A j \in 1 .. Len(d) : d[j] # "/"
  PROVE  ~(Len(c) < Len(d))
<1> SUFFICES ASSUME Len(c) < Len(d) PROVE FALSE
  OBVIOUS
<1> DEFINE j == Len(c) + 1
<1>1. j \in 1 .. Len(d) /\ a + j = a + Len(c) + 1
  OBVIOUS
<1>2. a + Len(d) <= Len(s) /\ s[a + j] = d[j]
  BY <1>1 DEF At
<1>3. a + Len(c) # Len(s)
  BY <1>2
<1>4. s[a + j] = "/"
  BY <1>1, <1>3 DEF At
<1> QED BY <1>1, <1>2, <1>4

LEMMA OneName ==
  ASSUME NEW s, Len(s) \in Nat, NEW a \in Nat, NEW C, NEW D, NEW c \in Seq(C), NEW d \in Seq(D),
         At(s, a, c), At(s, a, d),
         \A j \in 1 .. Len(c) : c[j] # "/", \A j \in 1 .. Len(d) : d[j] # "/"
  PROVE  c = d
<1>1. Len(c) \in Nat /\ Len(d) \in Nat
  OBVIOUS
<1>2. ~(Len(c) < Len(d)) /\ ~(Len(d) < Len(c))
  BY <1>1, NotLonger
<1>3. Len(c) = Len(d)
  BY <1>1, <1>2
<1>4. \A j \in 1 .. Len(c) : c[j] = d[j]
  BY <1>3 DEF At
<1>5. c \in Seq(C \cup D) /\ d \in Seq(C \cup D)
  <2>1. \A j \in 1 .. Len(c) : c[j] \in C \cup D
    OBVIOUS
  <2>2. \A j \in 1 .. Len(d) : d[j] \in C \cup D
    OBVIOUS
  <2> QED BY <2>1, <2>2
<1> QED BY <1>3, <1>4, <1>5, SeqEqual

\* A route whose parameters are components, and its components.
LEMMA PartsOf ==
  ASSUME NEW p, IsWhole(p), NEW comps, comps = Components(p), comps # <<>>
  PROVE  \E o : InParts(p, comps, o)
<1>1. p \in Scripts
  BY DEF IsWhole
<1>2. comps \in Seq(Comps) /\ PathOf(comps) = p
  BY <1>1, ComponentTypes
<1>3. comps \in Seq(Seq(AllTokens))
  <2>1. Comps \subseteq Seq(AllTokens)
    BY DEF Comps, Names0
  <2> QED BY <1>2, <2>1
<1>4. PICK o : Places(p, comps, o)
  <2>1. \E o : Places(PathOf(comps), comps, o)
    BY <1>3, PlacesAre
  <2> QED BY <1>2, <2>1
<1>5. Len(p) \in Nat /\ Len(comps) \in Nat /\ \A k \in 1 .. Len(comps) : Len(comps[k]) \in Nat
  <2>1. Len(p) \in Nat
    BY <1>1, ScriptFacts, PatternTypes
  <2>2. Len(comps) \in Nat /\ \A k \in 1 .. Len(comps) : comps[k] \in Seq(AllTokens)
    BY <1>3
  <2> QED BY <2>1, <2>2
<1>6. Laid(p, comps, o)
  BY <1>4, <1>5 DEF Laid
<1> QED BY <1>6 DEF InParts

LEMMA PartFacts ==
  ASSUME NEW p, NEW comps, NEW o, InParts(p, comps, o), NEW k \in 1 .. Len(comps)
  PROVE  /\ comps[k] \in Comps /\ comps[k] \in Seq(AllTokens) /\ Len(comps[k]) \in Nat \ {0}
         /\ \A j \in 1 .. Len(comps[k]) : comps[k][j] # "/"
         /\ At(p, o[k - 1] + 1, comps[k])
         /\ \/ Kind(comps[k]) = "plain" /\ \A j \in 1 .. Len(comps[k]) : comps[k][j] \notin Wild
            \/ Kind(comps[k]) = "param" /\ comps[k][1] \in Params /\ comps[k] = <<comps[k][1]>>
            \/ Kind(comps[k]) = "wildcard" /\ comps[k] = <<Star>>
<1> DEFINE c == comps[k]
<1>1. p \in Scripts /\ ToSet(p) \cap Regexps = {} /\ PlainPattern(p)
  BY DEF InParts, IsWhole
<1>2. k \in 1 .. Len(Components(p)) /\ c = Components(p)[k]
  BY DEF InParts
<1>3. /\ c \in Comps /\ Len(c) \in Nat \ {0} /\ ToSet(c) \subseteq ToSet(p) \ {"/"}
      /\ \/ Kind(c) = "plain" /\ ToSet(c) \cap Wild = {}
         \/ Kind(c) = "param" /\ Len(c) = 1 /\ Head(c) \in Params /\ c = <<Head(c)>>
         \/ Kind(c) = "wildcard" /\ c = <<Star>>
  <2> HIDE DEF c
  <2> QED BY <1>1, <1>2, WholeKinds
<1>4. Laid(p, comps, o)
  BY DEF InParts
<1>5. /\ o[k - 1] \in Nat /\ o[k] = o[k - 1] + 1 + Len(c) /\ o[k] <= Len(p)
      /\ \A j \in 1 .. Len(c) : p[o[k - 1] + 1 + j] = c[j]
      /\ o[k] = Len(p) \/ p[o[k] + 1] = "/"
  BY <1>4, LaidFacts
<1> HIDE DEF c
<1>6. At(p, o[k - 1] + 1, c)
  BY <1>5 DEF At
<1>7. c \in Seq(AllTokens) /\ Head(c) = c[1]
  BY <1>3 DEF Comps, Names0
<1>8. \A j \in 1 .. Len(c) : c[j] \in ToSet(c)
  BY <1>7 DEF ToSet
<1>9. \A j \in 1 .. Len(c) : c[j] # "/"
  BY <1>3, <1>8
<1>10. ToSet(c) \cap Wild = {} => \A j \in 1 .. Len(c) : c[j] \notin Wild
  BY <1>8
<1> QED BY <1>3, <1>6, <1>7, <1>9, <1>10 DEF c

\* A wild token of such a route is a component.
LEMMA WildPlace ==
  ASSUME NEW p, NEW comps, NEW o, InParts(p, comps, o), NEW i \in 1 .. Len(p), p[i] \in Wild
  PROVE  WildAt(p, comps, o, i)
<1>1. Laid(p, comps, o)
  BY DEF InParts
<1>2. PICK l \in 1 .. Len(comps) : \E j \in 0 .. Len(comps[l]) :
        i = o[l - 1] + 1 + j /\ o[l - 1] \in 0 .. Len(p) /\ o[l] \in 0 .. Len(p)
  BY <1>1, PlaceOf DEF Laid
<1>3. PICK j \in 0 .. Len(comps[l]) : i = o[l - 1] + 1 + j
  BY <1>2
<1> DEFINE c == comps[l]
           a == o[l - 1]
<1>4. /\ a \in Nat /\ Len(c) \in Nat /\ p[a + 1] = "/" /\ \A x \in 1 .. Len(c) : p[a + 1 + x] = c[x]
  BY <1>1, LaidFacts
<1>5. \/ \A x \in 1 .. Len(c) : c[x] \notin Wild
      \/ c = <<c[1]>>
      \/ c = <<Star>>
  BY PartFacts
<1>6. i = a + 1 + j /\ j \in 0 .. Len(c)
  BY <1>3
<1> HIDE DEF a, c
<1>7. j # 0
  <2>1. "/" \notin Wild
    BY PathsAssumption
  <2>2. j = 0 => i = a + 1
    BY <1>4, <1>6
  <2> QED BY <1>4, <2>1, <2>2
<1>8. j \in 1 .. Len(c) /\ c[j] = p[i]
  BY <1>4, <1>6, <1>7
<1>9. c = <<c[1]>>
  <2>1. c = <<Star>> => c = <<c[1]>>
    OBVIOUS
  <2> QED BY <1>5, <1>8, <2>1
<1>10. j = 1 /\ c = <<p[i]>>
  <2>1. Len(c) = 1
    BY <1>9
  <2>2. j = 1
    BY <1>8, <2>1
  <2> QED BY <1>8, <1>9, <2>2
<1>11. i = a + 2
  BY <1>4, <1>6, <1>10
<1> QED BY <1>10, <1>11 DEF a, c, WildAt

\* Two tokens with one edge are one character, or of one type.
LEMMA OneEdge ==
  ASSUME NEW p, NEW q, NEW y, Edge(p, y) = Edge(q, y)
  PROVE  /\ TypeOf(p[y]) = TypeOf(q[y])
         /\ p[y] \notin Wild => q[y] = p[y] /\ q[y] \notin Wild
<1>1. Edge(p, y).typ = TypeOf(p[y]) /\ Edge(q, y).typ = TypeOf(q[y])
  BY EdgeTypes
<1>2. ASSUME p[y] \notin Wild PROVE q[y] = p[y] /\ q[y] \notin Wild
  <2>1. TypeOf(p[y]) = "static"
    BY <1>2, EdgeTypes
  <2>2. TypeOf(q[y]) = "static"
    BY <1>1, <2>1
  <2>3. q[y] \notin Wild
    BY <2>2, EdgeTypes
  <2>4. Edge(p, y).text = p[y] /\ Edge(q, y).text = q[y]
    BY <1>2, <2>3, StaticEdges
  <2> QED BY <2>3, <2>4
<1> QED BY <1>1, <1>2

\* Components of one directory, one of them with the characters of the other.
LEMMA SameCharacters ==
  ASSUME NEW p, NEW comps, NEW o, InParts(p, comps, o), NEW q, NEW cq, NEW oq, InParts(q, cq, oq),
         NEW x \in 1 .. Len(comps), x + 1 \in 1 .. Len(comps), x \in 1 .. Len(cq),
         o[x] + 1 <= Len(q), \A y \in 1 .. o[x] + 1 : Edge(p, y) = Edge(q, y),
         oq[x - 1] = o[x - 1], PlainToken(comps[x])
  PROVE  cq[x] = comps[x]
<1> DEFINE c == comps[x]
           d == cq[x]
           a == o[x - 1]
<1>1. Laid(p, comps, o) /\ Laid(q, cq, oq)
  BY DEF InParts
<1>2. /\ a \in Nat /\ Len(c) \in Nat /\ o[x] = a + 1 + Len(c)
      /\ \A j \in 1 .. Len(c) : p[a + 1 + j] = c[j]
  BY <1>1, LaidFacts
<1>3. p[o[x] + 1] = "/"
  BY <1>1, NotTheLast
<1>4. /\ c \in Seq(AllTokens) /\ \A j \in 1 .. Len(c) : c[j] # "/"
  BY PartFacts
<1>5. /\ d \in Seq(AllTokens) /\ \A j \in 1 .. Len(d) : d[j] # "/"
      /\ At(q, a + 1, d) /\ Len(q) \in Nat
  <2>1. Len(q) \in Nat
    BY <1>1, LaidFacts
  <2> QED BY <2>1, PartFacts
<1>6. \A j \in 1 .. Len(c) : c[j] \notin Wild
  BY DEF PlainToken
<1>7. o[x] + 1 <= Len(q) /\ \A y \in 1 .. o[x] + 1 : Edge(p, y) = Edge(q, y)
  OBVIOUS
<1> HIDE DEF a, c, d
<1>8. q[o[x] + 1] = "/"
  <2>1. o[x] + 1 \in 1 .. o[x] + 1
    BY <1>2
  <2>2. Edge(p, o[x] + 1) = Edge(q, o[x] + 1) /\ p[o[x] + 1] \notin Wild
    BY <1>3, <1>7, <2>1, PathsAssumption
  <2> QED BY <1>3, <2>2, OneEdge
<1>9. ASSUME NEW j \in 1 .. Len(c) PROVE q[a + 1 + j] = c[j]
  <2>1. a + 1 + j \in 1 .. o[x] + 1
    BY <1>2
  <2>2. Edge(p, a + 1 + j) = Edge(q, a + 1 + j) /\ p[a + 1 + j] = c[j] /\ c[j] \notin Wild
    BY <1>2, <1>6, <1>7, <2>1
  <2> QED BY <2>2, OneEdge
<1>10. At(q, a + 1, c)
  <2>1. a + 1 + Len(c) = o[x] /\ o[x] <= Len(q)
    BY <1>2, <1>5, <1>7
  <2> QED BY <1>8, <1>9, <2>1 DEF At
<1>11. a + 1 \in Nat
  BY <1>2
<1>12. c = d
  BY <1>4, <1>5, <1>10, <1>11, OneName
<1> QED BY <1>12 DEF c, d

\* Two parameters of one directory are one.
LEMMA SameParam ==
  ASSUME mounted \subseteq Ops \X Scripts, OneParamPerDir, NEW r \in mounted, NEW s \in mounted,
         NEW comps, comps = Components(r[2]), NEW cq, cq = Components(s[2]),
         NEW x \in 1 .. Len(comps), x \in 1 .. Len(cq),
         SameTo(cq, comps, x - 1), Kind(comps[x]) = "param", Kind(cq[x]) = "param"
  PROVE  cq[x] = comps[x]
<1> DEFINE k == x - 1
           n == SubSeq(comps, 1, k)
           c == SubSeq(comps, 1, k + 1)
           d == SubSeq(cq, 1, k + 1)
<1>1. Len(comps) \in Nat /\ Len(cq) \in Nat
  BY ComponentTypes
<1>2. k \in 0 .. Len(comps) - 1 /\ k \in 0 .. Len(cq) - 1 /\ k + 1 = x
  BY <1>1
<1>3. n = SubSeq(cq, 1, k)
  BY DEF SameTo
<1> HIDE DEF k, n
<1>4. c \in Children(n) /\ Last(c) = comps[k + 1]
  BY <1>2, NextOnTheWay DEF n
<1>5. d \in Children(n) /\ Last(d) = cq[k + 1]
  BY <1>2, <1>3, NextOnTheWay
<1>6. n \in Nodes
  <2>1. k \in 0 .. Len(Components(r[2]))
    BY <1>1, <1>2
  <2> QED BY <2>1, NodesAre DEF n
<1> HIDE DEF c, d
<1>7. c \in ChildrenOf(n, "param") /\ d \in ChildrenOf(n, "param")
  BY <1>2, <1>4, <1>5 DEF ChildrenOf
<1>8. c = d
  BY <1>6, <1>7 DEF OneParamPerDir
<1> QED BY <1>2, <1>4, <1>5, <1>8

LEMMA SameNext ==
  ASSUME mounted \subseteq Ops \X Scripts, OneParamPerDir, NEW r \in mounted, NEW s \in mounted,
         NEW p, p = r[2], NEW q, q = s[2],
         NEW comps, NEW o, InParts(p, comps, o), NEW cq, NEW oq, InParts(q, cq, oq),
         NEW l \in 1 .. Len(comps), o[l - 1] + 1 < Len(q),
         \A y \in 1 .. o[l - 1] + 1 : Edge(p, y) = Edge(q, y),
         NEW j \in Nat, j + 1 < l, SameParts(cq, comps, oq, o, j)
  PROVE  SameParts(cq, comps, oq, o, j + 1)
<1> DEFINE x == j + 1
<1>1. Laid(p, comps, o) /\ Laid(q, cq, oq) /\ comps = Components(p) /\ cq = Components(q)
      /\ p \in Scripts
  BY DEF InParts, IsWhole
<1>2. Len(comps) \in Nat /\ Len(cq) \in Nat /\ Len(p) \in Nat /\ Len(q) \in Nat /\ oq[Len(cq)] = Len(q)
  <2>1. Places(q, cq, oq)
    BY <1>1 DEF Laid
  <2>2. oq[Len(cq)] = Len(q)
    BY <2>1 DEF Places
  <2> QED BY <1>1, <2>2 DEF Laid
<1>3. /\ x \in 1 .. Len(comps) /\ x + 1 \in 1 .. Len(comps) /\ x - 1 = j /\ j \in 0 .. Len(comps)
      /\ x \in 0 .. Len(comps) /\ x \in 1 .. l - 1 /\ l - 1 \in 0 .. Len(comps)
      /\ l - 1 \in j .. Len(comps) /\ l - 1 \in x .. Len(comps)
  BY <1>2
<1>4. o[j] <= o[l - 1] /\ o[x] <= o[l - 1] /\ o[j] \in Nat /\ o[x] \in Nat /\ o[l - 1] \in Nat
  BY <1>1, <1>3, LaidGrows
<1>5. j <= Len(cq) /\ oq[j] = o[j] /\ \A a \in 1 .. j : cq[a] = comps[a]
  BY DEF SameParts
<1>6. x \in 1 .. Len(cq)
  <2>1. o[l - 1] + 1 < Len(q)
    OBVIOUS
  <2>2. j # Len(cq)
    BY <1>2, <1>4, <1>5, <2>1
  <2> QED BY <1>2, <1>5, <2>2
<1>7. o[x] + 1 <= Len(q) /\ \A y \in 1 .. o[x] + 1 : Edge(p, y) = Edge(q, y)
  <2>1. o[l - 1] + 1 < Len(q)
    OBVIOUS
  <2>2. o[x] + 1 <= Len(q) /\ \A y \in 1 .. o[x] + 1 : y \in 1 .. o[l - 1] + 1
    BY <1>2, <1>4, <2>1
  <2> QED BY <2>2
<1> HIDE DEF x
<1>8. oq[x - 1] = o[x - 1]
  BY <1>3, <1>5
<1>9. /\ o[x - 1] \in Nat /\ Len(comps[x]) \in Nat \ {0} /\ o[x] = o[x - 1] + 1 + Len(comps[x])
      /\ o[x] <= Len(p) /\ \A i \in 1 .. Len(comps[x]) : p[o[x - 1] + 1 + i] = comps[x][i]
  <2>1. Laid(p, comps, o) /\ x \in 1 .. Len(comps)
    BY <1>1, <1>3
  <2>2. o[x - 1] \in Nat /\ o[x] = o[x - 1] + 1 + Len(comps[x]) /\ o[x] <= Len(p)
    BY <2>1, LaidEnds
  <2>3. \A i \in 1 .. Len(comps[x]) : p[o[x - 1] + 1 + i] = comps[x][i]
    <3>1. Has(p, o[x - 1] + 1, comps[x])
      BY <2>1, LaidNames
    <3> QED BY <3>1 DEF Has
  <2>4. Len(comps[x]) \in Nat \ {0}
    BY <1>3, PartFacts
  <2> QED BY <2>2, <2>3, <2>4
<1>10. /\ Len(cq[x]) \in Nat \ {0} /\ oq[x] = oq[x - 1] + 1 + Len(cq[x])
       /\ \A i \in 1 .. Len(cq[x]) : q[oq[x - 1] + 1 + i] = cq[x][i]
  <2>1. Laid(q, cq, oq) /\ x \in 1 .. Len(cq)
    BY <1>1, <1>6
  <2>2. oq[x] = oq[x - 1] + 1 + Len(cq[x])
    BY <2>1, LaidEnds
  <2>3. \A i \in 1 .. Len(cq[x]) : q[oq[x - 1] + 1 + i] = cq[x][i]
    <3>1. Has(q, oq[x - 1] + 1, cq[x])
      BY <2>1, LaidNames
    <3> QED BY <3>1 DEF Has
  <2>4. Len(cq[x]) \in Nat \ {0}
    BY <1>6, PartFacts
  <2> QED BY <2>2, <2>3, <2>4
<1>11. ASSUME PlainToken(comps[x]) PROVE cq[x] = comps[x]
  BY <1>3, <1>6, <1>7, <1>8, <1>11, SameCharacters
<1>12. ASSUME comps[x] = <<Star>> PROVE cq[x] = comps[x]
  <2>1. o[x] = o[x - 1] + 1 + 1 /\ p[o[x - 1] + 1 + 1] = Star
    <3>1. Len(comps[x]) = 1 /\ comps[x][1] = Star
      BY <1>12
    <3>2. 1 \in 1 .. Len(comps[x])
      BY <3>1
    <3> QED BY <1>9, <3>1, <3>2
  <2>2. p[o[x]] = Star /\ o[x] \in 1 .. Len(p) - 1
    <3>1. o[x] \in 1 .. Len(p) - 1
      BY <1>1, <1>3, NotTheLast
    <3> QED BY <1>9, <2>1, <3>1
  <2>3. \A i \in 1 .. Len(p) - 1 : p[i] # Star
    BY <1>1, ScriptFacts DEF PatternIsLegal
  <2> QED BY <2>2, <2>3
<1>13. ASSUME Kind(comps[x]) = "param" /\ comps[x][1] \in Params /\ comps[x] = <<comps[x][1]>>
       PROVE  cq[x] = comps[x]
  <2> DEFINE a == o[x - 1]
             c == comps[x]
             d == cq[x]
  <2>1. /\ a \in Nat /\ o[x] = a + 1 + Len(c) /\ Len(d) \in Nat \ {0} /\ oq[x - 1] = a
        /\ p[a + 1 + 1] = c[1] /\ q[a + 1 + 1] = d[1] /\ c[1] \in Params /\ Kind(c) = "param"
        /\ Len(c) \in Nat \ {0}
    <3>1. 1 \in 1 .. Len(comps[x]) /\ 1 \in 1 .. Len(cq[x])
      BY <1>9, <1>10
    <3> QED BY <1>8, <1>9, <1>10, <1>13, <3>1
  <2>2. Edge(p, a + 1 + 1) = Edge(q, a + 1 + 1)
    <3>1. a + 1 + 1 \in 1 .. o[x] + 1
      <4> HIDE DEF a, c, d
      <4> QED BY <2>1
    <3> QED BY <1>7, <3>1
  <2>3. \/ Kind(d) = "plain" /\ \A i \in 1 .. Len(d) : d[i] \notin Wild
        \/ Kind(d) = "param"
        \/ d = <<Star>>
    BY <1>6, PartFacts
  <2>4. SameTo(cq, comps, x - 1)
    <3>1. cq \in Seq(Comps) /\ comps \in Seq(Comps)
      BY <1>1, ComponentTypes DEF InParts, IsWhole
    <3>2. \A i \in 1 .. j : cq[i] = comps[i]
      BY <1>5
    <3>3. SubSeq(cq, 1, j) = SubSeq(comps, 1, j)
      BY <1>2, <1>3, <1>5, <3>1, <3>2
    <3> QED BY <1>3, <3>3 DEF SameTo
  <2> HIDE DEF a, c, d
  <2>5. TypeOf(d[1]) = "param" /\ d[1] \in Wild /\ d[1] # Star
    <3>1. TypeOf(p[a + 1 + 1]) = "param"
      BY <2>1, TokenTypes
    <3>2. TypeOf(q[a + 1 + 1]) = "param"
      BY <2>2, <3>1, OneEdge
    <3>3. d[1] \in Wild
      BY <2>1, <3>2, EdgeTypes
    <3>4. d[1] # Star
      BY <2>1, <3>2, TokenTypes
    <3> QED BY <2>1, <3>2, <3>3, <3>4
  <2>6. Kind(d) = "param"
    <3>1. 1 \in 1 .. Len(d) /\ (d = <<Star>> => d[1] = Star)
      BY <2>1
    <3> QED BY <2>3, <2>5, <3>1
  <2>7. d = c
    <3>1. Kind(comps[x]) = "param" /\ Kind(cq[x]) = "param"
      BY <2>1, <2>6 DEF c, d
    <3>2. comps = Components(r[2]) /\ cq = Components(s[2])
      BY <1>1
    <3>3. cq[x] = comps[x]
      <4>1. x \in 1 .. Len(comps) /\ x \in 1 .. Len(cq)
        BY <1>3, <1>6
      <4> QED BY <2>4, <3>1, <3>2, <4>1, SameParam
    <3> QED BY <3>3 DEF c, d
  <2> QED BY <2>7 DEF c, d
<1>14. cq[x] = comps[x]
  <2>1. \/ PlainToken(comps[x])
        \/ Kind(comps[x]) = "param" /\ comps[x][1] \in Params /\ comps[x] = <<comps[x][1]>>
        \/ comps[x] = <<Star>>
    BY <1>3, PartFacts DEF PlainToken
  <2> QED BY <1>11, <1>12, <1>13, <2>1
<1>15. oq[x] = o[x]
  BY <1>8, <1>9, <1>10, <1>14
<1>16. \A a \in 1 .. x : cq[a] = comps[a]
  <2>1. \A a \in 1 .. x : a \in 1 .. j \/ a = x
    BY <1>3
  <2> QED BY <1>5, <1>14, <2>1
<1>17. SameParts(cq, comps, oq, o, x)
  <2>1. x <= Len(cq)
    BY <1>2, <1>6
  <2> QED BY <1>15, <1>16, <2>1 DEF SameParts
<1> QED BY <1>17 DEF x

\* So two routes agree as far as their edges do.
LEMMA SameBefore ==
  ASSUME mounted \subseteq Ops \X Scripts, OneParamPerDir, NEW r \in mounted, NEW s \in mounted,
         NEW p, p = r[2], NEW q, q = s[2],
         NEW comps, NEW o, InParts(p, comps, o), NEW cq, NEW oq, InParts(q, cq, oq),
         NEW l \in 1 .. Len(comps), o[l - 1] + 1 < Len(q), EdgesTo(p, q, o[l - 1] + 1)
  PROVE  SameUpTo(cq, comps, oq, o, l)
<1>1. /\ Laid(p, comps, o) /\ Laid(q, cq, oq) /\ Places(p, comps, o) /\ Places(q, cq, oq)
      /\ comps \in Seq(Comps) /\ cq \in Seq(Comps)
  BY ComponentTypes DEF InParts, IsWhole, Laid
<1>2. Len(comps) \in Nat /\ Len(cq) \in Nat /\ Len(q) \in Nat /\ oq[Len(cq)] = Len(q) /\ oq[0] = 0 /\ o[0] = 0
  <2>1. oq[Len(cq)] = Len(q) /\ oq[0] = 0
    BY <1>1 DEF Places
  <2>2. o[0] = 0
    BY <1>1 DEF Places
  <2> QED BY <1>1, <2>1, <2>2 DEF Laid
<1> DEFINE S == {j \in Nat : j < l => SameParts(cq, comps, oq, o, j)}
<1>3. 0 \in S
  <2>1. \A a \in 1 .. 0 : FALSE
    OBVIOUS
  <2> QED BY <1>2, <2>1 DEF SameParts
<1>4. ASSUME NEW j \in Nat, j \in S PROVE j + 1 \in S
  <2> SUFFICES ASSUME j + 1 < l PROVE SameParts(cq, comps, oq, o, j + 1)
    OBVIOUS
  <2>1. j < l /\ SameParts(cq, comps, oq, o, j)
    BY <1>2, <1>4
  <2>2. \A y \in 1 .. o[l - 1] + 1 : Edge(p, y) = Edge(q, y)
    BY DEF EdgesTo
  <2> QED BY <2>1, <2>2, SameNext
<1>5. l - 1 \in Nat /\ l - 1 < l
  BY <1>2
<1>6. l - 1 \in S
  <2> HIDE DEF S
  <2> QED BY <1>3, <1>4, <1>5, AllNumbers
<1>7. l - 1 <= Len(cq) /\ oq[l - 1] = o[l - 1] /\ \A a \in 1 .. l - 1 : cq[a] = comps[a]
  BY <1>5, <1>6 DEF SameParts
<1>8. l - 1 # Len(cq)
  <2>1. o[l - 1] \in Nat
    BY <1>1, <1>2, LaidFacts
  <2>2. o[l - 1] + 1 < Len(q)
    OBVIOUS
  <2> QED BY <1>2, <1>7, <2>1, <2>2
<1>9. l \in 1 .. Len(cq)
  BY <1>2, <1>7, <1>8
<1>10. SubSeq(cq, 1, l - 1) = SubSeq(comps, 1, l - 1)
  BY <1>1, <1>2, <1>7, <1>9
<1> QED BY <1>7, <1>9, <1>10 DEF SameTo, SameUpTo

\* A way that reads on through a component of characters reads a whole name.
LEMMA ReadsStep ==
  ASSUME NEW reg, NEW n, NEW q, Len(q) \in Nat, WayOf(reg, n, q), NEW path, NEW cut, NEW a \in Nat,
         ReadsAll(reg, n, path, cut, a), NEW i \in 1 .. Len(q), a < i, q[i] \notin Wild
  PROVE  ReadsAt(q, path, cut, i)
<1>1. i \in a + 1 .. n[2] /\ Way(reg, n, i) = Edge(q, i)
  BY DEF WayOf
<1>2. Edge(q, i).typ = "static" /\ Edge(q, i).text = q[i]
  BY StaticEdges, EdgeTypes
<1>3. Way(reg, n, i).typ = "static" /\ Way(reg, n, i).text = q[i]
  BY <1>1, <1>2
<1> QED BY <1>1, <1>3 DEF ReadsAll, ReadsAt

LEMMA NameThere ==
  ASSUME NEW path, NEW names, NEW m, LaidOn(path, names, m), NEW l \in 1 .. Len(names)
  PROVE  /\ At(path, m[l - 1] + 1, names[l]) /\ m[l - 1] + 1 \in Nat /\ Len(path) \in Nat
         /\ names[l] \in Seq(ToSet(names[l])) /\ \A j \in 1 .. Len(names[l]) : names[l][j] # "/"
<1>1. Laid(path, names, m) /\ names[l] \in Names
  BY DEF LaidOn
<1>2. Has(path, m[l - 1] + 1, names[l])
  BY <1>1, LaidNames
<1>3. /\ Len(path) \in Nat /\ Len(names[l]) \in Nat /\ m[l - 1] \in Nat
      /\ m[l] = m[l - 1] + 1 + Len(names[l]) /\ m[l] <= Len(path)
  BY <1>1, LaidEnds
<1>4. m[l] = Len(path) \/ path[m[l] + 1] = "/"
  BY <1>1, LaidFacts
<1>5. At(path, m[l - 1] + 1, names[l])
  BY <1>2, <1>3, <1>4 DEF At, Has
<1>6. names[l] \in Seq(ToSet(names[l])) /\ \A j \in 1 .. Len(names[l]) : names[l][j] # "/"
  BY <1>1, NamesArePlain
<1>7. m[l - 1] + 1 \in Nat
  BY <1>3
<1> QED BY <1>3, <1>5, <1>6, <1>7

LEMMA ReadsName ==
  ASSUME NEW q, NEW cq, NEW oq, InParts(q, cq, oq), NEW l \in 1 .. Len(cq), PlainToken(cq[l]),
         NEW reg, NEW n, WayOf(reg, n, q),
         NEW path, NEW names, NEW m, LaidOn(path, names, m), l \in 1 .. Len(names),
         ReadsOn(reg, n, path, oq[l - 1] + 1, m[l - 1] + 1)
  PROVE  cq[l] = names[l]
<1> DEFINE a == oq[l - 1] + 1
           b == m[l - 1] + 1
           c == cq[l]
           e == oq[l]
<1>1. /\ Len(q) \in Nat /\ Len(c) \in Nat /\ a \in Nat /\ e \in Nat /\ e = a + Len(c) /\ e <= Len(q)
      /\ Has(q, a, c)
  <2>1. Laid(q, cq, oq)
    BY DEF InParts
  <2>2. /\ Len(q) \in Nat /\ Len(cq[l]) \in Nat /\ oq[l - 1] \in Nat /\ oq[l] \in Nat
        /\ oq[l] = oq[l - 1] + 1 + Len(cq[l]) /\ oq[l] <= Len(q)
    BY <2>1, LaidEnds
  <2>3. Has(q, oq[l - 1] + 1, cq[l])
    BY <2>1, LaidNames
  <2> QED BY <2>2, <2>3
<1>2. e = Len(q) \/ q[e + 1] = "/"
  <2>1. Laid(q, cq, oq)
    BY DEF InParts
  <2> QED BY <2>1, LaidFacts
<1>3. c \in Seq(AllTokens) /\ (\A j \in 1 .. Len(c) : c[j] # "/") /\ \A j \in 1 .. Len(c) : c[j] \notin Wild
  BY PartFacts DEF PlainToken
<1>4. b \in Nat /\ Len(path) \in Nat
  BY NameThere
<1>5. n[2] = Len(q)
  BY DEF WayOf
<1>6. PICK cut \in [a .. n[2] -> 0 .. Len(path)] :
        cut[a] = b /\ cut[n[2]] = Len(path) /\ ReadsAll(reg, n, path, cut, a)
  BY DEF ReadsOn, ReadsAll
<1>7. ASSUME NEW i \in a + 1 .. Len(q), q[i] \notin Wild
      PROVE  cut[i] = cut[i - 1] + 1 /\ path[cut[i]] = q[i]
  <2> HIDE DEF a, b, c, e
  <2>1. i \in 1 .. Len(q) /\ a < i /\ Len(q) \in Nat /\ a \in Nat
    BY <1>1
  <2>2. WayOf(reg, n, q) /\ ReadsAll(reg, n, path, cut, a) /\ q[i] \notin Wild
    BY <1>6, <1>7
  <2>3. ReadsAt(q, path, cut, i)
    BY <2>1, <2>2, ReadsStep
  <2> QED BY <2>3 DEF ReadsAt
<1> HIDE DEF a, b, c, e
<1> DEFINE S == {j \in Nat : j <= Len(c) => cut[a + j] = b + j /\ (j # 0 => path[b + j] = c[j])}
<1>8. 0 \in S
  BY <1>1, <1>4, <1>6
<1>9. ASSUME NEW j \in Nat, j \in S PROVE j + 1 \in S
  <2> SUFFICES ASSUME j + 1 <= Len(c)
               PROVE  cut[a + (j + 1)] = b + (j + 1) /\ path[b + (j + 1)] = c[j + 1]
    OBVIOUS
  <2> DEFINE i == a + (j + 1)
  <2>1. i \in a + 1 .. Len(q) /\ i - 1 = a + j /\ j + 1 \in 1 .. Len(c) /\ j <= Len(c)
    BY <1>1
  <2>2. q[i] = c[j + 1] /\ c[j + 1] \notin Wild
    BY <1>1, <1>3, <2>1 DEF Has
  <2> HIDE DEF i
  <2>3. cut[i] = cut[i - 1] + 1 /\ path[cut[i]] = c[j + 1]
    BY <1>7, <2>1, <2>2
  <2>4. cut[i - 1] = b + j
    BY <1>9, <2>1
  <2>5. cut[i] = b + (j + 1)
    BY <1>4, <2>3, <2>4
  <2> QED BY <2>3, <2>5 DEF i
<1>10. \A j \in 0 .. Len(c) : cut[a + j] = b + j /\ (j # 0 => path[b + j] = c[j])
  <2>1. \A j \in Nat : j \in S
    <3> HIDE DEF S
    <3> QED BY <1>8, <1>9, AllNumbers
  <2>2. \A j \in 0 .. Len(c) : j \in Nat /\ j <= Len(c)
    BY <1>1
  <2> QED BY <2>1, <2>2
<1> HIDE DEF S
<1>11. cut[e] = b + Len(c) /\ \A j \in 1 .. Len(c) : path[b + j] = c[j]
  <2>1. Len(c) \in 0 .. Len(c) /\ \A j \in 1 .. Len(c) : j \in 0 .. Len(c) /\ j # 0
    BY <1>1
  <2> QED BY <1>1, <1>10, <2>1
<1>12. At(path, b, c)
  <2>1. e \in a .. n[2]
    BY <1>1, <1>5
  <2>2. cut[e] \in 0 .. Len(path)
    BY <1>6, <2>1
  <2>3. b + Len(c) <= Len(path)
    BY <1>1, <1>4, <1>11, <2>2
  <2>4. b + Len(c) = Len(path) \/ path[b + Len(c) + 1] = "/"
    <3>1. CASE e = Len(q)
      BY <1>5, <1>6, <1>11, <3>1
    <3>2. CASE e # Len(q)
      <4>1. q[e + 1] = "/" /\ q[e + 1] \notin Wild
        BY <1>2, <3>2, PathsAssumption
      <4> DEFINE i == e + 1
      <4>2. i \in a + 1 .. Len(q) /\ i - 1 = e
        BY <1>1, <3>2
      <4>3. q[i] = "/" /\ q[i] \notin Wild
        BY <4>1
      <4> HIDE DEF i
      <4>4. cut[i] = cut[i - 1] + 1 /\ path[cut[i]] = "/"
        BY <1>7, <4>2, <4>3
      <4>5. cut[i] = b + Len(c) + 1
        BY <1>1, <1>4, <1>11, <4>2, <4>4
      <4> QED BY <4>4, <4>5
    <3> QED BY <3>1, <3>2
  <2> QED BY <1>11, <2>3, <2>4 DEF At
<1>13. /\ At(path, b, names[l]) /\ names[l] \in Seq(ToSet(names[l]))
       /\ \A j \in 1 .. Len(names[l]) : names[l][j] # "/"
  BY NameThere DEF b
<1>14. c = names[l]
  BY <1>3, <1>4, <1>12, <1>13, OneName
<1> QED BY <1>14 DEF c

\* The endpoint of a node is a route, whose edges are the node's way.
LEMMA EndpointRoute ==
  ASSUME RadixInv(tree, registered), mounted = ListedRoutes, NEW op \in Ops, NEW m \in DOMAIN tree,
         NEW q, q = tree[m].eps[op], q # NoRoute
  PROVE  q \in Patterns /\ WayOf(registered, m, q) /\ <<op, q>> \in mounted
<1>1. IsLog(registered) /\ IsTree(tree, registered)
  BY DEF RadixInv
<1>2. PICK i \in 1 .. Len(registered) : EndsHere(registered, m, i) /\ q = registered[i][2]
  BY DEF RadixInv, LastWins
<1>3. q \in Patterns
  BY <1>1, <1>2, LogTypes
<1>4. m[2] = Len(q) /\ \A y \in 1 .. m[2] : Way(registered, m, y) = Edge(q, y)
  BY <1>2 DEF EndsHere, Leads, Way
<1>5. q \in Listed(op)
  <2>1. AllNodes(tree) = DOMAIN tree
    BY <1>1, WalkIs
  <2> QED BY <2>1 DEF Listed
<1> QED BY <1>3, <1>4, <1>5 DEF WayOf, ListedRoutes

\* The tokens of two parameters, each with a slash after it or the end, have one
\* edge.
LEMMA ParamEdges ==
  ASSUME NEW p, NEW q, NEW i, p[i] \in Params, q[i] \in Params,
         i = Len(p) \/ p[i + 1] = "/", i = Len(q) \/ q[i + 1] = "/"
  PROVE  Edge(p, i) = Edge(q, i)
<1>1. TypeOf(p[i]) = TypeOf(q[i])
  BY TokenTypes
<1>2. TextOf(p[i]) = TextOf(q[i])
  <2>1. p[i] \notin Regexps /\ q[i] \notin Regexps
    BY TokensAssumption
  <2> QED BY <2>1, Zenon DEF TextOf
<1>3. TailAt(p, i) = "/" /\ TailAt(q, i) = "/"
  <2>1. "/" \notin Params \cup Regexps
    BY PathsAssumption DEF Wild
  <2>2. FirstByte("/") = "/"
    BY <2>1 DEF FirstByte
  <2>3. TailAt(p, i) = "/"
    BY <2>2, Zenon DEF TailAt
  <2>4. TailAt(q, i) = "/"
    BY <2>2, Zenon DEF TailAt
  <2> QED BY <2>3, <2>4
<1> QED BY <1>1, <1>2, <1>3 DEF Edge

\* And so have two stars.
LEMMA StarEdges ==
  ASSUME NEW p, NEW q, NEW i, p[i] = Star, q[i] = Star
  PROVE  Edge(p, i) = Edge(q, i)
<1>1. Star \notin Params \cup Regexps
  BY TokensAssumption
<1>2. TailAt(p, i) = TailAt(q, i)
  BY <1>1, Zenon DEF TailAt
<1> QED BY <1>2 DEF Edge

\* A walk that has taken a parameter passed no child with the name, and one that
\* has taken a star no parameter.
LEMMA WalkPassed ==
  ASSUME mounted \subseteq Ops \X Scripts, NEW r \in mounted, NEW s \in mounted,
         NEW comps, comps = Components(r[2]), NEW cq, cq = Components(s[2]),
         NEW l \in 1 .. Len(comps), l \in 1 .. Len(cq), SameTo(cq, comps, l - 1),
         NEW name \in Names, SubSeq(comps, 1, l) \in FindChild(SubSeq(comps, 1, l - 1), name)
  PROVE  /\ Kind(cq[l]) = "plain" /\ cq[l] = name => Kind(comps[l]) = "plain"
         /\ Kind(cq[l]) = "param" /\ cq[l] # name => Kind(comps[l]) # "wildcard"
<1> DEFINE k == l - 1
           n == SubSeq(comps, 1, k)
           c == SubSeq(comps, 1, k + 1)
           d == SubSeq(cq, 1, k + 1)
<1>1. Len(comps) \in Nat /\ Len(cq) \in Nat
  BY ComponentTypes
<1>2. k \in 0 .. Len(comps) - 1 /\ k \in 0 .. Len(cq) - 1 /\ k + 1 = l
  BY <1>1
<1>3. n = SubSeq(cq, 1, k)
  BY DEF SameTo
<1>4. c \in FindChild(n, name)
  BY <1>2
<1> HIDE DEF k, n
<1>5. c \in Children(n) /\ Last(c) = comps[k + 1]
  BY <1>2, NextOnTheWay DEF n
<1>6. d \in Children(n) /\ Last(d) = cq[k + 1]
  BY <1>2, <1>3, NextOnTheWay
<1> HIDE DEF c, d
<1> DEFINE A == {x \in ChildrenOf(n, "plain") : Last(x) = name}
           B == {x \in ChildrenOf(n, "glob") : ComponentMatches(Last(x), name)}
           C == {x \in ChildrenOf(n, "param") : Last(x) # name}
           W == ChildrenOf(n, "wildcard")
<1>7. c \in IF A # {} THEN A ELSE IF B # {} THEN B ELSE IF C # {} THEN C ELSE W
  <2>1. FindChild(n, name) = FirstNonEmpty(<<A, B, C, W>>)
    BY DEF FindChild
  <2> HIDE DEF A, B, C, W
  <2> QED BY <1>4, <2>1, FirstIs
<1>8. /\ c \in A => Kind(Last(c)) = "plain"
      /\ c \in B => Kind(Last(c)) = "glob"
      /\ c \in C => Kind(Last(c)) = "param"
  BY DEF ChildrenOf
<1>9. ASSUME Kind(cq[l]) = "plain", cq[l] = name PROVE Kind(comps[l]) = "plain"
  <2>1. d \in A
    BY <1>2, <1>6, <1>9 DEF ChildrenOf
  <2> HIDE DEF A, B, C, W
  <2>2. c \in A
    BY <1>7, <2>1
  <2> QED BY <1>2, <1>5, <1>8, <2>2
<1>10. ASSUME Kind(cq[l]) = "param", cq[l] # name PROVE Kind(comps[l]) # "wildcard"
  <2>1. d \in C
    BY <1>2, <1>6, <1>10 DEF ChildrenOf
  <2> HIDE DEF A, B, C, W
  <2>2. c \in A \/ c \in B \/ c \in C
    BY <1>7, <2>1
  <2>3. Last(c) = comps[l]
    BY <1>2, <1>5
  <2> QED BY <1>8, <2>2, <2>3
<1> QED BY <1>9, <1>10

\* What a component is, and where it ends.
LEMMA PartIs ==
  ASSUME NEW p, NEW comps, NEW o, InParts(p, comps, o), NEW k \in 1 .. Len(comps)
  PROVE  IsPart(comps[k]) /\ EndsAs(p, comps, o, k) /\ Has(p, o[k - 1] + 1, comps[k])
<1>1. IsPart(comps[k])
  BY PartFacts DEF IsPart
<1>2. Laid(p, comps, o)
  BY DEF InParts
<1>3. o[k - 1] \in Nat /\ o[k] = o[k - 1] + 1 + Len(comps[k])
  BY <1>2, LaidEnds
<1>4. o[k] = Len(p) \/ p[o[k] + 1] = "/"
  BY <1>2, LaidFacts
<1>5. Has(p, o[k - 1] + 1, comps[k])
  BY <1>2, LaidNames
<1> QED BY <1>1, <1>3, <1>4, <1>5 DEF EndsAs

\* What beats a parameter or star in the tree beats it in the walk, at the same
\* component, where q is the route that the search could find.
LEMMA PrefersParts ==
  ASSUME mounted \subseteq Ops \X Scripts, NEW r \in mounted, NEW s \in mounted,
         NEW p, p = r[2], NEW q, q = s[2],
         NEW comps, NEW o, InParts(p, comps, o), NEW cq, NEW oq, InParts(q, cq, oq),
         NEW l \in 1 .. Len(comps), l \in 1 .. Len(cq), oq[l - 1] = o[l - 1],
         SameTo(cq, comps, l - 1), NEW i, i = o[l - 1] + 2, comps[l] = <<p[i]>>, p[i] \in Wild,
         NEW name \in Names, SubSeq(comps, 1, l) \in FindChild(SubSeq(comps, 1, l - 1), name),
         PlainToken(cq[l]) => cq[l] = name
  PROVE  NotBefore(q, p, i)
<1>0. /\ IsPart(comps[l]) /\ EndsAs(p, comps, o, l)
      /\ IsPart(cq[l]) /\ EndsAs(q, cq, oq, l) /\ Has(q, oq[l - 1] + 1, cq[l])
  BY PartIs
<1>1. comps = Components(r[2]) /\ cq = Components(s[2])
  BY DEF InParts
<1>2. /\ Kind(cq[l]) = "plain" /\ cq[l] = name => Kind(comps[l]) = "plain"
      /\ Kind(cq[l]) = "param" /\ cq[l] # name => Kind(comps[l]) # "wildcard"
  BY <1>1, WalkPassed
<1>3. Len(comps[l]) = 1 /\ comps[l][1] = p[i] /\ 1 \in 1 .. Len(comps[l])
  OBVIOUS
<1>4. \/ Kind(comps[l]) = "param" /\ p[i] \in Params
      \/ Kind(comps[l]) = "wildcard" /\ p[i] = Star
  <2>1. \/ Kind(comps[l]) = "plain" /\ \A j \in 1 .. Len(comps[l]) : comps[l][j] \notin Wild
        \/ Kind(comps[l]) = "param" /\ comps[l][1] \in Params /\ comps[l] = <<comps[l][1]>>
        \/ Kind(comps[l]) = "wildcard" /\ comps[l] = <<Star>>
    BY <1>0 DEF IsPart
  <2>2. comps[l] = <<Star>> => comps[l][1] = Star
    OBVIOUS
  <2> QED BY <1>3, <2>1, <2>2
<1>5. i = o[l - 1] + 1 + 1 /\ i = o[l] /\ i = oq[l - 1] + 1 + 1
  <2>1. o[l] = o[l - 1] + 1 + Len(comps[l]) /\ o[l - 1] \in Nat
    BY <1>0 DEF EndsAs
  <2> QED BY <1>3, <2>1
<1>6. q[i] = cq[l][1] /\ Len(cq[l]) \in Nat \ {0}
  <2>1. Has(q, oq[l - 1] + 1, cq[l])
    BY <1>0
  <2>2. Len(cq[l]) \in Nat \ {0}
    BY <1>0 DEF IsPart
  <2>3. 1 \in 1 .. Len(cq[l])
    BY <2>2
  <2> QED BY <1>5, <2>1, <2>2, <2>3 DEF Has
<1>7. \/ PlainToken(cq[l]) /\ Kind(cq[l]) = "plain"
      \/ Kind(cq[l]) = "param" /\ q[i] \in Params /\ cq[l] = <<q[i]>>
      \/ q[i] = Star
  <2>1. \/ Kind(cq[l]) = "plain" /\ \A j \in 1 .. Len(cq[l]) : cq[l][j] \notin Wild
        \/ Kind(cq[l]) = "param" /\ cq[l][1] \in Params /\ cq[l] = <<cq[l][1]>>
        \/ Kind(cq[l]) = "wildcard" /\ cq[l] = <<Star>>
    BY <1>0 DEF IsPart
  <2>2. cq[l] = <<Star>> => cq[l][1] = Star
    OBVIOUS
  <2> QED BY <1>6, <2>1, <2>2 DEF PlainToken
<1>8. ~(PlainToken(cq[l]) /\ Kind(cq[l]) = "plain")
  BY <1>2, <1>4
<1>9. CASE q[i] = Star
  <2>1. TypeOf(q[i]) = "catchall"
    BY <1>9, TokenTypes
  <2>2. TypeOf(p[i]) = "catchall" => p[i] = Star
    BY TokenTypes
  <2>3. p[i] = Star => Edge(q, i) = Edge(p, i)
    BY <1>9, StarEdges
  <2> QED BY <2>1, <2>2, <2>3 DEF Earlier, NotBefore
<1>10. CASE Kind(cq[l]) = "param" /\ q[i] \in Params /\ cq[l] = <<q[i]>>
  <2>1. cq[l] # name
    <3>1. cq[l][1] \in Wild /\ Len(cq[l]) = 1
      BY <1>6, <1>10 DEF Wild
    <3>2. \A j \in 1 .. Len(name) : name[j] \notin Wild
      BY NamesArePlain
    <3> QED BY <3>1, <3>2
  <2>2. p[i] \in Params
    BY <1>2, <1>4, <1>10, <2>1
  <2>3. TypeOf(q[i]) = "param" /\ TypeOf(p[i]) = "param"
    BY <1>10, <2>2, TokenTypes
  <2>4. i = Len(p) \/ p[i + 1] = "/"
    <3>1. o[l] = Len(p) \/ p[o[l] + 1] = "/"
      BY <1>0 DEF EndsAs
    <3> QED BY <1>5, <3>1
  <2>5. i = Len(q) \/ q[i + 1] = "/"
    <3>1. oq[l] = Len(q) \/ q[oq[l] + 1] = "/"
      BY <1>0 DEF EndsAs
    <3>2. oq[l] = oq[l - 1] + 1 + Len(cq[l])
      BY <1>0 DEF EndsAs
    <3>3. oq[l] = i
      BY <1>5, <1>10, <3>2
    <3> QED BY <3>1, <3>3
  <2>6. Edge(q, i) = Edge(p, i)
    BY <1>10, <2>2, <2>4, <2>5, ParamEdges
  <2> QED BY <2>3, <2>6 DEF Earlier, NotBefore
<1> QED BY <1>7, <1>8, <1>9, <1>10

\* The wild token by which the way goes on is a component.
LEMMA WildIs ==
  ASSUME NEW p, NEW comps, NEW o, InParts(p, comps, o),
         NEW reg, NEW nodes, IsLog(reg), IsTree(nodes, reg), NEW z \in DOMAIN nodes, WayOf(reg, z, p),
         NEW n \in DOMAIN nodes, Leads(reg, n, z), n # z, p[n[2] + 1] \in Wild
  PROVE  /\ n[2] \in Nat /\ n[2] + 1 \in 1 .. Len(p) /\ Len(p) \in Nat
         /\ WildNext(p, comps, o, n[2])
<1>1. n[2] \in Nat /\ z[2] \in Nat /\ n[2] <= z[2] /\ z[2] = Len(p)
  BY PositionTypes DEF IsTree, Placed, Leads, WayOf
<1>2. n[2] # z[2]
  <2>1. n[2] = z[2] => z[2] <= n[2]
    BY <1>1
  <2> QED BY <2>1, OneNodePerWay
<1> DEFINE i == n[2] + 1
<1>3. i \in 1 .. Len(p) /\ i - 1 = n[2]
  BY <1>1, <1>2
<1>4. p[i] \in Wild
  OBVIOUS
<1> HIDE DEF i
<1>5. PICK l \in 1 .. Len(comps) : i = o[l - 1] + 2 /\ comps[l] = <<p[i]>>
  <2>1. WildAt(p, comps, o, i)
    BY <1>3, <1>4, WildPlace
  <2> QED BY <2>1 DEF WildAt
<1>6. o[l - 1] \in Nat
  BY PartIs DEF EndsAs
<1>7. n[2] = o[l - 1] + 1
  BY <1>1, <1>3, <1>5, <1>6
<1>8. WildNext(p, comps, o, n[2])
  BY <1>5, <1>6, <1>7 DEF WildNext
<1> QED BY <1>1, <1>3, <1>8 DEF i

\* The edges of two routes with a common node.
LEMMA CommonEdges ==
  ASSUME NEW reg, NEW nodes, IsLog(reg), IsTree(nodes, reg),
         NEW z \in DOMAIN nodes, NEW p, WayOf(reg, z, p), NEW x \in DOMAIN nodes, NEW q, WayOf(reg, x, q),
         NEW n \in DOMAIN nodes, Leads(reg, n, z), NEW k \in Kids(nodes, n), Leads(reg, k, x)
  PROVE  /\ n[2] < Len(q) /\ Len(q) \in Nat
         /\ EdgesTo(p, q, n[2])
         /\ nodes[k].prefix[1] = Edge(q, n[2] + 1)
<1>1. k \in DOMAIN nodes /\ Spans(reg, nodes[k].prefix, n, k) /\ nodes[k].prefix[1] = Way(reg, k, n[2] + 1)
  BY KidFacts
<1>2. n[2] \in Nat /\ k[2] \in Nat /\ z[2] \in Nat /\ x[2] \in Nat
  BY <1>1, PositionTypes DEF IsTree, Placed
<1>3. n[2] <= z[2] /\ k[2] <= x[2] /\ n[2] < k[2] /\ z[2] = Len(p) /\ x[2] = Len(q)
  BY <1>1 DEF Leads, WayOf, Spans
<1>4. \A y \in 1 .. n[2] : Way(reg, n, y) = Way(reg, z, y) /\ Way(reg, n, y) = Way(reg, k, y)
  BY <1>1 DEF Leads, Spans
<1>5. \A y \in 1 .. k[2] : Way(reg, k, y) = Way(reg, x, y)
  BY DEF Leads
<1>6. /\ \A y \in 1 .. z[2] : Way(reg, z, y) = Edge(p, y)
      /\ \A y \in 1 .. x[2] : Way(reg, x, y) = Edge(q, y)
  BY DEF WayOf
<1>7. ASSUME NEW y \in 1 .. n[2] PROVE Edge(p, y) = Edge(q, y)
  <2>1. y \in 1 .. z[2] /\ y \in 1 .. k[2] /\ y \in 1 .. x[2]
    BY <1>2, <1>3
  <2> QED BY <1>4, <1>5, <1>6, <2>1
<1>8. nodes[k].prefix[1] = Edge(q, n[2] + 1)
  <2>1. n[2] + 1 \in 1 .. k[2] /\ n[2] + 1 \in 1 .. x[2]
    BY <1>2, <1>3
  <2> QED BY <1>1, <1>5, <1>6, <2>1
<1> QED BY <1>2, <1>3, <1>7, <1>8 DEF EdgesTo

\* The route of an endpoint, in parts.
LEMMA EndpointParts ==
  ASSUME RadixInv(tree, registered), Mounted, WholeComponents, NEW op \in Ops, NEW x \in DOMAIN tree,
         NEW q, q = tree[x].eps[op], q # NoRoute, Len(q) # 1
  PROVE  WayOf(registered, x, q) /\ <<op, q>> \in mounted /\ \E cq, oq : InParts(q, cq, oq)
<1>1. q \in Patterns /\ WayOf(registered, x, q) /\ <<op, q>> \in mounted
  BY EndpointRoute DEF Mounted
<1>2. IsWhole(q)
  <2> DEFINE s == <<op, q>>
  <2>1. s \in mounted /\ s[2] = q
    BY <1>1
  <2> HIDE DEF s
  <2>2. ToSet(q) \cap Regexps = {} /\ PlainPattern(q)
    BY <2>1 DEF WholeComponents
  <2>3. q \in Scripts
    BY <2>1 DEF Mounted
  <2> QED BY <2>2, <2>3 DEF IsWhole
<1> DEFINE cq == Components(q)
<1>3. cq # <<>>
  <2>1. PathOf(cq) = q
    BY <1>2, ComponentTypes DEF IsWhole
  <2>2. cq = <<>> => PathOf(cq) = <<"/">>
    BY DEF PathOf
  <2>3. Len(<<"/">>) = 1
    OBVIOUS
  <2> QED BY <2>1, <2>2, <2>3
<1>4. \E oq : InParts(q, cq, oq)
  <2> HIDE DEF cq
  <2>1. cq = Components(q)
    BY DEF cq
  <2> QED BY <1>2, <1>3, <2>1, PartsOf
<1> QED BY <1>1, <1>4

LEMMA CutOfCharacter ==
  ASSUME NEW p, Len(p) \in Nat, NEW path, path \in Seq(ToSet(path)), NEW cut, Cuts(p, path, cut),
         NEW i \in 1 .. Len(p), p[i] \notin Wild
  PROVE  NextCut(cut, i)
BY CutFacts DEF NextCut

LEMMA CutThere ==
  ASSUME NEW p, NEW comps, NEW o, InParts(p, comps, o), NEW path, path \in Seq(ToSet(path)),
         NEW cut, Cuts(p, path, cut), NEW m, CutsAt(cut, o, m, Len(comps)), NEW l \in 1 .. Len(comps)
  PROVE  cut[o[l - 1] + 1] = m[l - 1] + 1
<1> DEFINE b == o[l - 1] + 1
<1>1. Laid(p, comps, o) /\ Len(comps) \in Nat
  BY DEF InParts, Laid
<1>2. /\ o[l - 1] \in Nat /\ o[l] \in Nat /\ Len(comps[l]) \in Nat /\ o[l] = b + Len(comps[l])
      /\ o[l] <= Len(p) /\ Len(p) \in Nat /\ p[b] = "/"
  BY <1>1, LaidEnds
<1> DEFINE c == Len(comps[l])
           e == o[l]
           a == o[l - 1]
<1>3. a \in Nat /\ b = a + 1 /\ c \in Nat /\ e = b + c /\ e <= Len(p) /\ Len(p) \in Nat
  BY <1>2
<1>4. cut[a] = m[l - 1]
  <2>1. l - 1 \in 0 .. Len(comps)
    BY <1>1
  <2> QED BY <2>1 DEF CutsAt
<1> HIDE DEF a, b, c, e
<1>5. b \in 1 .. Len(p) /\ b - 1 = a
  BY <1>3
<1>6. p[b] \notin Wild
  BY <1>2, PathsAssumption
<1>7. cut[b] = cut[b - 1] + 1
  <2>1. NextCut(cut, b)
    BY <1>3, <1>5, <1>6, CutOfCharacter
  <2> QED BY <2>1 DEF NextCut
<1> QED BY <1>4, <1>5, <1>7 DEF b

LEMMA PrefersRoute ==
  ASSUME mounted \subseteq Ops \X Scripts, OneParamPerDir, NEW r, NEW p, p = r[2],
         NEW comps, NEW o, NEW path, NEW names, NEW m, WalkedTo(r, comps, o, path, names, m),
         NEW s \in mounted, NEW q, q = s[2], NEW cq, NEW oq, InParts(q, cq, oq),
         NEW l \in 1 .. Len(comps), NEW a, a = o[l - 1], a + 1 < Len(q), EdgesTo(p, q, a + 1),
         comps[l] = <<p[a + 2]>>, p[a + 2] \in Wild,
         NEW reg, NEW x, WayOf(reg, x, q), ReadsOn(reg, x, path, a + 1, m[l - 1] + 1)
  PROVE  NotBefore(q, p, a + 2)
<1>1. /\ r \in mounted /\ InParts(p, comps, o) /\ LaidOn(path, names, m)
      /\ Len(names) = Len(comps) /\ Walked(comps, names)
  BY DEF WalkedTo
<1>2. SameUpTo(cq, comps, oq, o, l)
  <2>1. o[l - 1] + 1 < Len(q) /\ EdgesTo(p, q, o[l - 1] + 1)
    OBVIOUS
  <2> QED BY <1>1, <2>1, SameBefore
<1>3. l \in 1 .. Len(cq) /\ oq[l - 1] = o[l - 1] /\ SameTo(cq, comps, l - 1)
  BY <1>2 DEF SameUpTo
<1>4. /\ l \in 1 .. Len(names) /\ names[l] \in Names
      /\ SubSeq(comps, 1, l) \in FindChild(SubSeq(comps, 1, l - 1), names[l])
  <2>1. names \in Seq(Names) /\ l \in 1 .. Len(names)
    BY <1>1 DEF LaidOn
  <2> QED BY <1>1, <2>1 DEF Walked
<1>5. ASSUME PlainToken(cq[l]) PROVE cq[l] = names[l]
  <2>1. ReadsOn(reg, x, path, oq[l - 1] + 1, m[l - 1] + 1)
    BY <1>3
  <2> QED BY <1>1, <1>3, <1>4, <1>5, <2>1, ReadsName
<1> DEFINE i == a + 2
<1>6. i = o[l - 1] + 2 /\ comps[l] = <<p[i]>> /\ p[i] \in Wild
  OBVIOUS
<1> HIDE DEF i
<1>7. NotBefore(q, p, i)
  BY <1>1, <1>3, <1>4, <1>5, <1>6, PrefersParts
<1> QED BY <1>7 DEF i

\* A way that the search could find is not preferred to the route's own.
LEMMA PrefersIt ==
  ASSUME RadixInv(tree, registered), Mounted, WholeComponents, OneParamPerDir,
         NEW r, NEW op, NEW p, NEW comps, NEW o, NEW path, NEW names, NEW m, NEW cut, NEW z,
         OnItsWay(r, op, p, comps, o, path, names, m, cut, z),
         NEW n, NEW k, NEW x, Rival(registered, tree, path, cut, z, p, n, k, x),
         HasRoute(tree, x, op)
  PROVE  NotFirst(tree, k, p, n[2] + 1)
<1> DEFINE q == tree[x].eps[op]
           s == <<op, q>>
<1>1. IsLog(registered) /\ IsTree(tree, registered) /\ mounted \subseteq Ops \X Scripts
  BY DEF RadixInv, Mounted
<1>2. /\ r \in mounted /\ InParts(p, comps, o) /\ op \in Ops /\ p = r[2]
      /\ WalkedTo(r, comps, o, path, names, m) /\ path \in Seq(ToSet(path))
      /\ z \in DOMAIN tree /\ WayOf(registered, z, p) /\ q # NoRoute
  BY <1>1 DEF WalkedTo, OnItsWay, HasRoute
<1>3. /\ n \in DOMAIN tree /\ k \in Kids(tree, n) /\ x \in DOMAIN tree
      /\ Leads(registered, n, z) /\ n # z /\ p[n[2] + 1] \in Wild
      /\ Leads(registered, k, x) /\ ReadsOn(registered, x, path, n[2], cut[n[2]])
  BY DEF Rival
<1>4. n[2] \in Nat /\ WildNext(p, comps, o, n[2])
  BY <1>1, <1>2, <1>3, WildIs
<1>5. PICK l \in 1 .. Len(comps) :
        n[2] = o[l - 1] + 1 /\ comps[l] = <<p[o[l - 1] + 2]>> /\ o[l - 1] \in Nat
  BY <1>4 DEF WildNext
<1> DEFINE a == o[l - 1]
<1>6. a \in Nat /\ n[2] = a + 1 /\ n[2] + 1 = a + 2 /\ comps[l] = <<p[a + 2]>>
  BY <1>5
<1>7. p[a + 2] \in Wild
  BY <1>3, <1>6
<1> HIDE DEF a, q
<1>8. WayOf(registered, x, q)
  BY <1>2, <1>3, EndpointRoute DEF Mounted, q
<1>9. n[2] < Len(q) /\ Len(q) \in Nat /\ EdgesTo(p, q, n[2]) /\ tree[k].prefix[1] = Edge(q, n[2] + 1)
  BY <1>1, <1>2, <1>3, <1>8, CommonEdges
<1>10. a + 1 < Len(q) /\ EdgesTo(p, q, a + 1) /\ Len(q) # 1
  <2>1. a + 1 < Len(q) /\ Len(q) # 1
    <3> DEFINE b == n[2]
               c == Len(q)
    <3>1. a \in Nat /\ b = a + 1 /\ b < c /\ c \in Nat
      BY <1>6, <1>9
    <3> HIDE DEF b, c
    <3>2. a + 1 < c /\ c # 1
      BY <3>1
    <3> QED BY <3>2 DEF c
  <2> QED BY <1>6, <1>9, <2>1
<1>11. s \in mounted /\ \E cq, oq : InParts(q, cq, oq)
  BY <1>2, <1>3, <1>10, EndpointParts DEF q
<1>12. PICK cq, oq : InParts(q, cq, oq)
  BY <1>11
<1>13. cut[n[2]] = m[l - 1] + 1
  <2>1. Cuts(p, path, cut) /\ CutsAt(cut, o, m, Len(comps))
    BY DEF OnItsWay
  <2>2. cut[o[l - 1] + 1] = m[l - 1] + 1
    BY <1>2, <2>1, CutThere
  <2> QED BY <1>5, <2>2
<1>14. ReadsOn(registered, x, path, a + 1, m[l - 1] + 1)
  BY <1>3, <1>6, <1>13
<1>15. s[2] = q
  OBVIOUS
<1>16. NotBefore(q, p, a + 2)
  <2> HIDE DEF s
  <2>1. a = o[l - 1]
    BY DEF a
  <2> QED BY <1>1, <1>2, <1>6, <1>7, <1>8, <1>10, <1>11, <1>12, <1>14, <1>15, <2>1, PrefersRoute
<1>17. tree[k].prefix[1] = Edge(q, a + 2) /\ tree[k].prefix[1].typ = TypeOf(q[a + 2])
  BY <1>6, <1>9, EdgeTypes
<1>18. NotFirst(tree, k, p, a + 2)
  BY <1>16, <1>17 DEF NotFirst, NotBefore
<1> QED BY <1>6, <1>18

LEMMA NoneIsPreferred ==
  ASSUME RadixInv(tree, registered), Mounted, WholeComponents, OneParamPerDir,
         NEW r, NEW op, NEW p, NEW comps, NEW o, NEW path, NEW names, NEW m, NEW cut, NEW z,
         OnItsWay(r, op, p, comps, o, path, names, m, cut, z)
  PROVE  Preferred(tree, registered, op, path, cut, p, z)
<1> SUFFICES ASSUME NEW n \in DOMAIN tree, NEW k \in Kids(tree, n), NEW x \in DOMAIN tree,
                    Leads(registered, n, z), n # z, p[n[2] + 1] \in Wild,
                    Leads(registered, k, x), tree[x].eps[op] # NoRoute,
                    ReadsOn(registered, x, path, n[2], cut[n[2]])
             PROVE  /\ ~Earlier(tree[k].prefix[1].typ, TypeOf(p[n[2] + 1]))
                    /\ tree[k].prefix[1].typ = TypeOf(p[n[2] + 1]) =>
                         tree[k].prefix[1] = Edge(p, n[2] + 1)
  BY DEF Preferred
<1>1. Rival(registered, tree, path, cut, z, p, n, k, x)
  BY DEF Rival
<1>2. HasRoute(tree, x, op)
  BY DEF HasRoute
<1>3. NotFirst(tree, k, p, n[2] + 1)
  BY <1>1, <1>2, PrefersIt
<1> QED BY <1>3 DEF NotFirst

\* The parameters of such a route are components.
LEMMA WholeIsWhole ==
  ASSUME NEW p, IsWhole(p)
  PROVE  WholeParams(p)
<1>1. p \in Scripts /\ ToSet(p) \cap Regexps = {} /\ PlainPattern(p)
  BY DEF IsWhole
<1>2. Components(p) \in Seq(Comps)
  BY <1>1, ComponentTypes
<1> SUFFICES ASSUME NEW c \in ToSet(Components(p)), Kind(c) = "param"
             PROVE  Len(c) = 1 /\ Head(c) \in Params
  BY DEF WholeParams
<1>3. PICK i \in 1 .. Len(Components(p)) : c = Components(p)[i]
  BY <1>2 DEF ToSet
<1> QED BY <1>1, <1>3, WholeKinds

\* The path that the walk has taken, laid out and cut for the route.
LEMMA WalkIsLaid ==
  ASSUME NEW names \in Seq(Names), names # <<>>, NEW path, path = PathOf(names)
  PROVE  \E m : LaidOn(path, names, m) /\ Places(path, names, m)
<1>1. path \in Seq(ToSet(path))
  BY PathFacts
<1>2. PICK m : Places(path, names, m)
  BY PathFacts
<1>3. Len(path) \in Nat /\ Len(names) \in Nat
  BY <1>1
<1>4. \A k \in 1 .. Len(names) : Len(names[k]) \in Nat
  <2>1. \A k \in 1 .. Len(names) : names[k] \in Names
    OBVIOUS
  <2> QED BY <2>1, NamesArePlain
<1>5. Laid(path, names, m)
  BY <1>2, <1>3, <1>4 DEF Laid
<1>6. LaidOn(path, names, m)
  BY <1>1, <1>5 DEF LaidOn
<1> QED BY <1>2, <1>6

\* A star that is walked to has a name.
LEMMA StarHasName ==
  ASSUME NEW p, NEW comps, NEW o, InParts(p, comps, o), NEW path, NEW names, NEW m,
         LaidOn(path, names, m), Len(names) = Len(comps),
         NEW cut, Cuts(p, path, cut), CutsAt(cut, o, m, Len(comps))
  PROVE  StarTakes(p, path, cut)
<1> SUFFICES ASSUME p[Len(p)] = Star PROVE cut[Len(p) - 1] # Len(path)
  BY DEF StarTakes
<1> DEFINE i == Len(p)
<1>1. p \in Scripts /\ Laid(p, comps, o) /\ path \in Seq(ToSet(path)) /\ Laid(path, names, m)
      /\ names \in Seq(Names)
  BY DEF InParts, IsWhole, LaidOn
<1>2. i \in Nat \ {0} /\ i \in 1 .. i
  BY <1>1, ScriptFacts, PatternTypes
<1>3. p[i] = Star /\ p[i] \in Wild
  BY DEF Wild
<1> HIDE DEF i
<1>4. WildAt(p, comps, o, i)
  <2>1. i \in 1 .. Len(p)
    BY <1>2 DEF i
  <2> QED BY <1>3, <2>1, WildPlace
<1>5. PICK l \in 1 .. Len(comps) : i = o[l - 1] + 2
  BY <1>4 DEF WildAt
<1>6. cut[o[l - 1] + 1] = m[l - 1] + 1 /\ o[l - 1] \in Nat
  <2>1. cut[o[l - 1] + 1] = m[l - 1] + 1
    BY <1>1, CutThere
  <2>2. o[l - 1] \in Nat
    BY <1>1, LaidEnds
  <2> QED BY <2>1, <2>2
<1>7. i - 1 = o[l - 1] + 1
  BY <1>5, <1>6
<1>8. l \in 1 .. Len(names) /\ names[l] \in Names
  BY <1>1
<1> DEFINE x == Len(names[l])
           a == m[l - 1]
           b == m[l]
           e == Len(path)
<1>9. x \in Nat \ {0}
  BY <1>8, NamesArePlain
<1>10. a \in Nat /\ e \in Nat /\ b = a + 1 + x /\ b <= e
  BY <1>1, <1>8, LaidEnds
<1>11. cut[i - 1] = a + 1
  BY <1>6, <1>7
<1> HIDE DEF a, b, e, x
<1>12. a + 1 # e
  BY <1>9, <1>10
<1> QED BY <1>11, <1>12 DEF i, e

\* From the root, nothing is preferred to the route that is walked to.
LEMMA RootIsOwn ==
  ASSUME RadixInv(tree, registered), NEW op, NEW p, p = <<"/">>, NEW path, path = <<"/">>,
         NEW z \in DOMAIN tree, WayOf(registered, z, p)
  PROVE  OwnWay(op, p, path, z)
<1> DEFINE cut == [i \in 0 .. Len(p) |-> i]
<1>1. Len(p) = 1 /\ p[1] = "/" /\ p \in Seq(ToSet(p))
  <2>1. p \in Seq({"/"}) /\ ToSet(p) = {"/"}
    BY DEF ToSet
  <2> QED BY <2>1
<1>2. \A i \in 1 .. Len(p) : p[i] \notin Wild
  BY <1>1, PathsAssumption
<1>3. Cuts(p, path, cut)
  BY <1>1, <1>2, OwnCut
<1> HIDE DEF cut
<1>4. StarTakes(p, path, cut)
  BY <1>1, <1>2 DEF StarTakes, Wild
<1>5. CharacterFollows(p)
  BY <1>1 DEF CharacterFollows
<1>6. ASSUME NEW n \in DOMAIN tree, Leads(registered, n, z), n # z PROVE p[n[2] + 1] \notin Wild
  <2>1. IsLog(registered) /\ IsTree(tree, registered)
    BY DEF RadixInv
  <2>2. n[2] \in Nat /\ z[2] = 1 /\ n[2] <= z[2]
    BY <1>1, <1>6, <2>1, PositionTypes DEF IsTree, Placed, Leads, WayOf
  <2>3. n[2] # z[2]
    <3>1. n[2] = z[2] => z[2] <= n[2]
      BY <2>2
    <3> QED BY <1>6, <2>1, <3>1, OneNodePerWay
  <2>4. n[2] + 1 = 1
    BY <2>2, <2>3
  <2> QED BY <1>1, <1>2, <2>4
<1>7. Preferred(tree, registered, op, path, cut, p, z)
  BY <1>6 DEF Preferred
<1> QED BY <1>3, <1>4, <1>5, <1>7 DEF OwnWay

LEMMA WalkIsOwn ==
  ASSUME RadixInv(tree, registered), Mounted, WholeComponents, OneParamPerDir,
         NEW r \in mounted, NEW op, op = r[1], NEW p, p = r[2], NEW comps, comps = Components(p),
         NEW names \in Seq(Names), Walked(comps, names), NEW path, path = PathOf(names),
         NEW z \in DOMAIN tree, WayOf(registered, z, p)
  PROVE  OwnWay(op, p, path, z)
<1>1. mounted \subseteq Ops \X Scripts /\ p \in Scripts /\ path \in Seq(ToSet(path))
  BY PathFacts DEF Mounted
<1>2. IsWhole(p)
  BY <1>1 DEF WholeComponents, IsWhole
<1>3. Len(names) = Len(comps) /\ comps \in Seq(Comps) /\ PathOf(comps) = p
  BY <1>1, ComponentTypes DEF Walked
<1>4. CASE comps = <<>>
  <2>1. names = <<>> /\ PathOf(<<>>) = <<"/">>
    BY <1>3, <1>4 DEF PathOf
  <2> QED BY <1>3, <1>4, <2>1, RootIsOwn
<1>5. CASE comps # <<>>
  <2>1. PICK o : InParts(p, comps, o)
    BY <1>2, <1>5, PartsOf
  <2>2. names # <<>>
    BY <1>3, <1>5
  <2>3. PICK m : LaidOn(path, names, m) /\ Places(path, names, m)
    BY <2>2, WalkIsLaid
  <2>4. TakesPath(p, names)
    BY <1>1, <1>2, WholeIsWhole, WalkedTakes
  <2>5. Taken(p, comps, o, path, names, m)
    <3>1. \A k \in 1 .. Len(comps) : Takes(comps[k], names[k])
      BY <1>3, <2>4 DEF TakesPath
    <3>2. Places(p, comps, o)
      BY <2>1 DEF InParts, Laid
    <3> QED BY <1>1, <1>3, <1>5, <2>3, <3>1, <3>2 DEF Taken
  <2>6. PICK cut : Cuts(p, path, cut) /\ CutsAt(cut, o, m, Len(comps))
    BY <1>1, <2>5, TakenCuts
  <2>7. CharacterFollows(p)
    BY <1>1, <2>5, TakenFollows
  <2>8. StarTakes(p, path, cut)
    BY <1>3, <2>1, <2>3, <2>6, StarHasName
  <2>9. WalkedTo(r, comps, o, path, names, m)
    BY <1>3, <2>1, <2>3 DEF WalkedTo
  <2>10. OnItsWay(r, op, p, comps, o, path, names, m, cut, z)
    BY <1>1, <2>6, <2>9 DEF OnItsWay
  <2>11. Preferred(tree, registered, op, path, cut, p, z)
    BY <2>10, NoneIsPreferred
  <2> QED BY <2>6, <2>7, <2>8, <2>11 DEF OwnWay
<1> QED BY <1>4, <1>5

\* And so it finds the route of the node that is walked to.
LEMMA FindsTheWalked ==
  ASSUME RadixInv(tree, registered), WalkInv, at.virtual = "no", WholeComponents, OneParamPerDir,
         NEW r \in Handlers(at.node)
  PROVE  FindRoute(tree, r[1], Here).pattern = r[2]
<1> DEFINE op == r[1]
           p == r[2]
           path == PathOf(at.path)
<1>1. r \in mounted /\ at.node = Components(p)
  BY DEF Handlers
<1>2. Mounted /\ Walked(at.node, at.path) /\ at.path \in Seq(Names)
  BY DEF WalkInv, Mounted
<1>3. op \in Ops /\ p \in Scripts /\ p \in Registered(op)
  BY <1>1, MountedRegistered
<1> HIDE DEF op, p, path
<1>4. IsLog(registered) /\ IsTree(tree, registered)
  BY DEF RadixInv
<1>5. PICK j \in 1 .. Len(registered) : \E z \in DOMAIN tree :
        registered[j][2] = p /\ EndsHere(registered, z, j) /\ tree[z].eps[op] = p
  BY <1>3, EndpointOf
<1>6. PICK z \in DOMAIN tree :
        registered[j][2] = p /\ EndsHere(registered, z, j) /\ tree[z].eps[op] = p
  BY <1>5
<1>7. p \in Patterns /\ Len(p) \in Nat \ {0} /\ path \in Seq(ToSet(path)) /\ Len(path) \in Nat
  <2>1. path \in Seq(ToSet(path))
    BY <1>2, PathFacts DEF path
  <2> QED BY <1>3, <2>1, ScriptFacts, PatternTypes
<1>8. WayOf(registered, z, p)
  BY <1>6 DEF WayOf, EndsHere, Leads, Way
<1>9. OwnWay(op, p, path, z)
  BY <1>1, <1>2, <1>8, WalkIsOwn DEF op, p, path
<1>10. PICK cut : /\ Cuts(p, path, cut) /\ StarTakes(p, path, cut) /\ CharacterFollows(p)
                  /\ Preferred(tree, registered, op, path, cut, p, z)
  BY <1>9 DEF OwnWay
<1>11. PICK find : /\ IsSearch(find, tree, op, path)
                   /\ FindRoute(tree, op, path) = Shown(path, find[<<Top, 1, 0, <<>>>>])
  BY <1>3, <1>4, <1>7, FindIs
<1>12. Top \in DOMAIN tree /\ Top[2] = 0
  BY <1>4 DEF IsTree, Placed, Top
<1>13. Leads(registered, Top, z) /\ Top # z
  <2>1. z[2] = Len(p)
    BY <1>6 DEF EndsHere
  <2> QED BY <1>7, <1>12, <2>1 DEF Leads
<1>14. \A vals \in Stacks : find[<<Top, 1, cut[Top[2]], vals>>].pattern = p
  BY <1>3, <1>4, <1>6, <1>7, <1>10, <1>11, <1>12, <1>13, FindsOwn
<1>15. cut[Top[2]] = 0
  BY <1>10, <1>12 DEF Cuts
<1>16. <<>> \in Stacks
  BY DEF Stacks
<1>17. find[<<Top, 1, 0, <<>>>>].pattern = p
  BY <1>14, <1>15, <1>16
<1>18. FindRoute(tree, op, path).pattern = p
  BY <1>11, <1>17 DEF Shown
<1> QED BY <1>18 DEF op, p, path, Here

\* A node that is walked to is served by its own handler when parameters are whole
\* components and no directory has two: the tree of components and the radix tree of
\* characters prefer the same routes (fuse/server.go findChild, radix.go findRoute).
THEOREM ServedByHandlers == SpecTree => []ServedByItsNode
<1>1. RadixInv(tree, registered) /\ WalkInv => ServedByItsNode
  BY FindsTheWalked DEF ServedByItsNode
<1> QED BY <1>1, WalksAreWalks, PTL
=============================================================================
