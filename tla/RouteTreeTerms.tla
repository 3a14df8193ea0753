--------------------------- MODULE RouteTreeTerms ---------------------------
(***************************************************************************)
(* The terms in which the proofs about the router speak: places in a       *)
(* pattern, the nodes that stand for them, the way a pattern has in the    *)
(* tree, how a path reads along it, and which of two routes is found       *)
(* first.  Nothing here models code.                                       *)
(***************************************************************************)
EXTENDS RouteTree

----------------------------------------------------------------------------
(* Positions in patterns *)

\* The registrations, and the places of their patterns' tokens.  A node is named
\* by the place it ends at, so that its way, the edges from the root to it, can
\* be read off its name.
IsLog(reg) == reg \in Seq(Ops \X Patterns)
Positions(reg) == {n \in Nat \X Nat :
  n = Top \/ (n[1] \in 1 .. Len(reg) /\ n[2] \in 1 .. Len(reg[n[1]][2]))}

\* The x-th edge on the way to a node; and that the way to m begins that to n.
Way(reg, n, x) == Edge(reg[n[1]][2], x)
Leads(reg, m, n) ==
  m[2] <= n[2] /\ \A x \in 1 .. m[2] : Way(reg, m, x) = Way(reg, n, x)

\* The prefix of node k covers the way from node n to k, and is of one type; it
\* only has one edge when it is not static.
Spans(reg, prefix, n, k) ==
  /\ n[2] < k[2] /\ Leads(reg, n, k)
  /\ Len(prefix) = k[2] - n[2]
  /\ \A i \in 1 .. k[2] - n[2] : prefix[i] = Way(reg, k, n[2] + i)
  /\ k[2] - n[2] > 1 => \A i \in 1 .. k[2] - n[2] : prefix[i].typ = "static"
AllEdges == UNION {{Edge(p, i) : i \in 1 .. Len(p)} : p \in Patterns}
NodesOn(ids) == [prefix : Seq(AllEdges), eps : [Ops -> Patterns \cup {NoRoute}],
                 kids : [NodeTypes -> Seq(ids)]]

\* The inductive invariant of the tree.  Its nodes are places of patterns; a
\* child's prefix is what its way adds to its parent's; two children differ in
\* their first edge; and from every node on the way to another, a child leads on.
IsHeap(nodes) == nodes \in [DOMAIN nodes -> NodesOn(DOMAIN nodes)]
Placed(nodes, reg) == Top \in DOMAIN nodes /\ DOMAIN nodes \subseteq Positions(reg)
KidsFit(nodes, reg) == \A n \in DOMAIN nodes, t \in NodeTypes :
  \A k \in ToSet(nodes[n].kids[t]) :
    Spans(reg, nodes[k].prefix, n, k) /\ nodes[k].prefix[1].typ = t
SiblingsDiffer(nodes) == \A n \in DOMAIN nodes : \A k, l \in Kids(nodes, n) :
  nodes[k].prefix[1] = nodes[l].prefix[1] => k = l
Connected(nodes, reg) == \A n, m \in DOMAIN nodes :
  Leads(reg, n, m) /\ n # m => \E k \in Kids(nodes, n) : Leads(reg, k, m)
IsTree(nodes, reg) ==
  /\ IsHeap(nodes) /\ Placed(nodes, reg) /\ KidsFit(nodes, reg)
  /\ SiblingsDiffer(nodes) /\ Connected(nodes, reg)

\* longestPrefix: as far as both go and are the same.
IsCommonLen(prefix, p, used, c) ==
  /\ c \in 0 .. Len(prefix) /\ used + c <= Len(p)
  /\ \A i \in 1 .. c : prefix[i] = Edge(p, used + i)
  /\ c = Len(prefix) \/ used + c = Len(p) \/ prefix[c + 1] # Edge(p, used + c + 1)

----------------------------------------------------------------------------
(* What keeps the tree a tree *)

\* What SetEndpoint does.
EndpointIsSet(nodes, N, n, op, p) ==
  /\ IsHeap(N) /\ DOMAIN N = DOMAIN nodes
  /\ \A m \in DOMAIN nodes : N[m].prefix = nodes[m].prefix /\ N[m].kids = nodes[m].kids
  /\ \A m \in DOMAIN nodes, o \in Ops : m # n \/ o # op => N[m].eps[o] = nodes[m].eps[o]
  /\ N[n].eps[op] = p

----------------------------------------------------------------------------
(* Endpoints *)

\* The node a registration's pattern ends at.
EndsHere(reg, n, i) == n[2] = Len(reg[i][2]) /\ Leads(reg, n, <<i, n[2]>>)

\* Every registration has one; and its endpoint for an operation is the pattern
\* of the last registration for that operation that ends there.
HasEnds(nodes, reg) == \A i \in 1 .. Len(reg) : \E n \in DOMAIN nodes : EndsHere(reg, n, i)
LastWins(nodes, reg) == \A n \in DOMAIN nodes, op \in Ops :
  \/ /\ nodes[n].eps[op] = NoRoute
     /\ \A i \in 1 .. Len(reg) : reg[i][1] = op => ~EndsHere(reg, n, i)
  \/ \E i \in 1 .. Len(reg) :
       /\ reg[i][1] = op /\ EndsHere(reg, n, i) /\ nodes[n].eps[op] = reg[i][2]
       /\ \A j \in i + 1 .. Len(reg) : reg[j][1] = op => ~EndsHere(reg, n, j)
RadixInv(nodes, reg) ==
  IsLog(reg) /\ IsTree(nodes, reg) /\ HasEnds(nodes, reg) /\ LastWins(nodes, reg)

----------------------------------------------------------------------------
(* The search *)

\* What a search is called with, and what it returns.
Stacks == Seq(Nat \X Nat)
Calls(nodes, path) ==
  (DOMAIN nodes) \X (1 .. Len(Groups) + 1) \X (0 .. Len(path)) \X Stacks
Results == [pattern : Patterns \cup {NoRoute}, vals : Stacks]

\* A search answers for the children of a node; two give the same answers.
Answers(f, nodes, path, n) == \A k \in Kids(nodes, n), u \in 0 .. Len(path), vs \in Stacks :
  f[<<k, 1, u, vs>>] \in Results
Agree(f, h, nodes, path, n) == \A k \in Kids(nodes, n), u \in 0 .. Len(path), vs \in Stacks :
  f[<<k, 1, u, vs>>] = h[<<k, 1, u, vs>>]

\* The children of a group are children.
IsGroup(nodes, n, t, ns) == /\ IsHeap(nodes) /\ n \in DOMAIN nodes /\ t \in NodeTypes
                            /\ ns = nodes[n].kids[t] /\ ns # <<>>

\* A search is typed, and only asks about children and the groups that follow.
NextAnswers(f, n, g, used) == g <= 4 => \A vs \in Stacks : f[<<n, g + 1, used, vs>>] \in Results
NextAgrees(f, h, n, g, used) ==
  g <= 4 => \A vs \in Stacks : f[<<n, g + 1, used, vs>>] = h[<<n, g + 1, used, vs>>]

\* What a search answers, and how it is shown.
IsSearch(find, nodes, op, path) ==
  /\ find \in [Calls(nodes, path) -> Results]
  /\ \A n \in DOMAIN nodes, g \in 1 .. 5, used \in 0 .. Len(path), vals \in Stacks :
       find[<<n, g, used, vals>>] = FindFrom(find, nodes, op, path, n, g, used, vals)
Shown(path, r) ==
  [pattern |-> r.pattern, vals |-> [k \in DOMAIN r.vals |-> ValueOf(path, r.vals[k])]]

\* The size of a call: how far below its node there can be others, and how many
\* groups are left.
CallSize(B, a, g) == (B - a) * 5 + (5 - g)

----------------------------------------------------------------------------
(* The way of a pattern *)

\* A path cut into one part for each token of a pattern.
Cuts(p, path, cut) ==
  /\ cut \in [0 .. Len(p) -> 0 .. Len(path)]
  /\ cut[0] = 0 /\ cut[Len(p)] = Len(path)
  /\ \A i \in 1 .. Len(p) :
       cut[i - 1] <= cut[i] /\ MayBe(p, i, ValueOf(path, <<cut[i - 1], cut[i]>>))

\* The child k of node n is on the way of a pattern.
OnWay(nodes, n, k, p) ==
  /\ n \in DOMAIN nodes /\ k \in DOMAIN nodes /\ k \in Kids(nodes, n)
  /\ n[2] \in Nat /\ k[2] \in n[2] + 1 .. Len(p) /\ Len(p) \in Nat
  /\ nodes[k].prefix \in Seq(AllEdges) /\ Len(nodes[k].prefix) = k[2] - n[2]
  /\ \A i \in 1 .. k[2] - n[2] : nodes[k].prefix[i] = Edge(p, n[2] + i)
  /\ k \in ToSet(nodes[n].kids[TypeOf(p[n[2] + 1])])
  /\ k[2] - n[2] > 1 => \A i \in 1 .. k[2] - n[2] : p[n[2] + i] \notin Wild

\* Along characters, a cut goes on by one.
Characters(p, a, l) == \A i \in 1 .. l : p[a + i] \notin Wild

\* Where the pattern has a character, the static group goes on to the child on
\* the way.
GoesTo(nodes, path, n, k, from, to) == \A find, op, vals :
  InGroup(find, nodes, op, path, n, "static", from, vals) = Try(find, nodes, op, path, k, to, vals)

\* The code takes it that what follows a parameter is known by its first byte:
\* no parameter and no star follows directly.
CharacterFollows(p) == \A i \in 1 .. Len(p) - 1 :
  p[i] \in Params \cup Regexps => p[i + 1] \notin Wild

\* What a child that is tried finds, whatever the values so far.
TryHits(find, nodes, op, path, k, used) ==
  \A vals \in Stacks : IsHit(Try(find, nodes, op, path, k, used, vals))
GroupHits(find, nodes, op, path, n, t, used) ==
  \A vals \in Stacks : IsHit(InGroup(find, nodes, op, path, n, t, used, vals))
CatchAllIs(find, nodes, op, path, n, k, to, used, vals, vs) ==
  IsHit(Try(find, nodes, op, path, k, to, vs)) =>
    InGroup(find, nodes, op, path, n, "catchall", used, vals) = Try(find, nodes, op, path, k, to, vs)

----------------------------------------------------------------------------
(* What a search finds *)

\* The way to node n reads the path up to a position with these values: every
\* character is there, and every other edge has its value, in order.
Reading(x, path, vals, a, b, c, d) ==
  IF x.typ = "static" THEN d = c /\ b = a + 1 /\ path[b] = x.text
  ELSE d = c + 1 /\ d <= Len(vals) /\ a <= b /\ vals[d] = <<a, b>>
Reads(reg, n, path, used, vals) ==
  \E cut \in [0 .. n[2] -> 0 .. Len(path)], num \in [0 .. n[2] -> 0 .. Len(vals)] :
    /\ cut[0] = 0 /\ num[0] = 0 /\ cut[n[2]] = used /\ num[n[2]] = Len(vals)
    /\ \A i \in 1 .. n[2] :
         Reading(Way(reg, n, i), path, vals, cut[i - 1], cut[i], num[i - 1], num[i])

\* What is found is the endpoint of a node whose way reads the path; and if
\* nothing is, the values are as they were.
EndsIn(nodes, reg, op, path, r) == \E m \in DOMAIN nodes :
  r.pattern = nodes[m].eps[op] /\ Reads(reg, m, path, Len(path), r.vals)
Sound(nodes, reg, op, path, n, used, vals, r) ==
  IF IsHit(r) THEN Reads(reg, n, path, used, vals) => EndsIn(nodes, reg, op, path, r)
  ELSE r.vals = vals
SoundBelow(find, nodes, reg, op, path, n) ==
  \A k \in Kids(nodes, n), u \in 0 .. Len(path), vs \in Stacks :
    Sound(nodes, reg, op, path, k, u, vs, find[<<k, 1, u, vs>>])

\* The values as parts of the path.
ShownValues(path, vals) == [k \in DOMAIN vals |-> ValueOf(path, vals[k])]

\* A way that reads a path: its pattern takes as many values as it has parameters,
\* and with them stands for the path.
ReadBy(q, path, vals, cut, num) ==
  /\ cut \in [0 .. Len(q) -> 0 .. Len(path)] /\ num \in [0 .. Len(q) -> 0 .. Len(vals)]
  /\ cut[0] = 0 /\ num[0] = 0 /\ cut[Len(q)] = Len(path) /\ num[Len(q)] = Len(vals)
  /\ \A i \in 1 .. Len(q) :
       Reading(Edge(q, i), path, vals, cut[i - 1], cut[i], num[i - 1], num[i])

----------------------------------------------------------------------------
(* Components of patterns, and paths of names *)

\* A function that is built up one number after the other is there.
StepsFrom(f, n, first, next) ==
  f[0] = first /\ \A i \in 1 .. n : f[i] = next[<<i, f[i - 1]>>]
IsStep(n, V, next) == next \in [(1 .. n) \X V -> V]

\* What ComponentsTo makes of the components so far.
LongerLast(before, c) == [before EXCEPT ![Len(before)] = Append(@, c)]
NextParts(before, s, i) ==
  IF s[i] = "/" THEN before
  ELSE IF i = 1 \/ s[i - 1] = "/" THEN Append(before, <<s[i]>>)
  ELSE LongerLast(before, s[i])
Names0(T) == Seq(T) \ {<<>>}
Tokens(s) == ToSet(s) \ {"/"}
PartsFollow(parts, s) ==
  parts[0] = <<>> /\ \A i \in 1 .. Len(s) : parts[i] = NextParts(parts[i - 1], s, i)

\* The paths of the names up to each.
PathsFollow(paths, names) ==
  /\ paths[0] = <<>>
  /\ \A i \in 1 .. Len(names) : paths[i] = paths[i - 1] \o (<<"/">> \o names[i])

\* The path of names, and of no names nothing.
Joined(names) == IF names = <<>> THEN <<>> ELSE PathOf(names)
Regroups(s, t, u) == (s \o t) \o u = s \o (t \o u)

----------------------------------------------------------------------------
(* The walk *)

\* What scripts register, and the components of that.
Scripts == {ConvertGlobPattern(p) : p \in ScriptPatterns}
AllTokens == (UNION {ToSet(p) : p \in Patterns}) \ {"/"}
Comps == Names0(AllTokens)

\* The way of the client, name by name, and what was mounted for it.
Walked(node, path) ==
  /\ node \in Nodes /\ Len(node) = Len(path)
  /\ \A i \in 1 .. Len(node) : SubSeq(node, 1, i) \in FindChild(SubSeq(node, 1, i - 1), path[i])
IsAt == at = [path |-> at.path, node |-> at.node, virtual |-> at.virtual, params |-> at.params]
WalkInv ==
  /\ registered \in Seq(Ops \X Scripts)
  /\ mounted \subseteq Ops \X Scripts
  /\ mounted = IF at.virtual = "unmounted" THEN {} ELSE ListedRoutes
  /\ IsAt /\ at.path \in Seq(Names)
  /\ at.virtual = "no" => Walked(at.node, at.path)

----------------------------------------------------------------------------
(* What is walked is served *)

\* Where the names of a path end in it.
Places(path, names, ends) ==
  /\ ends \in [0 .. Len(names) -> 0 .. Len(path)]
  /\ ends[0] = 0 /\ ends[Len(names)] = Len(path)
  /\ \A k \in 1 .. Len(names) :
       /\ ends[k] = ends[k - 1] + 1 + Len(names[k])
       /\ path[ends[k - 1] + 1] = "/"
       /\ \A j \in 1 .. Len(names[k]) : path[ends[k - 1] + 1 + j] = names[k][j]

\* A path with a slash and a name more.
GoesOnWith(x, y, name) ==
  /\ Len(y) = Len(x) + 1 + Len(name)
  /\ \A i \in 1 .. Len(x) : y[i] = x[i]
  /\ y[Len(x) + 1] = "/"
  /\ \A j \in 1 .. Len(name) : y[Len(x) + 1 + j] = name[j]
Begins(x, y) == Len(x) <= Len(y) /\ \A i \in 1 .. Len(x) : y[i] = x[i]

\* A cut of the first tokens of a pattern, and one with some more.
CutsTo(p, path, cut, l, m) ==
  /\ cut \in [0 .. l -> 0 .. Len(path)]
  /\ cut[0] = 0 /\ cut[l] = m
  /\ \A i \in 1 .. l :
       cut[i - 1] <= cut[i] /\ MayBe(p, i, ValueOf(path, <<cut[i - 1], cut[i]>>))
CutsOn(p, path, more, l, d, m) ==
  /\ more \in [0 .. d -> 0 .. Len(path)] /\ more[0] = m
  /\ \A i \in 1 .. d :
       more[i - 1] <= more[i] /\ MayBe(p, l + i, ValueOf(path, <<more[i - 1], more[i]>>))
GoesOnFrom(both, cut, l) == \A i \in 0 .. l : both[i] = cut[i]

\* The components of a route and the names it takes, in the route and in the path.
Taken(p, comps, o, path, names, m) ==
  /\ comps = Components(p) /\ comps # <<>> /\ names \in Seq(Names) /\ Len(names) = Len(comps)
  /\ Places(p, comps, o) /\ Places(path, names, m)
  /\ path \in Seq(ToSet(path))
  /\ \A k \in 1 .. Len(comps) : Takes(comps[k], names[k])

\* The cut has the names where the components are.
CutsAt(cut, o, m, k) == \A l \in 0 .. k : o[l] \in 0 .. o[k] /\ cut[o[l]] = m[l]

----------------------------------------------------------------------------
(* Which route a search finds *)

\* From a position on, the way to node m reads the rest of the path: its
\* characters are there.
ReadsOn(reg, m, path, a, c) == \E cut \in [a .. m[2] -> 0 .. Len(path)] :
  /\ cut[a] = c /\ cut[m[2]] = Len(path)
  /\ \A i \in a + 1 .. m[2] : Way(reg, m, i).typ = "static" =>
       cut[i] = cut[i - 1] + 1 /\ path[cut[i]] = Way(reg, m, i).text

\* A step of the search from node n to its child k.
StepsTo(nodes, path, n, k, used, u) ==
  /\ used \in 0 .. Len(path) /\ u \in 0 .. Len(path)
  /\ nodes[k].prefix[1].typ = "static" =>
       /\ u = used + Len(nodes[k].prefix)
       /\ \A i \in 1 .. Len(nodes[k].prefix) : nodes[k].prefix[i].text = path[used + i]

\* What is found from position a at node k is the endpoint of a node that k leads
\* to, whose way reads the rest of the path.
FoundOn(nodes, reg, op, path, k, a, c, r) == \E m \in DOMAIN nodes :
  Leads(reg, k, m) /\ r.pattern = nodes[m].eps[op] /\ ReadsOn(reg, m, path, a, c)
FoundIfHit(nodes, reg, op, path, k, a, c, r) == IsHit(r) => FoundOn(nodes, reg, op, path, k, a, c, r)
FoundBelow(find, nodes, reg, op, path, n) ==
  \A k \in Kids(nodes, n), u \in 0 .. Len(path), vs \in Stacks :
    FoundIfHit(nodes, reg, op, path, k, k[2], u, find[<<k, 1, u, vs>>])

\* What a group finds, it finds at one of its nodes.
FoundIn(nodes, reg, op, path, n, t, used, r) == IsHit(r) =>
  \E k \in ToSet(nodes[n].kids[t]) : FoundOn(nodes, reg, op, path, k, n[2], used, r)

\* Where a route's way goes on through a parameter or star, the routes the search
\* could find before it are these: any by a child of an earlier group, and in the
\* same group by another child.  If there is none, it finds the route itself.
Earlier(t, s) == \/ t = "static" /\ s # "static"
                 \/ t = "regexp" /\ s \in {"param", "catchall"}
                 \/ t = "param" /\ s = "catchall"
Preferred(nodes, reg, op, path, cut, p, z) ==
  \A n \in DOMAIN nodes : \A k \in Kids(nodes, n) : \A m \in DOMAIN nodes :
    /\ Leads(reg, n, z) /\ n # z /\ p[n[2] + 1] \in Wild
    /\ Leads(reg, k, m) /\ nodes[m].eps[op] # NoRoute
    /\ ReadsOn(reg, m, path, n[2], cut[n[2]])
    => /\ ~Earlier(nodes[k].prefix[1].typ, TypeOf(p[n[2] + 1]))
       /\ nodes[k].prefix[1].typ = TypeOf(p[n[2] + 1]) => nodes[k].prefix[1] = Edge(p, n[2] + 1)
PreferredAt(nodes, reg, op, path, n, used, p) ==
  \A k \in Kids(nodes, n) : \A r : IsHit(r) /\ FoundOn(nodes, reg, op, path, k, n[2], used, r) =>
    /\ ~Earlier(nodes[k].prefix[1].typ, TypeOf(p[n[2] + 1]))
    /\ nodes[k].prefix[1].typ = TypeOf(p[n[2] + 1]) => nodes[k].prefix[1] = Edge(p, n[2] + 1)

\* What is tried, or a group, finds this route.
TryGives(find, nodes, op, path, k, used, p) ==
  \A vals \in Stacks : Try(find, nodes, op, path, k, used, vals).pattern = p
GroupGives(find, nodes, op, path, n, t, used, p) ==
  \A vals \in Stacks : InGroup(find, nodes, op, path, n, t, used, vals).pattern = p

\* The groups before it find nothing, so a search finds what the group does.
TokenFirst(find, nodes, reg, op, path, n, used, p) ==
  /\ p[n[2] + 1] \in Wild => PreferredAt(nodes, reg, op, path, n, used, p)
  /\ GroupGives(find, nodes, op, path, n, TypeOf(p[n[2] + 1]), used, p)

\* The path does not end before the pattern, if the star takes something.
StarTakes(p, path, cut) == p[Len(p)] = Star => cut[Len(p) - 1] # Len(path)

\* Names laid out in a sequence, each after a slash.
Laid(s, names, ends) ==
  /\ Len(s) \in Nat /\ Len(names) \in Nat /\ \A k \in 1 .. Len(names) : Len(names[k]) \in Nat
  /\ Places(s, names, ends)

\* The characters of a name are there.
Has(s, a, name) == \A j \in 1 .. Len(name) : s[a + j] = name[j]

\* And a slash or the end is after it.
At(s, a, name) ==
  /\ a + Len(name) <= Len(s) /\ \A j \in 1 .. Len(name) : s[a + j] = name[j]
  /\ a + Len(name) = Len(s) \/ s[a + Len(name) + 1] = "/"

\* A route without expressions, whose parameters are components, and its components.
IsWhole(p) == p \in Scripts /\ ToSet(p) \cap Regexps = {} /\ PlainPattern(p)
InParts(p, comps, o) == IsWhole(p) /\ comps = Components(p) /\ Laid(p, comps, o)

\* The i-th token of such a route is wild, and a component.
WildAt(p, comps, o, i) == \E l \in 1 .. Len(comps) : i = o[l - 1] + 2 /\ comps[l] = <<p[i]>>

\* The components of two routes agree up to the j-th.
SameParts(cq, comps, oq, o, j) ==
  /\ j <= Len(cq) /\ oq[j] = o[j] /\ \A a \in 1 .. j : cq[a] = comps[a]
PlainToken(c) == \A j \in 1 .. Len(c) : c[j] \notin Wild

\* Two sequences begin with the same k.
SameTo(s, t, k) == SubSeq(s, 1, k) = SubSeq(t, 1, k)

\* Two ways have the same edges as far as b; and two routes the same components
\* before the l-th.
EdgesTo(p, q, b) == \A y \in 1 .. b : Edge(p, y) = Edge(q, y)
SameUpTo(cq, comps, oq, o, l) ==
  l \in 1 .. Len(cq) /\ oq[l - 1] = o[l - 1] /\ SameTo(cq, comps, l - 1)

\* A path is names laid out; a node's way is a route; and how its characters are read.
LaidOn(path, names, m) == path \in Seq(ToSet(path)) /\ names \in Seq(Names) /\ Laid(path, names, m)
WayOf(reg, n, q) == n[2] = Len(q) /\ \A y \in 1 .. Len(q) : Way(reg, n, y) = Edge(q, y)
ReadsAll(reg, n, path, cut, a) == \A i \in a + 1 .. n[2] : Way(reg, n, i).typ = "static" =>
  cut[i] = cut[i - 1] + 1 /\ path[cut[i]] = Way(reg, n, i).text
ReadsAt(q, path, cut, i) == cut[i] = cut[i - 1] + 1 /\ path[cut[i]] = q[i]

\* What a component is, and where it ends.
IsPart(c) ==
  /\ Len(c) \in Nat \ {0}
  /\ \/ Kind(c) = "plain" /\ \A j \in 1 .. Len(c) : c[j] \notin Wild
     \/ Kind(c) = "param" /\ c[1] \in Params /\ c = <<c[1]>>
     \/ Kind(c) = "wildcard" /\ c = <<Star>>
EndsAs(s, names, ends, k) ==
  /\ ends[k - 1] \in Nat /\ ends[k] = ends[k - 1] + 1 + Len(names[k])
  /\ ends[k] = Len(s) \/ s[ends[k] + 1] = "/"

\* At the i-th token, the route q is not preferred to p.
NotBefore(q, p, i) ==
  /\ ~Earlier(TypeOf(q[i]), TypeOf(p[i]))
  /\ TypeOf(q[i]) = TypeOf(p[i]) => Edge(q, i) = Edge(p, i)

\* What is mounted is what the tree lists; and a route that is walked to.
Mounted == mounted \subseteq Ops \X Scripts /\ mounted = ListedRoutes
WalkedTo(r, comps, o, path, names, m) ==
  /\ r \in mounted /\ InParts(r[2], comps, o) /\ LaidOn(path, names, m)
  /\ Len(names) = Len(comps) /\ Walked(comps, names)

\* A node from which the way goes on through a wild token.
WildNext(p, comps, o, b) == \E l \in 1 .. Len(comps) :
  b = o[l - 1] + 1 /\ comps[l] = <<p[o[l - 1] + 2]>> /\ o[l - 1] \in Nat
NextCut(cut, i) == cut[i] = cut[i - 1] + 1

\* A way that the search could find, from a node on the way of the route.
Rival(reg, nodes, path, cut, z, p, n, k, x) ==
  /\ n \in DOMAIN nodes /\ k \in Kids(nodes, n) /\ x \in DOMAIN nodes
  /\ Leads(reg, n, z) /\ n # z /\ p[n[2] + 1] \in Wild
  /\ Leads(reg, k, x) /\ ReadsOn(reg, x, path, n[2], cut[n[2]])
HasRoute(nodes, x, op) == nodes[x].eps[op] # NoRoute
OnItsWay(r, op, p, comps, o, path, names, m, cut, z) ==
  /\ op = r[1] /\ p = r[2] /\ WalkedTo(r, comps, o, path, names, m)
  /\ path \in Seq(ToSet(path)) /\ Cuts(p, path, cut) /\ CutsAt(cut, o, m, Len(comps))
  /\ z \in DOMAIN tree /\ WayOf(registered, z, p)
NotFirst(nodes, k, p, i) ==
  /\ ~Earlier(nodes[k].prefix[1].typ, TypeOf(p[i]))
  /\ nodes[k].prefix[1].typ = TypeOf(p[i]) => nodes[k].prefix[1] = Edge(p, i)

\* A cut of the path for the route, with which nothing is preferred to the route.
OwnWay(op, p, path, z) == \E cut :
  /\ Cuts(p, path, cut) /\ StarTakes(p, path, cut) /\ CharacterFollows(p)
  /\ Preferred(tree, registered, op, path, cut, p, z)
=============================================================================
