----------------------------- MODULE RadixTree -----------------------------
(***************************************************************************)
(* The radix tree of the router (internal/router/radix.go): InsertRoute    *)
(* and findRoute, one registered route at a time, as a script's top level  *)
(* registers them.                                                         *)
(*                                                                         *)
(* A pattern is a sequence of tokens: characters, and one token for each   *)
(* "{name}", "{name:expression}" and the final "*".  A path is a sequence  *)
(* of characters.  What the tree branches on is the edge of a token: its   *)
(* type, with the character, or the expression and the tail.               *)
(*                                                                         *)
(* The tree is the heap the code builds: nodes that name their children.   *)
(* Node <<k, e>> is the one made when the k-th route was registered, for   *)
(* the part of its pattern that ends with token e.  The prefix of a node   *)
(* is a sequence of edges, which also holds what the code keeps in typ,    *)
(* label, tail and rex.  Recursion is by functions local to an operator,   *)
(* whose body is an operator of its own.                                   *)
(***************************************************************************)
EXTENDS Naturals, Sequences, FiniteSets, SequencesExt

CONSTANTS Ops,        \* the operations routes are registered for
          Params,     \* the tokens "{name}"
          Regexps,    \* the tokens "{name:expression}"
          RexOf,      \* the expression of each token in Regexps
          Language,   \* the values each expression accepts
          Patterns,   \* the patterns a script may register
          Paths,      \* the paths that are requested
          MaxRoutes   \* bound on the number of registrations

VARIABLES tree,       \* the nodes
          registered  \* history: the registrations, in order

vars == <<tree, registered>>

Star == "*"
Wild == Params \cup Regexps \cup {Star}
NoRoute == <<>>

\* Braces make a parameter, a colon in them an expression.
ASSUME TokensAssumption == Params \cap Regexps = {} /\ Star \notin Params \cup Regexps

\* What Handle and patNextSegment insist on, by a panic: a pattern begins with a
\* slash, and a "*" only ends it.
PatternIsLegal(p) ==
  /\ p \in Seq(ToSet(p))
  /\ p # <<>> /\ p[1] = "/"
  /\ \A i \in 1 .. Len(p) - 1 : p[i] # Star
ASSUME PatternsAssumption == \A p \in Patterns : PatternIsLegal(p)

\* A request asks for a name, not for a pattern.
ASSUME PathsAssumption ==
  /\ "/" \notin Wild
  /\ \A path \in Paths : path \in Seq(ToSet(path)) /\ ToSet(path) \cap Wild = {}

----------------------------------------------------------------------------
(* Edges and nodes *)

\* Node types in the order findRoute visits them; ntGlob nodes are never made.
GroupsParamFirst == <<"regexp", "param", "static", "catchall">>
Groups == <<"static", "regexp", "param", "catchall">>
NodeTypes == {"static", "regexp", "param", "catchall"}

TypeOf(token) ==
  CASE token \in Params -> "param" [] token \in Regexps -> "regexp"
    [] token = Star -> "catchall" [] OTHER -> "static"

TextOf(token) ==
  CASE token \in Regexps -> RexOf[token] [] token \in Params \cup {Star} -> ""
    [] OTHER -> token

\* The tail byte of a parameter: what follows it in the pattern.
FirstByte(token) == IF token \in Params \cup Regexps THEN "{" ELSE token
TailAt(p, i) == IF p[i] \notin Params \cup Regexps THEN ""
                ELSE IF i = Len(p) THEN "/" ELSE FirstByte(p[i + 1])

Edge(p, i) ==
  [typ |-> TypeOf(p[i]), text |-> TextOf(p[i]), tail |-> TailAt(p, i)]

EdgesOf(p, from, to) == [i \in 1 .. to - from |-> Edge(p, from + i)]

Top == <<0, 0>>

NewNode(prefix) ==
  [prefix |-> prefix, eps |-> [op \in Ops |-> NoRoute],
   kids |-> [t \in NodeTypes |-> <<>>]]

EmptyTree == [n \in {Top} |-> NewNode(<<>>)]

Kids(nodes, n) == UNION {ToSet(nodes[n].kids[t]) : t \in NodeTypes}

\* nodes.tailSort: the last node with tail '/' changes places with the last
\* node.  The sort by label before it keeps the order of equal labels, and the
\* order of static nodes does not matter to findEdge.
TailSortSkipped(nodes, ns) == ns
TailSort(nodes, ns) ==
  LET slashes == {i \in DOMAIN ns : nodes[ns[i]].prefix[1].tail = "/"}
      last == CHOOSE i \in slashes : \A j \in slashes : j <= i
  IN IF slashes = {} THEN ns
     ELSE [ns EXCEPT ![last] = ns[Len(ns)], ![Len(ns)] = ns[last]]

\* A node that is in the heap becomes a child of n.
WithKid(nodes, n, kid) ==
  [nodes EXCEPT ![n].kids[nodes[kid].prefix[1].typ] =
     TailSort(nodes, Append(@, kid))]

SetEndpoint(nodes, n, op, p) == [nodes EXCEPT ![n].eps[op] = p]

----------------------------------------------------------------------------
(* InsertRoute *)

\* getEdge: the child a pattern goes on through at token i, if there is one.
Edges(nodes, n, p, i) ==
  {k \in ToSet(nodes[n].kids[TypeOf(p[i])]) : nodes[k].prefix[1] = Edge(p, i)}
EdgeTaken(nodes, n, p, i) == CHOOSE k \in Edges(nodes, n, p, i) : TRUE

\* longestPrefix of a prefix and what is left of the pattern.
CommonLen(prefix, p, used) == CHOOSE c \in 0 .. Len(prefix) :
  /\ used + c <= Len(p)
  /\ \A i \in 1 .. c : prefix[i] = Edge(p, used + i)
  /\ \/ c = Len(prefix) \/ used + c = Len(p)
     \/ prefix[c + 1] # Edge(p, used + c + 1)

\* The loop of InsertRoute, from a node and the number of tokens used: on while
\* an edge fits and all of the child's prefix does.
DescendFrom(down, nodes, p, n, used) ==
  IF used = Len(p) \/ Edges(nodes, n, p, used + 1) = {} THEN <<n, used>>
  ELSE LET kid == EdgeTaken(nodes, n, p, used + 1)
           c == CommonLen(nodes[kid].prefix, p, used)
       IN IF c < Len(nodes[kid].prefix) THEN <<n, used>> ELSE down[<<kid, used + c>>]
Descend(nodes, p) ==
  LET down[x \in (DOMAIN nodes) \X (0 .. Len(p))] ==
        DescendFrom(down, nodes, p, x[1], x[2])
  IN down[<<Top, 0>>]

\* addChild: one node per static or wild segment of what is left of the pattern,
\* the endpoint on the last.
EndsAt(p, e) == e = Len(p) \/ p[e] \in Wild \/ p[e + 1] \in Wild
NextEnd(p, from) == CHOOSE e \in from + 1 .. Len(p) :
  EndsAt(p, e) /\ \A f \in from + 1 .. e - 1 : ~EndsAt(p, f)
LastEnd(p, from, e) == CHOOSE s \in from .. e - 1 :
  (s = from \/ EndsAt(p, s)) /\ \A f \in s + 1 .. e - 1 : ~EndsAt(p, f)

Chain(k, op, p, used) ==
  [n \in {<<k, e>> : e \in {f \in used + 1 .. Len(p) : EndsAt(p, f)}} |->
     LET new == NewNode(EdgesOf(p, LastEnd(p, used, n[2]), n[2]))
     IN IF n[2] = Len(p) THEN [new EXCEPT !.eps[op] = p]
        ELSE [new EXCEPT !.kids[TypeOf(p[n[2] + 1])] = <<<<k, NextEnd(p, n[2])>>>>]]

AddChain(nodes, n, k, op, p, used) ==
  LET chain == Chain(k, op, p, used)
      all == [m \in DOMAIN nodes \cup DOMAIN chain |->
                IF m \in DOMAIN chain THEN chain[m] ELSE nodes[m]]
  IN WithKid(all, n, <<k, NextEnd(p, used)>>)

\* A static child that only shares its first c characters is split there: upper
\* takes its place and has the child as its only one.
SplitDropsChildren(nodes, n, kid, upper, c) ==
  LET prefix == nodes[kid].prefix IN
  [m \in DOMAIN nodes \cup {upper} |->
     CASE m = upper -> [NewNode(SubSeq(prefix, 1, c)) EXCEPT !.kids["static"] = <<kid>>]
       [] m = kid -> [NewNode(SubSeq(prefix, c + 1, Len(prefix))) EXCEPT
                        !.eps = nodes[kid].eps]
       [] m = n -> [nodes[n] EXCEPT !.kids["static"] =
                      [i \in DOMAIN @ |-> IF @[i] = kid THEN upper ELSE @[i]]]
       [] OTHER -> nodes[m]]
Split(nodes, n, kid, upper, c) ==
  LET prefix == nodes[kid].prefix IN
  [m \in DOMAIN nodes \cup {upper} |->
     CASE m = upper -> [NewNode(SubSeq(prefix, 1, c)) EXCEPT !.kids["static"] = <<kid>>]
       [] m = kid -> [nodes[kid] EXCEPT !.prefix = SubSeq(@, c + 1, Len(@))]
       [] m = n -> [nodes[n] EXCEPT !.kids["static"] =
                      [i \in DOMAIN @ |-> IF @[i] = kid THEN upper ELSE @[i]]]
       [] OTHER -> nodes[m]]

\* The k-th registration.
InsertRoute(nodes, k, op, p) ==
  LET n == Descend(nodes, p)[1]
      used == Descend(nodes, p)[2]
      kid == EdgeTaken(nodes, n, p, used + 1)
      c == CommonLen(nodes[kid].prefix, p, used)
      upper == <<k, used + c>>
      split == Split(nodes, n, kid, upper, c)
  IN IF used = Len(p) THEN SetEndpoint(nodes, n, op, p)
     ELSE IF Edges(nodes, n, p, used + 1) = {}
       THEN AddChain(nodes, n, k, op, p, used)
     ELSE IF used + c = Len(p) THEN SetEndpoint(split, upper, op, p)
       ELSE AddChain(split, upper, k, op, p, used + c)

----------------------------------------------------------------------------
(* findRoute *)

Miss(vals) == [pattern |-> NoRoute, vals |-> vals]
IsHit(r) == r.pattern # NoRoute

\* A value is the part of the path from one position to another.
ValueOf(path, v) == SubSeq(path, v[1] + 1, v[2])

\* strings.IndexByte: where a byte is next.
IsThere(path, used, b) == \E i \in used + 1 .. Len(path) : path[i] = b
NextByte(path, used, b) == CHOOSE i \in used + 1 .. Len(path) :
  path[i] = b /\ \A j \in used + 1 .. i - 1 : path[j] # b

\* The value a param node takes from the path, if it takes any: up to its tail.
ValueEndWithTail(x, path, used) ==
  IF IsThere(path, used, x.tail) THEN NextByte(path, used, x.tail) ELSE Len(path)
ValueEnd(x, path, used) ==
  IF IsThere(path, used, x.tail) THEN NextByte(path, used, x.tail) - 1
  ELSE Len(path)

TakesValue(x, path, used) ==
  LET v == SubSeq(path, used + 1, ValueEnd(x, path, used)) IN
  /\ IsThere(path, used, x.tail) \/ x.tail = "/"
  /\ IF x.typ = "regexp" THEN v # <<>> /\ v \in Language[x.text]
     ELSE "/" \notin ToSet(v)

\* Leaving a group that found nothing takes back the value it pushed.
PopForgotten(vals) == vals
Pop(vals) == SubSeq(vals, 1, Len(vals) - 1)

\* A child is the result if the path ends at it and it has the operation;
\* else the search goes on below it.
TryAnyEndpoint(find, nodes, op, path, k, used, vals) ==
  IF used = Len(path) /\ \E o \in Ops : nodes[k].eps[o] # NoRoute
    THEN [pattern |-> nodes[k].eps[op], vals |-> vals]
    ELSE find[<<k, 1, used, vals>>]
Try(find, nodes, op, path, k, used, vals) ==
  IF used = Len(path) /\ nodes[k].eps[op] # NoRoute
    THEN [pattern |-> nodes[k].eps[op], vals |-> vals]
    ELSE find[<<k, 1, used, vals>>]

\* findEdge and HasPrefix; the children differ in their first character.
Fitting(nodes, ns, path, used) == {k \in ToSet(ns) :
  /\ used + Len(nodes[k].prefix) <= Len(path)
  /\ \A i \in DOMAIN nodes[k].prefix : nodes[k].prefix[i].text = path[used + i]}

InStatic(find, nodes, op, path, ns, used, vals) ==
  LET k == CHOOSE x \in Fitting(nodes, ns, path, used) : TRUE IN
  IF Fitting(nodes, ns, path, used) = {} THEN Miss(vals)
  ELSE Try(find, nodes, op, path, k, used + Len(nodes[k].prefix), vals)

\* A node of the group, with the value it takes pushed on those there were.
WithValue(find, nodes, op, path, k, used, vals) ==
  LET to == ValueEnd(nodes[k].prefix[1], path, used)
  IN Try(find, nodes, op, path, k, to, Append(vals, <<used, to>>))

\* The loop over the group: the first node that finds something.  After the loop
\* an empty value is pushed and the last node is searched once more.
InParams(find, nodes, op, path, ns, used, vals) ==
  LET found == {i \in DOMAIN ns :
                  /\ TakesValue(nodes[ns[i]].prefix[1], path, used)
                  /\ IsHit(WithValue(find, nodes, op, path, ns[i], used, vals))}
      first == CHOOSE i \in found : \A j \in found : i <= j
      last == find[<<ns[Len(ns)], 1, used, Append(vals, <<used, used>>)>>]
  IN IF used = Len(path) THEN Miss(vals)
     ELSE IF found # {} THEN WithValue(find, nodes, op, path, ns[first], used, vals)
     ELSE IF IsHit(last) THEN last ELSE Miss(Pop(last.vals))

InCatchAll(find, nodes, op, path, ns, used, vals) ==
  LET r == Try(find, nodes, op, path, ns[1], Len(path),
               Append(vals, <<used, Len(path)>>))
  IN IF IsHit(r) THEN r ELSE Miss(Pop(r.vals))

InGroup(find, nodes, op, path, n, t, used, vals) ==
  LET ns == nodes[n].kids[t] IN
  IF ns = <<>> THEN Miss(vals)
  ELSE CASE t = "static" -> InStatic(find, nodes, op, path, ns, used, vals)
         [] t \in {"regexp", "param"} -> InParams(find, nodes, op, path, ns, used, vals)
         [] t = "catchall" -> InCatchAll(find, nodes, op, path, ns, used, vals)

\* The groups of node n from the g-th on.
FindFrom(find, nodes, op, path, n, g, used, vals) ==
  LET r == InGroup(find, nodes, op, path, n, Groups[g], used, vals)
  IN IF g > Len(Groups) THEN Miss(vals)
     ELSE IF IsHit(r) THEN r ELSE find[<<n, g + 1, used, r.vals>>]

FindRoute(nodes, op, path) ==
  LET find[x \in (DOMAIN nodes) \X (1 .. Len(Groups) + 1) \X (0 .. Len(path))
                     \X Seq(Nat \X Nat)] ==
        FindFrom(find, nodes, op, path, x[1], x[2], x[3], x[4])
      r == find[<<Top, 1, 0, <<>>>>]
  IN [pattern |-> r.pattern,
      vals |-> [k \in DOMAIN r.vals |-> ValueOf(path, r.vals[k])]]

----------------------------------------------------------------------------
(* routes() walks the whole tree *)

WalkFrom(walk, nodes, n) == {n} \cup UNION {walk[k] : k \in Kids(nodes, n)}
AllNodes(nodes) ==
  LET walk[n \in DOMAIN nodes] == WalkFrom(walk, nodes, n) IN walk[Top]

Listed(op) == {tree[n].eps[op] : n \in AllNodes(tree)} \ {NoRoute}

----------------------------------------------------------------------------
(* A script registers its routes one after the other *)

Init ==
  /\ tree = EmptyTree
  /\ registered = <<>>

Register(op, pattern) ==
  /\ Len(registered) < MaxRoutes
  /\ tree' = InsertRoute(tree, Len(registered) + 1, op, pattern)
  /\ registered' = Append(registered, <<op, pattern>>)

Next == \E op \in Ops, pattern \in Patterns : Register(op, pattern)

Spec == Init /\ [][Next]_vars

----------------------------------------------------------------------------
(* What routing means, with no tree *)

\* Two patterns are one route to the router when only names of params differ:
\* the later registration replaces the earlier.
SameShape(p, q) == Len(p) = Len(q) /\ \A i \in 1 .. Len(p) :
  \/ p[i] = q[i]
  \/ p[i] \in Params /\ q[i] \in Params
  \/ p[i] \in Regexps /\ q[i] \in Regexps /\ RexOf[p[i]] = RexOf[q[i]]

Replaced(i) == \E j \in i + 1 .. Len(registered) :
  registered[j][1] = registered[i][1] /\ SameShape(registered[j][2], registered[i][2])
Routes == {i \in DOMAIN registered : ~Replaced(i)}
Registered(op) == {registered[i][2] : i \in {j \in Routes : registered[j][1] = op}}

WildsOf(pattern) == SelectSeq(pattern, LAMBDA t : t \in Wild)

\* The path that a pattern stands for when its wild tokens take these values.
FillTo(filled, pattern, vals, i) ==         \* the path, and the values used
  LET f == filled[i - 1] IN
  IF i = 0 THEN <<<<>>, 0>>
  ELSE IF pattern[i] \in Wild THEN <<f[1] \o vals[f[2] + 1], f[2] + 1>>
  ELSE <<Append(f[1], pattern[i]), f[2]>>
Fill(pattern, vals) ==
  LET filled[i \in 0 .. Len(pattern)] == FillTo(filled, pattern, vals, i)
  IN filled[Len(pattern)][1]

\* The values a token may stand for: itself, something without a slash or the
\* token's tail, something the expression accepts, or for "*" anything.
MayBe(p, i, v) ==
  \/ p[i] \notin Wild /\ v = <<p[i]>>
  \/ p[i] = Star
  \/ p[i] \in Params /\ v # <<>> /\ {"/", TailAt(p, i)} \cap ToSet(v) = {}
  \/ /\ p[i] \in Regexps /\ v # <<>> /\ v \in Language[RexOf[p[i]]]
     /\ TailAt(p, i) \notin ToSet(v)

\* A pattern matches a path that can be cut into one part for each token.
Matches(p, path) == \E cut \in [0 .. Len(p) -> 0 .. Len(path)] :
  /\ cut[0] = 0 /\ cut[Len(p)] = Len(path)
  /\ \A i \in 1 .. Len(p) :
       cut[i - 1] <= cut[i] /\ MayBe(p, i, ValueOf(path, <<cut[i - 1], cut[i]>>))

\* Computed once: it does not depend on the tree.
MatchTable == [pattern \in Patterns |-> {path \in Paths : Matches(pattern, path)}]

----------------------------------------------------------------------------
(* Properties *)

\* The tree lists the routes registered and not replaced, whatever splits the
\* registrations after them made.
ListsEveryRoute == \A op \in Ops : Listed(op) = Registered(op)

\* A route that is found is registered for the operation, has one value per
\* parameter of its pattern, and filling the values in gives the path.  So the
\* stack of values is right after any backtracking.
FoundFits == \A op \in Ops, path \in Paths :
  LET r == FindRoute(tree, op, path) IN
  IsHit(r) =>
    /\ r.pattern \in Registered(op)
    /\ Len(r.vals) = Cardinality({i \in DOMAIN r.pattern : r.pattern[i] \in Wild})
    /\ Fill(r.pattern, r.vals) = path

\* A request is only refused when no route for its operation matches: routes
\* for other operations and dead ends in the tree do not hide one.
FindsARoute == \A op \in Ops, path \in Paths :
  (\E pattern \in Registered(op) : path \in MatchTable[pattern]) =>
    IsHit(FindRoute(tree, op, path))

\* A path that is registered literally is served by that route.
LiteralFirst == \A op \in Ops, path \in Paths :
  path \in Registered(op) => FindRoute(tree, op, path).pattern = path

\* Where the order of registration can decide: at a place that takes an expression,
\* or that two parameters share whose tails differ and are both not a slash.
AtOnePlace(p, q, i) == /\ i \in DOMAIN p \cap DOMAIN q
                       /\ \A j \in 1 .. i - 1 : Edge(p, j) = Edge(q, j)
TailsVie(p, q) == \E i \in DOMAIN p :
  /\ AtOnePlace(p, q, i) /\ {p[i], q[i]} \subseteq Params
  /\ TailAt(p, i) # TailAt(q, i) /\ "/" \notin {TailAt(p, i), TailAt(q, i)}
OrderDecides(patterns) ==
  \/ \E p \in patterns : ToSet(p) \cap Regexps # {}
  \/ \E p, q \in patterns : TailsVie(p, q)

\* The same registrations in the opposite order find the same routes and values,
\* whichever nodes they split and whatever tailSort then does, as long as no
\* route has an expression and no two parameters at one place have different
\* tails that are both not a slash: findRoute tries those as they were registered.
InsertAll(rs) ==
  LET insert[k \in 0 .. Len(rs)] ==
        IF k = 0 THEN EmptyTree ELSE InsertRoute(insert[k - 1], k, rs[k][1], rs[k][2])
  IN insert[Len(rs)]
OrderIrrelevant ==
  LET kept == SetToSortSeq(Routes, <)
      other == InsertAll(Reverse([k \in DOMAIN kept |-> registered[kept[k]]]))
  IN ~OrderDecides({registered[i][2] : i \in Routes}) =>
       \A op \in Ops, path \in Paths :
         FindRoute(tree, op, path) = FindRoute(other, op, path)
=============================================================================
