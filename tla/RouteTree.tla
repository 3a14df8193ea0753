----------------------------- MODULE RouteTree -----------------------------
(***************************************************************************)
(* The directory tree the file servers walk (internal/router/tree.go) and  *)
(* the walk itself: findChild of internal/fuse/server.go, which            *)
(* internal/ninep/server.go repeats, and FindNode, which internal/sshfs    *)
(* uses.  Requests on what the walk reaches are answered by the radix tree *)
(* of RadixTree, by path: two structures over one set of routes that have  *)
(* to agree.                                                               *)
(*                                                                         *)
(* A component is a sequence of tokens, a name a sequence of characters.   *)
(* A node of the tree is the sequence of components that leads to it: the  *)
(* code's map of children, keyed by component, makes nothing else of it.   *)
(***************************************************************************)
EXTENDS RadixTree

CONSTANTS ScriptPatterns,  \* the patterns scripts write, before conversion
          Globs,           \* the components with * or ? in them, as tokens
          GlobRegexp,      \* the token each is converted to
          Starred,         \* the tokens in Regexps with * or ? in their text
          Names,           \* the names clients ask for
          MaxDepth         \* bound on the length of a walk

\* A name is made of characters, with neither a slash nor a brace or a star.
ASSUME NamesAssumption == \A name \in Names :
  /\ name \in Seq(ToSet(name)) /\ name # <<>>
  /\ ToSet(name) \cap ({"/"} \cup Wild \cup Globs) = {}

\* Globs become expressions.
ASSUME GlobsAssumption ==
  /\ Globs \cap ({"/"} \cup Wild) = {} /\ Starred \subseteq Regexps
  /\ \A glob \in Globs \cup {Star} : GlobRegexp[glob] \in Regexps

VARIABLES mounted,  \* what GetTree listed when the server was mounted
          at        \* the node the client has walked to

tvars == <<tree, registered, mounted, at>>

----------------------------------------------------------------------------
(* Registering: script.Registry converts globs before the router sees them *)

ConvertGlobPattern(p) == [i \in DOMAIN p |->
  IF p[i] \in Globs \/ (p[i] = Star /\ i < Len(p)) THEN GlobRegexp[p[i]] ELSE p[i]]

\* Scripts hand patterns that the router takes, with no empty component, and with
\* stars that are components.
PatternIsWhole(p) == \A i \in DOMAIN p :
  /\ p[i] = "/" => Len(p) = 1 \/ (i < Len(p) /\ p[i + 1] # "/")
  /\ p[i] = Star => p[i - 1] = "/"
ASSUME ScriptsAssumption == \A p \in ScriptPatterns :
  ConvertGlobPattern(p) \in Patterns /\ PatternIsWhole(ConvertGlobPattern(p))

----------------------------------------------------------------------------
(* The tree, from the routes listed *)

\* splitPath, for patterns and paths with no empty component inside: a character
\* begins a component or goes on with the last one.
ComponentsTo(parts, s, i) ==
  LET before == parts[i - 1] IN
  IF i = 0 THEN <<>>
  ELSE IF s[i] = "/" THEN before
  ELSE IF i = 1 \/ s[i - 1] = "/" THEN Append(before, <<s[i]>>)
  ELSE [before EXCEPT ![Len(before)] = Append(@, s[i])]
Components(s) ==
  LET parts[i \in 0 .. Len(s)] == ComponentsTo(parts, s, i) IN parts[Len(s)]

ListedForAnyOp == Ops \X UNION {Listed(op) : op \in Ops}
ListedRoutes == UNION {{op} \X Listed(op) : op \in Ops}

Nodes == {<<>>} \cup UNION {
  {SubSeq(Components(r[2]), 1, k) : k \in 1 .. Len(Components(r[2]))} : r \in mounted}

Handlers(node) == {r \in mounted : Components(r[2]) = node}

\* addRouteToTree's type of a component.  An expression with a star in it makes
\* a parameter a glob: isGlob is looked at last.
Kind(component) ==
  IF component = <<Star>> THEN "wildcard"
  ELSE IF ToSet(component) \cap ({Star} \cup Globs \cup Starred) # {} THEN "glob"
  ELSE IF {Head(component), Last(component)} \subseteq Params \cup Regexps
    THEN "param" ELSE "plain"

Children(node) == {n \in Nodes : Len(n) = Len(node) + 1 /\ IsPrefix(node, n)}
ChildrenOf(node, kind) == {n \in Children(node) : Kind(Last(n)) = kind}

\* Braces are matched as themselves, and no name asked for has any.
ComponentMatches(component, name) ==
  /\ ToSet(component) \cap (Params \cup Regexps) = {}
  /\ name \in Language[Head(component)]

FirstNonEmpty(sets) == LET k == {i \in DOMAIN sets : sets[i] # {}} IN
  IF k = {} THEN {} ELSE sets[CHOOSE i \in k : \A j \in k : i <= j]

\* findChild: the literal name, then globs, parameters and wildcards.  The loops
\* over a Go map take any child of the kind.
FindChildParamsFirst(node, name) == FirstNonEmpty(<<
  {n \in ChildrenOf(node, "param") : Last(n) # name},
  {n \in ChildrenOf(node, "plain") : Last(n) = name},
  {n \in ChildrenOf(node, "glob") : ComponentMatches(Last(n), name)},
  ChildrenOf(node, "wildcard") >>)
FindChild(node, name) == FirstNonEmpty(<<
  {n \in ChildrenOf(node, "plain") : Last(n) = name},
  {n \in ChildrenOf(node, "glob") : ComponentMatches(Last(n), name)},
  {n \in ChildrenOf(node, "param") : Last(n) # name},
  ChildrenOf(node, "wildcard") >>)

\* The nodes FindNode goes on to: a child named literally, whatever its kind, then
\* globs, parameters and wildcards.
NextNodes(node, name) == FirstNonEmpty(<<
  {n \in Children(node) : Last(n) = name},
  {n \in ChildrenOf(node, "glob") : ComponentMatches(Last(n), name)},
  ChildrenOf(node, "param"), ChildrenOf(node, "wildcard") >>)

TakesTheRest(n) == n # <<>> /\ Kind(Last(n)) = "wildcard"
                   /\ Handlers(n) # {} /\ Children(n) = {}

\* FindNode of the tree, from its root: the nodes it can end at.  On the way to a
\* node it passes all that lead to it; a wildcard leaf takes all the rest.
FindNode(names) == {n \in Nodes :
  /\ Len(n) <= Len(names)
  /\ \A i \in 1 .. Len(n) : SubSeq(n, 1, i) \in NextNodes(SubSeq(n, 1, i - 1), names[i])
  /\ Len(n) = Len(names) \/ TakesTheRest(n)}

----------------------------------------------------------------------------
(* The walk *)

\* Entries that only a readdir or create handler knows are virtual nodes: no
\* handlers and no children of their own.
Root == [path |-> <<>>, node |-> <<>>, virtual |-> "no", params |-> <<>>]
NotMounted == [Root EXCEPT !.virtual = "unmounted"]

PathTo(paths, names, i) ==
  IF i = 0 THEN <<>> ELSE paths[i - 1] \o (<<"/">> \o names[i])
PathOf(names) ==
  LET paths[i \in 0 .. Len(names)] == PathTo(paths, names, i)
  IN IF names = <<>> THEN <<"/">> ELSE paths[Len(names)]

Here == PathOf(at.path)
Served(op, path) == op \in Ops /\ IsHit(FindRoute(tree, op, path))

IsDirIfPlain == CASE at.virtual = "dir" -> TRUE
  [] at.virtual = "no" -> at.node # <<>> =>
       Kind(Last(at.node)) = "plain" /\ Children(at.node) # {}
  [] OTHER -> FALSE
IsDir == CASE at.virtual = "dir" -> TRUE
  [] at.virtual = "no" -> \/ at.node = <<>>
                          \/ Children(at.node) # {}
                          \/ \E r \in Handlers(at.node) : r[1] = "readdir"
  [] OTHER -> FALSE

FoundHere(name) == IF at.virtual = "no" THEN FindChild(at.node, name) ELSE {}

\* The parameters a walked node hands on: its parent's and its own capture.
CapturedWithPath(child, name) ==
  IF Kind(Last(child)) \in {"param", "wildcard"}
    THEN Last(child) :> Tail(PathOf(Append(at.path, name))) @@ at.params
    ELSE at.params
Captured(child, name) ==
  IF Kind(Last(child)) \in {"param", "wildcard"}
    THEN Last(child) :> name @@ at.params ELSE at.params

Virtual(name, kind) ==
  [at EXCEPT !.path = Append(@, name), !.node = <<>>, !.virtual = kind]

InitTree == Init /\ mounted = {} /\ at = NotMounted

RegisterRoute(op, p) ==
  /\ at = NotMounted
  /\ Register(op, ConvertGlobPattern(p))
  /\ UNCHANGED <<mounted, at>>

Mount ==
  /\ at = NotMounted
  /\ mounted' = ListedRoutes
  /\ at' = Root
  /\ UNCHANGED <<tree, registered>>

\* Lookup of a name the tree has a child for.
Lookup(name) ==
  /\ IsDir /\ Len(at.path) < MaxDepth
  /\ \E child \in FoundHere(name) :
       at' = [path |-> Append(at.path, name), node |-> child, virtual |-> "no",
              params |-> Captured(child, name)]
  /\ UNCHANGED <<tree, registered, mounted>>

\* Lookup of a name the readdir handler of the directory lists.
LookupListed(name) ==
  /\ IsDir /\ Len(at.path) < MaxDepth
  /\ FoundHere(name) = {}
  /\ Served("readdir", Here)
  /\ at' \in {Virtual(name, "file"), Virtual(name, "dir")}
  /\ UNCHANGED <<tree, registered, mounted>>

\* Create asks the handler for the new path, not for the directory's.
Create(name) ==
  /\ IsDir /\ Len(at.path) < MaxDepth
  /\ Served("create", PathOf(Append(at.path, name)))
  /\ at' = Virtual(name, "file")
  /\ UNCHANGED <<tree, registered, mounted>>

NextTree ==
  \/ \E op \in Ops, p \in ScriptPatterns : RegisterRoute(op, p)
  \/ Mount
  \/ \E name \in Names : Lookup(name) \/ LookupListed(name) \/ Create(name)

SpecTree == InitTree /\ [][NextTree]_tvars

----------------------------------------------------------------------------
(* Requests on the walked node *)

\* The parameters the radix tree finds, by component as the walk has them; an
\* expression's parameter is keyed by its name alone.
RouteKey(token) == IF token \in Regexps THEN <<token, "name">> ELSE <<token>>
RouteParams(op) ==
  LET r == FindRoute(tree, op, Here)
      wilds == WildsOf(r.pattern)
  IN [key \in {RouteKey(t) : t \in ToSet(wilds)} |->
        r.vals[CHOOSE k \in DOMAIN wilds : RouteKey(wilds[k]) = key]]

\* router.Serve: the walked node's parameters win over those of the route.
ServedParams(op) == at.params @@ RouteParams(op)

----------------------------------------------------------------------------
(* Properties *)

PlainPattern(p) == \A c \in ToSet(Components(p)) :
  Len(c) = 1 \/ ToSet(c) \cap Wild = {}
WholeComponents == \A r \in mounted : ToSet(r[2]) \cap Regexps = {} /\ PlainPattern(r[2])
OneParamPerDir == \A n \in Nodes : \A m, o \in ChildrenOf(n, "param") : m = o

\* What the walk reaches with a handler is served: the radix tree has a route
\* for the operation and the path, although it matches characters and the walk
\* components.  (The walk takes any name for "{x}-{y}" and for a parameter with
\* an expression; the radix tree does not.)
WholeParams(p) == \A c \in ToSet(Components(p)) :
  Kind(c) = "param" => Len(c) = 1 /\ Head(c) \in Params
WalkedIsServed == at.virtual = "no" =>
  \A r \in Handlers(at.node) : WholeParams(r[2]) => Served(r[1], Here)

\* Whatever the walk made of a path (nodes on the way of another route, entries
\* that only a readdir handler lists), a request on it is served if a route
\* takes its names one by one.
Takes(component, name) ==
  \/ component = name
  \/ Kind(component) = "wildcard"
  \/ Len(component) = 1 /\ Head(component) \in Params
  \/ /\ Len(component) = 1 /\ Head(component) \in Regexps
     /\ name \in Language[RexOf[Head(component)]]
TakesPath(p, names) ==
  /\ Len(Components(p)) = Len(names)
  /\ \A i \in DOMAIN names : Takes(Components(p)[i], names[i])
RoutedNameByName == \A r \in mounted :
  TakesPath(r[2], at.path) => Served(r[1], Here)

\* And what the walk reaches is served by its handler, when parameters are
\* whole components and no directory has two: both structures prefer the
\* literal name.
ServedByItsNode == at.virtual = "no" /\ WholeComponents /\ OneParamPerDir =>
  \A r \in Handlers(at.node) : FindRoute(tree, r[1], Here).pattern = r[2]

\* The handler is then given the values its route stands for, although the
\* walk's captures win over the route's.
ServedItsParams == at.virtual = "no" /\ WholeComponents /\ OneParamPerDir =>
  \A r \in Handlers(at.node) : ServedParams(r[1]) = RouteParams(r[1])

\* A walk that is on the way of a route is never refused the route's next name:
\* the nodes on the way are directories, and their children are found.
NextNameIsFound == at.virtual = "no" /\ WholeComponents =>
  \A r \in mounted :
    LET k == Len(at.node)
        way == Components(r[2])
    IN k < Len(way) /\ at.node = SubSeq(way, 1, k) =>
         /\ IsDir
         /\ \A name \in Names :
              way[k + 1] = name \/ Kind(way[k + 1]) # "plain" =>
                FindChild(at.node, name) # {}

\* FindNode, which the SFTP server lists directories with, reaches the nodes the
\* walk reaches, name by name.
FindNodeAgrees == at.virtual = "no" => at.node \in FindNode(at.path)
=============================================================================
