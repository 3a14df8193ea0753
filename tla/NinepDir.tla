------------------------------ MODULE NinepDir ------------------------------
(***************************************************************************)
(* A directory of internal/ninep/server.go and the files in it: routerDir, *)
(* routerFile, walkFail, createFile and removeFile, under clients whose    *)
(* connections are served in goroutines of their own.  The 9p library      *)
(* (external) keeps a directory's children by name, copies them for        *)
(* Children(), refuses to add a name twice, and gives a fid the node that  *)
(* a walk or a create ended at.                                            *)
(*                                                                         *)
(* A file is a node with a cache; the nodes of the static tree and created *)
(* ones are children of the directory, any other walk makes a node of its  *)
(* own.                                                                    *)
(***************************************************************************)
EXTENDS Naturals, FiniteSets, Functions

CONSTANTS Clients,     \* connections, each with one fid
          Names,       \* the names in the directory
          Literals,    \* those that routes spell out
          Matched,     \* others that a parameter, glob or wildcard matches
          ReadHandled, \* the names with a read handler
          Listable,    \* the names that the directory's readdir handler lists
          Answers      \* what write handlers answer, 0 being the empty answer

ASSUME FiniteAssumption == IsFiniteSet(Clients) /\ IsFiniteSet(Names)
ASSUME NamesAssumption == Literals \cup Matched \cup ReadHandled \cup Listable \subseteq Names
ASSUME AnswersAssumption == 0 \in Answers /\ Answers \subseteq Nat

VARIABLES known,     \* the files the script knows
          refused,   \* names whose create handler failed
          raced,     \* names that were created and removed at the same time
          children,  \* the directory's static children: name -> node
          node,      \* [Nodes -> its name, cache, and the answers it got]
          fid,       \* [Clients -> a node, 0 if the client has none]
          pc, name,  \* [Clients -> the next step of its request, and its name]
          answer,    \* [Clients -> what the handler answered]
          found      \* what a read just answered, and the last answer its node got

nvars == <<known, refused, raced, children, node, fid, pc, name, answer, found>>

Nodes == 1 .. Cardinality(Names) + Cardinality(Clients)
File(x) == [name |-> x, cachedData |-> 0, last |-> 0, overlapped |-> FALSE]
Nothing == [name |-> "", from |-> "nothing", answer |-> 0, last |-> 0]

\* buildDir makes the nodes of literal names; the rest is left to walkFail.
BuiltNodes == CHOOSE f \in [Literals -> Nodes] : IsInjective(f)

Init ==
  /\ known = Literals /\ refused = {} /\ raced = {}
  /\ children = BuiltNodes
  /\ node = [n \in Nodes |->
       IF \E x \in Literals : BuiltNodes[x] = n
         THEN File(CHOOSE x \in Literals : BuiltNodes[x] = n)
         ELSE File("")]
  /\ fid = [c \in Clients |-> 0] /\ pc = [c \in Clients |-> "idle"]
  /\ name = [c \in Clients |-> ""] /\ answer = [c \in Clients |-> 0]
  /\ found = Nothing

\* A node nobody uses any more; the garbage collector's work is done at once.
FreshNode == CHOOSE n \in Nodes : n \notin Range(children) \cup Range(fid)
Used(n) == n \in Range(children') \cup Range(fid')
Collect == node' = [n \in Nodes |-> IF Used(n) THEN node[n] ELSE File("")]

NoRead == found' = Nothing
GoTo(c, label) == pc' = [pc EXCEPT ![c] = label]
Others(c, label, x) == \E d \in Clients \ {c} : pc[d] = label /\ name[d] = x

----------------------------------------------------------------------------
(* Walking *)

\* Names that are not children: those that routerDir.Children adds, because the
\* readdir handler lists them, and those for which walkFail's findChild finds
\* a node of the tree, among them literal names that were removed.
Virtual == Listable \ DOMAIN children
InTree(x) == x \in Literals \cup Matched

\* A walk ends at the child of that name, or at a node made for it.
WalkShares(x) == x \in DOMAIN children
Walk(c, x) ==
  /\ pc[c] = "idle" /\ fid[c] = 0
  /\ \/ /\ WalkShares(x)
        /\ fid' = [fid EXCEPT ![c] = children[x]]
        /\ UNCHANGED node
     \/ /\ ~WalkShares(x) /\ (x \in Virtual \/ InTree(x))
        /\ fid' = [fid EXCEPT ![c] = FreshNode]
        /\ node' = [node EXCEPT ![FreshNode] = File(x)]
  /\ UNCHANGED <<known, refused, raced, children, pc, name, answer>> /\ NoRead

Clunk(c) ==
  /\ pc[c] = "idle" /\ fid[c] # 0
  /\ fid' = [fid EXCEPT ![c] = 0]
  /\ UNCHANGED <<known, refused, raced, children, pc, name, answer>> /\ NoRead
  /\ Collect

----------------------------------------------------------------------------
(* Creating and removing *)

\* createFile calls the create handler, and goes on if it fails.
CreateServe(c, x) ==
  /\ pc[c] = "idle" /\ fid[c] = 0
  /\ \/ known' = known \cup {x} /\ UNCHANGED refused
     \/ refused' = refused \cup ({x} \ known) /\ UNCHANGED known
  /\ raced' = IF Others(c, "unlinked", x) THEN raced \cup {x} ELSE raced
  /\ name' = [name EXCEPT ![c] = x] /\ GoTo(c, "created")
  /\ UNCHANGED <<children, node, fid, answer>> /\ NoRead

\* AddChild fails if the name is there; otherwise the client has the new file
\* open.  (The open handler that is called then changes nothing here.)
AddChild(c) ==
  /\ pc[c] = "created"
  /\ \/ /\ name[c] \notin DOMAIN children
        /\ LET n == FreshNode IN
             /\ children' = [y \in DOMAIN children \cup {name[c]} |->
                               IF y = name[c] THEN n ELSE children[y]]
             /\ node' = [node EXCEPT ![n] = File(name[c])]
             /\ fid' = [fid EXCEPT ![c] = n]
     \/ name[c] \in DOMAIN children /\ UNCHANGED <<children, node, fid>>
  /\ GoTo(c, "idle") /\ name' = [name EXCEPT ![c] = ""]
  /\ UNCHANGED <<known, refused, raced, answer>> /\ NoRead

\* removeFile calls the unlink handler; if that fails nothing is removed.
DeletesAnyway(ok) == TRUE
Deletes(ok) == ok

RemoveServe(c) ==
  /\ pc[c] = "idle" /\ fid[c] # 0
  /\ LET x == node[fid[c]].name IN
     \E ok \in BOOLEAN :
       /\ known' = IF ok THEN known \ {x} ELSE known
       /\ raced' = IF Others(c, "created", x) THEN raced \cup {x} ELSE raced
       /\ name' = [name EXCEPT ![c] = IF Deletes(ok) THEN x ELSE ""]
       /\ GoTo(c, IF Deletes(ok) THEN "unlinked" ELSE "idle")
  /\ UNCHANGED <<refused, children, node, fid, answer>> /\ NoRead

\* DeleteChild takes the name out, whichever node has it by now; the fid ends.
DeleteChild(c) ==
  /\ pc[c] = "unlinked"
  /\ children' = Restrict(children, DOMAIN children \ {name[c]})
  /\ refused' = refused \ {name[c]}
  /\ fid' = [fid EXCEPT ![c] = 0]
  /\ GoTo(c, "idle") /\ name' = [name EXCEPT ![c] = ""]
  /\ UNCHANGED <<known, raced, answer>> /\ NoRead
  /\ Collect

----------------------------------------------------------------------------
(* Reading and writing *)

\* routerFile.Read looks at the cache, under its lock.
Settled(n) == ~node[n].overlapped /\ ~\E c \in Clients : fid[c] = n /\ pc[c] = "answered"
Expected(n) == IF Settled(n) THEN node[n].last ELSE node[n].cachedData

ReadCached(c) ==
  /\ pc[c] = "idle" /\ fid[c] # 0 /\ node[fid[c]].cachedData # 0
  /\ LET f == node[fid[c]] IN
     found' = [name |-> f.name, from |-> "cache", answer |-> f.cachedData,
               last |-> Expected(fid[c])]
  /\ UNCHANGED <<known, refused, raced, children, node, fid, pc, name, answer>>

ReadCheck(c) ==
  /\ pc[c] = "idle" /\ fid[c] # 0 /\ node[fid[c]].cachedData = 0
  /\ answer' = [answer EXCEPT ![c] = Expected(fid[c])]
  /\ GoTo(c, "read")
  /\ UNCHANGED <<known, refused, raced, children, node, fid, name>> /\ NoRead

\* With nothing cached the read handler answers; if there is none, or it
\* fails, the file is empty.
ReadServe(c) ==
  /\ pc[c] = "read"
  /\ LET x == node[fid[c]].name IN
     \E from \in {"empty"} \cup (IF x \in ReadHandled THEN {"handler"} ELSE {}) :
       found' = [name |-> x, from |-> from, answer |-> 0, last |-> answer[c]]
  /\ answer' = [answer EXCEPT ![c] = 0]
  /\ GoTo(c, "idle")
  /\ UNCHANGED <<known, refused, raced, children, node, fid, name>>

\* routerFile.Write calls the write handler first, with no lock; an error is
\* the client's, and changes nothing.
WriteServe(c) ==
  /\ pc[c] = "idle" /\ fid[c] # 0
  /\ \E a \in Answers :
       /\ answer' = [answer EXCEPT ![c] = a]
       /\ node' = [node EXCEPT ![fid[c]].last = a, ![fid[c]].overlapped =
            \E d \in Clients \ {c} : fid[d] = fid[c] /\ pc[d] = "answered"]
  /\ GoTo(c, "answered")
  /\ UNCHANGED <<known, refused, raced, children, fid, name>> /\ NoRead

\* The answer is cached only where there is no read handler.
CachesAlways(x) == TRUE
Caches(x) == x \notin ReadHandled

WriteStore(c) ==
  /\ pc[c] = "answered"
  /\ node' = [node EXCEPT ![fid[c]].cachedData =
                 IF Caches(node[fid[c]].name) THEN answer[c] ELSE @]
  /\ answer' = [answer EXCEPT ![c] = 0]
  /\ GoTo(c, "idle")
  /\ UNCHANGED <<known, refused, raced, children, fid, name>> /\ NoRead

----------------------------------------------------------------------------
Next == \E c \in Clients :
  \/ \E x \in Names : Walk(c, x) \/ CreateServe(c, x)
  \/ Clunk(c) \/ AddChild(c) \/ RemoveServe(c) \/ DeleteChild(c)
  \/ ReadCached(c) \/ ReadCheck(c) \/ ReadServe(c) \/ WriteServe(c) \/ WriteStore(c)

Spec == Init /\ [][Next]_nvars

----------------------------------------------------------------------------
(* Properties *)

\* A file without read handler reads as what the last write to its node was
\* answered with, whichever client wrote, unless that write is under way or met
\* another; a file with a read handler never reads from the cache.
ReadsLastAnswer ==
  /\ found.name \notin ReadHandled => found.answer = found.last
  /\ found.from = "cache" => found.name \notin ReadHandled

\* When no create or remove is under way the directory has every file that
\* the script knows, and no other but those whose create handler failed:
\* unless the name was being created and removed at the same time.
AgreesWithScript ==
  (\A c \in Clients : pc[c] \notin {"created", "unlinked"}) =>
    /\ known \ raced \subseteq DOMAIN children
    /\ DOMAIN children \ raced \subseteq known \cup refused

\* What makes it inductive.  A name is out of step only while its create or
\* remove is between its handler and the directory, and not both are, but for
\* names that were created and removed at the same time.
Creating(x) == \E c \in Clients : pc[c] = "created" /\ name[c] = x
Removing(x) == \E c \in Clients : pc[c] = "unlinked" /\ name[c] = x
KnownIsThere == \A x \in known \ raced : x \in DOMAIN children \/ Creating(x)
ThereIsKnown == \A x \in DOMAIN children \ raced :
  x \in known \cup refused \/ Removing(x)
NotBoth == \A x \in Names \ raced : ~(Creating(x) /\ Removing(x))
CreatedIsKnown == \A x \in Names \ raced : Creating(x) => x \in known \cup refused
RemovedIsUnknown == \A x \in Names \ raced : Removing(x) => x \notin known
PerClient ==
  /\ pc = [c \in Clients |-> pc[c]]
  /\ name = [c \in Clients |-> name[c]]
  /\ \A c \in Clients : pc[c] = "created" => name[c] \in Names
  /\ known \subseteq Names
AgreesInv ==
  /\ PerClient /\ KnownIsThere /\ ThereIsKnown /\ NotBoth /\ CreatedIsKnown
  /\ RemovedIsUnknown

\* What makes the first one inductive.  A node that no write is under way to has
\* its last answer cached, and a write that is under way alone brings it; a
\* client that found nothing cached had nothing to expect.
Typed ==
  /\ DOMAIN children \subseteq Names /\ children \in [DOMAIN children -> Nodes]
  /\ fid \in [Clients -> Nodes \cup {0}] /\ answer \in [Clients -> Nat]
  /\ pc \in [Clients -> {"idle", "created", "unlinked", "read", "answered"}]
  /\ node \in [Nodes -> [name : Names \cup {""}, cachedData : Nat, last : Nat,
                         overlapped : BOOLEAN]]
HasNode == \A c \in Clients :
  /\ pc[c] = "created" => fid[c] = 0
  /\ pc[c] \in {"read", "answered"} => fid[c] # 0
Writes(c, n) == fid[c] = n /\ pc[c] = "answered"
LastComes == \A n \in Nodes : ~node[n].overlapped =>
  /\ \A c, d \in Clients : Writes(c, n) /\ Writes(d, n) => c = d
  /\ \A c \in Clients : Writes(c, n) => answer[c] = node[n].last
CachedIsLast == \A n \in Nodes :
  /\ node[n].cachedData # 0 => node[n].name \notin ReadHandled
  /\ Settled(n) /\ node[n].name \notin ReadHandled => node[n].cachedData = node[n].last
FoundNothing == \A c \in Clients :
  pc[c] = "read" /\ node[fid[c]].name \notin ReadHandled => answer[c] = 0
CacheInv ==
  Typed /\ HasNode /\ LastComes /\ CachedIsLast /\ FoundNothing /\ ReadsLastAnswer
=============================================================================
