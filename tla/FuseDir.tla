------------------------------- MODULE FuseDir -------------------------------
(***************************************************************************)
(* The requests on a directory of internal/fuse/server.go: Lookup with     *)
(* getListEntries and its cache, ReadDirAll, Create and Remove, each in a  *)
(* goroutine of its own.  The kernel may hold several nodes of the same    *)
(* directory; each has a cache and a lock of its own.  The script's        *)
(* readdir handler lists what it likes, files or directories, and fails    *)
(* when it likes; create and unlink handlers change what it lists.         *)
(***************************************************************************)
EXTENDS Naturals, FiniteSets

CONSTANTS Procs,    \* goroutines that serve requests
          Nodes,    \* the nodes of the directory
          Names,    \* names that are asked for
          InTree,   \* those for which findChild finds a node of the tree
          Children, \* the names of the tree's children, as ReadDirAll lists them
          NoProc    \* nobody holds a lock

ASSUME NamesAssumption == InTree \subseteq Names /\ Children \subseteq Names
ASSUME NoProcAssumption == NoProc \notin Procs

VARIABLES listed,     \* the names that the readdir handler lists
          failing,    \* the readdir handler fails
          cachedList, \* [Nodes -> cachedListMap and cachedListErr, or NotCached]
          mu,         \* [Nodes -> the goroutine that holds n.mu for writing]
          pc, request, \* [Procs -> the next step, and node and name]
          told,       \* [Nodes -> [Names -> what lookups were answered]]
          wasListed, wasMissing, \* names that the script ever listed, and omitted
          everFailed, \* the readdir handler ever failed
          entries     \* what a ReadDirAll just answered

script == <<listed, failing, wasListed, wasMissing, everFailed>>
dvars == <<script, cachedList, mu, pc, request, told, entries>>

NotCached == [names |-> {}, err |-> FALSE, cached |-> FALSE]
NoRequest == [node |-> "none", name |-> "none"]

Init ==
  /\ listed \in SUBSET Names /\ failing \in BOOLEAN
  /\ wasListed = listed /\ wasMissing = Names \ listed /\ everFailed = failing
  /\ cachedList = [n \in Nodes |-> NotCached] /\ mu = [n \in Nodes |-> NoProc]
  /\ pc = [p \in Procs |-> "idle"] /\ request = [p \in Procs |-> NoRequest]
  /\ told = [n \in Nodes |-> [x \in Names |-> "nothing"]]
  /\ entries = {}

GoTo(p, label) == pc' = [pc EXCEPT ![p] = label]
NodeOf(p) == request[p].node
NameOf(p) == request[p].name

\* The script lists other names from now on.
Lists(names, fails) ==
  /\ listed' = names /\ failing' = fails
  /\ wasListed' = wasListed \cup names /\ wasMissing' = wasMissing \cup (Names \ names)
  /\ everFailed' = (everFailed \/ fails)

ScriptChanges ==
  /\ Lists(listed, ~failing)
  /\ entries' = {}
  /\ UNCHANGED <<cachedList, mu, pc, request, told>>

----------------------------------------------------------------------------
(* Lookup *)

Answer(p, n, x, result) ==
  /\ told' = [told EXCEPT ![n][x] =
       IF @ \in {"nothing", result} THEN result ELSE "both"]
  /\ request' = [request EXCEPT ![p] = NoRequest]
  /\ entries' = {}
  /\ GoTo(p, "idle")

Step(p, label) ==
  /\ GoTo(p, label) /\ entries' = {}
  /\ UNCHANGED <<script, request, told>>

\* A name that findChild finds in the tree is answered without the list.
Lookup(p, n, x) ==
  /\ pc[p] = "idle"
  /\ \/ x \in InTree /\ Answer(p, n, x, "found")
     \/ /\ x \notin InTree
        /\ request' = [request EXCEPT ![p] = [node |-> n, name |-> x]]
        /\ GoTo(p, "look") /\ entries' = {} /\ UNCHANGED told
  /\ UNCHANGED <<script, cachedList, mu>>

\* The virtual entry of that name, if the list has it and is no error.
InListOrError(c, x) == x \in c.names \/ c.err
InList(c, x) == x \in c.names /\ ~c.err
AnswerFrom(p, c) ==
  Answer(p, NodeOf(p), NameOf(p), IF InList(c, NameOf(p)) THEN "found" ELSE "missing")

\* getListEntries: a first look with the lock shared.
FirstLook(p) ==
  /\ pc[p] = "look" /\ mu[NodeOf(p)] = NoProc
  /\ IF cachedList[NodeOf(p)].cached
       THEN AnswerFrom(p, cachedList[NodeOf(p)]) /\ UNCHANGED script
       ELSE Step(p, "lock")
  /\ UNCHANGED <<cachedList, mu>>

\* The write lock is taken.
TakeLock(p) ==
  /\ pc[p] = "lock" /\ mu[NodeOf(p)] = NoProc
  /\ mu' = [mu EXCEPT ![NodeOf(p)] = p]
  /\ Step(p, "second")
  /\ UNCHANGED cachedList

\* Under it a second look, which may answer what another goroutine cached.
SecondLookSkipped(c) == FALSE
SecondLook(c) == c.cached
LookAgain(p) ==
  /\ pc[p] = "second"
  /\ IF SecondLook(cachedList[NodeOf(p)])
       THEN /\ AnswerFrom(p, cachedList[NodeOf(p)])
            /\ mu' = [mu EXCEPT ![NodeOf(p)] = NoProc]
            /\ UNCHANGED script
       ELSE Step(p, "serve") /\ UNCHANGED mu
  /\ UNCHANGED cachedList

\* The readdir handler answers with the lock held; what it answers, or its
\* error with an empty list, is cached for the life of the node.
UnlockedIfServed(n) == IF failing THEN mu ELSE [mu EXCEPT ![n] = NoProc]
Unlocked(n) == [mu EXCEPT ![n] = NoProc]

ServeList(p) ==
  /\ pc[p] = "serve"
  /\ LET n == NodeOf(p)
         c == [names |-> IF failing THEN {} ELSE listed, err |-> failing,
               cached |-> TRUE] IN
     /\ cachedList' = [cachedList EXCEPT ![n] = c]
     /\ mu' = Unlocked(n)
     /\ AnswerFrom(p, c)
  /\ UNCHANGED script

----------------------------------------------------------------------------
(* The other requests *)

\* ReadDirAll asks the handler each time; what it lists replaces the tree's
\* children, which are listed if it fails or answers nothing.  An answer of blank
\* lines lists nothing and replaces them all the same.
EntriesInSpiteOfError == IF listed # {} THEN listed ELSE Children
Entries == IF ~failing /\ listed # {} THEN listed ELSE Children
ReadDirAll ==
  /\ entries' = Entries \/ (~failing /\ listed = {} /\ entries' = {})
  /\ UNCHANGED <<script, cachedList, mu, pc, request, told>>

\* Create and Remove call their handlers; no cache hears of it.  (The node that
\* Create answers with is the new file's, and is no lookup of the name.)
Create(x) ==
  /\ Lists(listed \cup {x}, failing) /\ entries' = {}
  /\ UNCHANGED <<cachedList, mu, pc, request, told>>

Remove(x) ==
  /\ x \in listed /\ Lists(listed \ {x}, failing) /\ entries' = {}
  /\ UNCHANGED <<cachedList, mu, pc, request, told>>

----------------------------------------------------------------------------
Serves(p) == FirstLook(p) \/ TakeLock(p) \/ LookAgain(p) \/ ServeList(p)

Next ==
  \/ \E p \in Procs : Serves(p) \/ \E n \in Nodes, x \in Names : Lookup(p, n, x)
  \/ \E x \in Names : Create(x) \/ Remove(x)
  \/ ReadDirAll \/ ScriptChanges

Spec == Init /\ [][Next]_dvars

\* Go's scheduler and its locks are fair, and handlers return: a goroutine
\* that can take its next step again and again takes it.
FairSpec == Spec /\ \A p \in Procs : SF_dvars(Serves(p))

----------------------------------------------------------------------------
(* Properties *)

\* A node's lookups of one name always have the same answer, whatever the script
\* lists by then and however many goroutines filled its list at once: a virtual
\* entry that was once missing stays missing, and a removed one is found.
LookupsAgree == \A n \in Nodes, x \in Names : told[n][x] # "both"

\* A name is found only if the tree has it or the script listed it some time,
\* and missing only if the tree does not have it and the script once did not
\* list it, or its readdir handler failed: what it always lists is found, and an
\* error hides nothing that is in the tree.
AnswersAreFounded == \A n \in Nodes, x \in Names :
  /\ told[n][x] = "found" => x \in InTree \cup wasListed
  /\ told[n][x] = "missing" => x \notin InTree /\ (x \in wasMissing \/ everFailed)

\* What a listing just named is not answered with ENOENT by a node whose list
\* is what the script lists by now: ReadDirAll and Lookup agree, except about
\* the tree's patterns, which are listed as they are written.
Current(n) == cachedList[n] = [names |-> IF failing THEN {} ELSE listed,
                               err |-> failing, cached |-> TRUE]
ListedIsFound == \A n \in Nodes, x \in entries :
  Current(n) /\ told[n][x] = "missing" => x \in Children \ InTree

\* What makes these three inductive.  The writer of a node's list holds its lock
\* and finds it empty; a list is what the script listed at one time, or the
\* error it failed with; and what lookups were told is what the list says.
Cache == [names : SUBSET Names, err : BOOLEAN, cached : BOOLEAN]
TypeOK ==
  /\ listed \in SUBSET Names /\ failing \in BOOLEAN
  /\ wasListed \in SUBSET Names /\ wasMissing \in SUBSET Names
  /\ everFailed \in BOOLEAN
  /\ cachedList \in [Nodes -> Cache]
  /\ mu \in [Nodes -> Procs \cup {NoProc}]
  /\ pc \in [Procs -> {"idle", "look", "lock", "second", "serve"}]
  /\ request \in [Procs -> [node : Nodes \cup {"none"}, name : Names \cup {"none"}]]
  /\ told \in [Nodes -> [Names -> {"nothing", "found", "missing", "both"}]]
  /\ entries \in SUBSET Names
Asked == \A p \in Procs : pc[p] # "idle" =>
  NodeOf(p) \in Nodes /\ NameOf(p) \in Names \ InTree
Locked == \A p \in Procs : pc[p] \in {"second", "serve"} => mu[NodeOf(p)] = p
ServesEmpty == \A p \in Procs : pc[p] = "serve" => ~cachedList[NodeOf(p)].cached
ScriptWas ==
  /\ listed \subseteq wasListed /\ Names \ listed \subseteq wasMissing
  /\ failing => everFailed
ListWas == \A n \in Nodes : cachedList[n].cached =>
  /\ cachedList[n].names \subseteq wasListed
  /\ IF cachedList[n].err THEN everFailed
                           ELSE Names \ cachedList[n].names \subseteq wasMissing
ToldByList == \A n \in Nodes, x \in Names : told[n][x] # "nothing" =>
  IF x \in InTree THEN told[n][x] = "found"
  ELSE /\ cachedList[n].cached
       /\ told[n][x] = IF InList(cachedList[n], x) THEN "found" ELSE "missing"
JustListed == entries # {} => entries = Entries
DirInv ==
  /\ Asked /\ Locked /\ ServesEmpty /\ ScriptWas /\ ListWas /\ ToldByList
  /\ JustListed

\* Every lookup returns, although the handler runs with the lock held.
EveryLookupReturns == \A p \in Procs : pc[p] # "idle" ~> pc[p] = "idle"
=============================================================================
