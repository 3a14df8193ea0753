--------------------------- MODULE NinepDirProofs ---------------------------
(***************************************************************************)
(* Proofs about NinepDir, for any finite sets of clients and names: the    *)
(* directory and the script agree on its files when no create or remove    *)
(* is under way.                                                           *)
(***************************************************************************)
EXTENDS NinepDir, FiniteSetTheorems, FunctionTheorems, TLAPS

\* There are nodes enough for the literal names, so that buildDir's children
\* are one node each.
LEMMA BuiltTyped == BuiltNodes \in [Literals -> Nodes]
<1>1. IsFiniteSet(Literals) /\ Cardinality(Literals) \in Nat
      /\ Cardinality(Literals) <= Cardinality(Names)
  BY FiniteAssumption, NamesAssumption, FS_Subset, FS_CardinalityType
<1>2. Cardinality(Names) \in Nat /\ Cardinality(Clients) \in Nat
  BY FiniteAssumption, FS_CardinalityType
<1>3. ExistsBijection(Literals, 1 .. Cardinality(Literals))
  BY <1>1, FS_CardinalityType, Fun_ExistsBijSymmetric
<1>4. PICK f \in [Literals -> 1 .. Cardinality(Literals)] : IsInjective(f)
  BY <1>3 DEF ExistsBijection, Bijection, Injection
<1>5. 1 .. Cardinality(Literals) \subseteq Nodes
  BY <1>1, <1>2 DEF Nodes
<1>6. f \in [Literals -> Nodes]
  BY <1>4, <1>5
<1> QED BY <1>4, <1>6 DEF BuiltNodes

\* Steps that leave the script's files, the directory and the creates and
\* removes under way as they are.
LEMMA OtherSteps ==
  ASSUME AgreesInv, NEW c \in Clients, UNCHANGED <<known, refused, raced, children, name>>,
         \/ UNCHANGED pc
         \/ /\ pc[c] \notin {"created", "unlinked"}
            /\ \E label \in {"idle", "read", "answered"} : GoTo(c, label)
  PROVE  AgreesInv'
<1>1. \A d \in Clients, s \in {"created", "unlinked"} : pc'[d] = s <=> pc[d] = s
  BY DEF GoTo, AgreesInv, PerClient
<1>2. pc' = [d \in Clients |-> pc'[d]]
  BY DEF GoTo, AgreesInv, PerClient
<1>3. \A x : (Creating(x)' <=> Creating(x)) /\ (Removing(x)' <=> Removing(x))
  BY <1>1 DEF Creating, Removing
<1> QED
  BY <1>1, <1>2, <1>3
     DEF AgreesInv, PerClient, KnownIsThere, ThereIsKnown, NotBoth, CreatedIsKnown,
         RemovedIsUnknown

\* createFile's call of the create handler.
LEMMA CreateStep ==
  ASSUME AgreesInv, NEW c \in Clients, NEW x \in Names, CreateServe(c, x)
  PROVE  AgreesInv'
<1>1. /\ pc[c] = "idle" /\ pc' = [pc EXCEPT ![c] = "created"]
      /\ name' = [name EXCEPT ![c] = x] /\ UNCHANGED children
      /\ raced' = IF Others(c, "unlinked", x) THEN raced \cup {x} ELSE raced
  BY DEF CreateServe, GoTo
<1>2. \/ known' = known \cup {x} /\ refused' = refused
      \/ known' = known /\ refused' = refused \cup ({x} \ known)
  BY DEF CreateServe
<1>3. \A y : Creating(y)' <=> Creating(y) \/ y = x
  BY <1>1 DEF AgreesInv, PerClient, Creating
<1>4. \A y : Removing(y)' <=> Removing(y)
  BY <1>1 DEF AgreesInv, PerClient, Removing
<1>5. Removing(x) => x \in raced'
  BY <1>1 DEF Removing, Others
<1>6. PerClient'
  BY <1>1, <1>2 DEF AgreesInv, PerClient
<1>7. raced \subseteq raced' /\ raced' \subseteq raced \cup {x}
  BY <1>1
<1>8. KnownIsThere' /\ ThereIsKnown'
  BY <1>1, <1>2, <1>3, <1>4, <1>7 DEF AgreesInv, KnownIsThere, ThereIsKnown
<1>9. NotBoth' /\ CreatedIsKnown' /\ RemovedIsUnknown'
  BY <1>2, <1>3, <1>4, <1>5, <1>7
     DEF AgreesInv, NotBoth, CreatedIsKnown, RemovedIsUnknown
<1> QED BY <1>6, <1>8, <1>9 DEF AgreesInv

\* createFile's AddChild, whether the name is there or not.
LEMMA AddStep ==
  ASSUME AgreesInv, NEW c \in Clients, AddChild(c)
  PROVE  AgreesInv'
<1> DEFINE x == name[c]
<1>1. /\ pc[c] = "created" /\ pc' = [pc EXCEPT ![c] = "idle"]
      /\ name' = [name EXCEPT ![c] = ""] /\ UNCHANGED <<known, refused, raced>>
  BY DEF AddChild, GoTo
<1>2. DOMAIN children' = DOMAIN children \cup {x}
  BY DEF AddChild
<1>3. Creating(x) /\ x \in Names
  BY <1>1 DEF Creating, AgreesInv, PerClient
<1>4. \A y : Creating(y)' => Creating(y)
  BY <1>1 DEF AgreesInv, PerClient, Creating
<1>5. \A y : Creating(y) => Creating(y)' \/ y = x
  BY <1>1 DEF AgreesInv, PerClient, Creating
<1>6. \A y : Removing(y)' <=> Removing(y)
  BY <1>1 DEF AgreesInv, PerClient, Removing
<1>7. PerClient'
  BY <1>1 DEF AgreesInv, PerClient
<1>8. KnownIsThere' /\ ThereIsKnown'
  BY <1>1, <1>2, <1>3, <1>5, <1>6
     DEF AgreesInv, KnownIsThere, ThereIsKnown, CreatedIsKnown
<1>9. NotBoth' /\ CreatedIsKnown' /\ RemovedIsUnknown'
  BY <1>1, <1>4, <1>6 DEF AgreesInv, NotBoth, CreatedIsKnown, RemovedIsUnknown
<1> QED BY <1>7, <1>8, <1>9 DEF AgreesInv

\* removeFile's call of the unlink handler, which may fail.
LEMMA RemoveStep ==
  ASSUME AgreesInv, NEW c \in Clients, RemoveServe(c)
  PROVE  AgreesInv'
<1> DEFINE x == node[fid[c]].name
<1>1. PICK ok \in BOOLEAN :
        /\ known' = IF ok THEN known \ {x} ELSE known
        /\ name' = [name EXCEPT ![c] = IF ok THEN x ELSE ""]
        /\ pc' = [pc EXCEPT ![c] = IF ok THEN "unlinked" ELSE "idle"]
        /\ raced' = IF Others(c, "created", x) THEN raced \cup {x} ELSE raced
  BY DEF RemoveServe, Deletes, GoTo
<1>2. pc[c] = "idle" /\ UNCHANGED <<refused, children>>
  BY DEF RemoveServe
<1>3. \A y : Creating(y)' <=> Creating(y)
  BY <1>1, <1>2 DEF AgreesInv, PerClient, Creating
<1>4. \A y : Removing(y)' <=> Removing(y) \/ (ok /\ y = x)
  BY <1>1, <1>2 DEF AgreesInv, PerClient, Removing
<1>5. Creating(x) => x \in raced'
  BY <1>1, <1>2 DEF Creating, Others
<1>6. PerClient'
  BY <1>1, <1>2 DEF AgreesInv, PerClient
<1>7. raced \subseteq raced' /\ raced' \subseteq raced \cup {x}
  BY <1>1
<1>8. KnownIsThere' /\ ThereIsKnown'
  BY <1>1, <1>2, <1>3, <1>4, <1>7 DEF AgreesInv, KnownIsThere, ThereIsKnown
<1>9. NotBoth' /\ CreatedIsKnown' /\ RemovedIsUnknown'
  BY <1>1, <1>2, <1>3, <1>4, <1>5, <1>7
     DEF AgreesInv, NotBoth, CreatedIsKnown, RemovedIsUnknown
<1> QED BY <1>6, <1>8, <1>9 DEF AgreesInv

\* removeFile's DeleteChild, whichever node has the name.
LEMMA DeleteStep ==
  ASSUME AgreesInv, NEW c \in Clients, DeleteChild(c)
  PROVE  AgreesInv'
<1> DEFINE x == name[c]
<1>1. /\ pc[c] = "unlinked" /\ pc' = [pc EXCEPT ![c] = "idle"]
      /\ name' = [name EXCEPT ![c] = ""] /\ UNCHANGED <<known, raced>>
      /\ refused' = refused \ {x}
  BY DEF DeleteChild, GoTo
<1>2. DOMAIN children' = DOMAIN children \ {x}
  BY DEF DeleteChild, Restrict
<1>3. Removing(x)
  BY <1>1 DEF Removing
<1>4. \A y : Creating(y)' <=> Creating(y)
  BY <1>1 DEF AgreesInv, PerClient, Creating
<1>5. \A y : Removing(y)' => Removing(y)
  BY <1>1 DEF AgreesInv, PerClient, Removing
<1>6. \A y : Removing(y) => Removing(y)' \/ y = x
  BY <1>1 DEF AgreesInv, PerClient, Removing
<1>7. PerClient'
  BY <1>1 DEF AgreesInv, PerClient
<1>8. KnownIsThere' /\ ThereIsKnown'
  BY <1>1, <1>2, <1>3, <1>4, <1>6
     DEF AgreesInv, PerClient, KnownIsThere, ThereIsKnown, RemovedIsUnknown
<1>9. NotBoth' /\ CreatedIsKnown' /\ RemovedIsUnknown'
  BY <1>1, <1>3, <1>4, <1>5 DEF AgreesInv, NotBoth, CreatedIsKnown, RemovedIsUnknown
<1> QED BY <1>7, <1>8, <1>9 DEF AgreesInv

\* The invariant that createFile and removeFile keep between them.
THEOREM AgreesCorrect == Spec => []AgreesInv
<1>1. Init => AgreesInv
  BY BuiltTyped, NamesAssumption
     DEF Init, AgreesInv, PerClient, KnownIsThere, ThereIsKnown, NotBoth,
         CreatedIsKnown, RemovedIsUnknown, Creating, Removing
<1>2. AgreesInv /\ [Next]_nvars => AgreesInv'
  <2> SUFFICES ASSUME AgreesInv, [Next]_nvars PROVE AgreesInv'
    OBVIOUS
  <2>1. ASSUME NEW c \in Clients, NEW x \in Names, Walk(c, x) PROVE AgreesInv'
    BY <2>1, OtherSteps DEF Walk
  <2>2. ASSUME NEW c \in Clients, Clunk(c) \/ ReadCached(c) PROVE AgreesInv'
    BY <2>2, OtherSteps DEF Clunk, ReadCached
  <2>3. ASSUME NEW c \in Clients,
               ReadCheck(c) \/ ReadServe(c) \/ WriteServe(c) \/ WriteStore(c)
        PROVE AgreesInv'
    <3>1. UNCHANGED <<known, refused, raced, children, name>>
      BY <2>3 DEF ReadCheck, ReadServe, WriteServe, WriteStore
    <3>2. /\ pc[c] \notin {"created", "unlinked"}
          /\ \E label \in {"idle", "read", "answered"} : GoTo(c, label)
      BY <2>3 DEF ReadCheck, ReadServe, WriteServe, WriteStore
    <3> QED BY <3>1, <3>2, OtherSteps
  <2>4. CASE UNCHANGED nvars
    <3>1. UNCHANGED <<known, refused, raced, children, name, pc>>
      BY <2>4 DEF nvars
    <3> QED BY <3>1
         DEF AgreesInv, PerClient, KnownIsThere, ThereIsKnown, NotBoth, CreatedIsKnown,
             RemovedIsUnknown, Creating, Removing
  <2> QED BY <2>1, <2>2, <2>3, <2>4, CreateStep, AddStep, RemoveStep, DeleteStep DEF Next
<1> QED BY <1>1, <1>2, PTL DEF Spec

\* createFile and removeFile: when none is under way, the directory has the
\* files the script knows.
THEOREM DirectoryAgrees == Spec => []AgreesWithScript
<1>1. AgreesInv => AgreesWithScript
  BY DEF AgreesInv, AgreesWithScript, KnownIsThere, ThereIsKnown, Creating, Removing
<1> QED BY <1>1, AgreesCorrect, PTL

----------------------------------------------------------------------------
(* Reading *)

\* There is a node that nobody uses for a client that has none.
LEMMA FreshExists ==
  ASSUME Typed, NEW c \in Clients, fid[c] = 0
  PROVE  /\ FreshNode \in Nodes /\ FreshNode \notin Range(children)
         /\ \A d \in Clients : fid[d] # FreshNode
<1> DEFINE others == [d \in Clients \ {c} |-> fid[d]]
<1>1. /\ IsFiniteSet(DOMAIN children) /\ Cardinality(DOMAIN children) \in Nat
      /\ Cardinality(DOMAIN children) <= Cardinality(Names)
      /\ Cardinality(Names) \in Nat
  BY FiniteAssumption, FS_Subset, FS_CardinalityType DEF Typed
<1>2. /\ IsFiniteSet(Clients \ {c}) /\ Cardinality(Clients) \in Nat
      /\ Cardinality(Clients \ {c}) = Cardinality(Clients) - 1
  BY FiniteAssumption, FS_RemoveElement, FS_CardinalityType
<1>3. /\ IsFiniteSet(Range(children)) /\ Cardinality(Range(children)) \in Nat
      /\ Cardinality(Range(children)) <= Cardinality(Names)
  <2>1. children \in Surjection(DOMAIN children, Range(children))
    BY Fun_RangeProperties DEF Typed
  <2>2. /\ IsFiniteSet(Range(children))
        /\ Cardinality(Range(children)) <= Cardinality(DOMAIN children)
    BY <1>1, <2>1, FS_Surjection
  <2> QED BY <1>1, <2>2, FS_CardinalityType
<1>4. /\ IsFiniteSet(Range(others)) /\ Cardinality(Range(others)) \in Nat
      /\ Cardinality(Range(others)) <= Cardinality(Clients) - 1
  <2>1. others \in [Clients \ {c} -> Nodes \cup {0}]
    BY DEF Typed
  <2>2. others \in Surjection(Clients \ {c}, Range(others))
    BY <2>1, Fun_RangeProperties
  <2>3. /\ IsFiniteSet(Range(others))
        /\ Cardinality(Range(others)) <= Cardinality(Clients \ {c})
    BY <1>2, <2>2, FS_Surjection
  <2> QED BY <1>2, <2>3, FS_CardinalityType
<1>5. /\ IsFiniteSet(Range(children) \cup Range(others))
      /\ Cardinality(Range(children) \cup Range(others)) \in Nat
      /\ Cardinality(Range(children) \cup Range(others))
           < Cardinality(Names) + Cardinality(Clients)
  <2>1. /\ IsFiniteSet(Range(children) \cap Range(others))
        /\ Cardinality(Range(children) \cap Range(others)) \in Nat
    BY <1>3, FS_Subset, FS_CardinalityType
  <2>2. /\ IsFiniteSet(Range(children) \cup Range(others))
        /\ Cardinality(Range(children) \cup Range(others)) =
             Cardinality(Range(children)) + Cardinality(Range(others))
             - Cardinality(Range(children) \cap Range(others))
    BY <1>3, <1>4, FS_Union
  <2> QED BY <1>1, <1>2, <1>3, <1>4, <2>1, <2>2, FS_CardinalityType
<1>6. /\ IsFiniteSet(Nodes) /\ Cardinality(Nodes) = Cardinality(Names) + Cardinality(Clients)
      /\ 0 \notin Nodes
  <2> DEFINE k == Cardinality(Names) + Cardinality(Clients)
  <2>1. k \in Nat /\ k \in Int /\ 1 \in Int
    BY <1>1, <1>2
  <2>2. IsFiniteSet(1 .. k) /\ Cardinality(1 .. k) = k
    <3> HIDE DEF k
    <3> QED BY <2>1, FS_Interval
  <2> QED BY <2>1, <2>2 DEF Nodes
<1>7. ~(Nodes \subseteq Range(children) \cup Range(others))
  <2> DEFINE used == Range(children) \cup Range(others)
  <2>1. ASSUME Nodes \subseteq used PROVE Cardinality(Nodes) <= Cardinality(used)
    BY <1>5, <2>1, FS_Subset
  <2> HIDE DEF used
  <2>2. Cardinality(used) \in Nat /\ Cardinality(used) < Cardinality(Nodes)
        /\ Cardinality(Nodes) \in Nat
    BY <1>1, <1>2, <1>5, <1>6 DEF used
  <2> QED BY <2>1, <2>2 DEF used
<1>8. \A n \in Nodes : n \in Range(fid) => n \in Range(others)
  BY <1>6 DEF Range, Typed
<1>9. \E n \in Nodes : n \notin Range(children) \cup Range(fid)
  BY <1>7, <1>8
<1>10. FreshNode \in Nodes /\ FreshNode \notin Range(children) \cup Range(fid)
  BY <1>9 DEF FreshNode
<1> QED BY <1>10 DEF Range, Typed

\* What a client does that neither reads nor writes: nodes are as they were, or
\* new ones that no other client uses.
LEMMA OthersKeepNodes ==
  ASSUME CacheInv, NEW c \in Clients, Typed', HasNode', ReadsLastAnswer',
         pc[c] \notin {"read", "answered"}, pc'[c] \notin {"read", "answered"},
         \A d \in Clients \ {c} :
           pc'[d] = pc[d] /\ fid'[d] = fid[d] /\ answer'[d] = answer[d],
         \A n \in Nodes :
           \/ node'[n] = node[n]
           \/ /\ \E x : node'[n] = File(x)
              /\ \A d \in Clients \ {c} : fid[d] # n
  PROVE  CacheInv'
<1>1. \A d \in Clients, n \in Nodes : Writes(d, n)' <=> Writes(d, n)
  BY DEF Writes
<1>2. \A n \in Nodes : node'[n] # node[n] =>
        /\ node'[n].cachedData = 0 /\ node'[n].last = 0
        /\ \A d \in Clients : ~Writes(d, n)
  <2> SUFFICES ASSUME NEW n \in Nodes, node'[n] # node[n]
               PROVE  /\ node'[n].cachedData = 0 /\ node'[n].last = 0
                      /\ \A d \in Clients : ~Writes(d, n)
    OBVIOUS
  <2>1. PICK x : node'[n] = File(x)
    OBVIOUS
  <2>2. \A d \in Clients \ {c} : fid[d] # n
    OBVIOUS
  <2> QED BY <2>1, <2>2 DEF File, Writes
<1>3. \A d \in Clients, n \in Nodes : Writes(d, n) => answer'[d] = answer[d]
  BY DEF Writes
<1>4. LastComes'
  BY <1>1, <1>2, <1>3 DEF CacheInv, LastComes
<1>5. \A n \in Nodes : node'[n] = node[n] => (Settled(n)' <=> Settled(n))
  BY <1>1 DEF Settled, Writes
<1>6. CachedIsLast'
  BY <1>2, <1>5 DEF CacheInv, CachedIsLast
<1>7. FoundNothing'
  <2>1. \A d \in Clients : pc'[d] = "read" =>
          /\ pc[d] = "read" /\ answer'[d] = answer[d] /\ fid'[d] = fid[d]
          /\ fid[d] \in Nodes /\ node'[fid[d]] = node[fid[d]]
    <3> SUFFICES ASSUME NEW d \in Clients, pc'[d] = "read"
                 PROVE  /\ pc[d] = "read" /\ answer'[d] = answer[d] /\ fid'[d] = fid[d]
                        /\ fid[d] \in Nodes /\ node'[fid[d]] = node[fid[d]]
      OBVIOUS
    <3>1. d \in Clients \ {c}
      OBVIOUS
    <3>2. pc[d] = "read" /\ answer'[d] = answer[d] /\ fid'[d] = fid[d]
      BY <3>1
    <3>3. fid[d] \in Nodes
      <4>1. fid \in [Clients -> Nodes \cup {0}] /\ (pc[d] = "read" => fid[d] # 0)
        BY DEF CacheInv, Typed, HasNode
      <4> QED BY <3>2, <4>1
    <3> QED BY <3>1, <3>2, <3>3
  <2> QED BY <2>1 DEF CacheInv, FoundNothing
<1> QED BY <1>4, <1>6, <1>7 DEF CacheInv

\* A walk or a create that makes no node, and every step that leaves the nodes as
\* they are and its client neither reading nor writing.
LEMMA SameNodes ==
  ASSUME CacheInv, NEW c \in Clients, HasNode', ReadsLastAnswer',
         UNCHANGED <<children, node, answer>>,
         fid' \in [Clients -> Nodes \cup {0}], NEW label \in {"idle", "created", "unlinked"},
         pc[c] \notin {"read", "answered"}, pc' = [pc EXCEPT ![c] = label],
         \A d \in Clients \ {c} : fid'[d] = fid[d]
  PROVE  CacheInv'
<1>1. Typed'
  BY DEF CacheInv, Typed
<1>2. /\ pc'[c] \notin {"read", "answered"}
      /\ \A d \in Clients \ {c} :
           pc'[d] = pc[d] /\ fid'[d] = fid[d] /\ answer'[d] = answer[d]
  BY DEF CacheInv, Typed
<1>3. \A n \in Nodes : node'[n] = node[n]
  OBVIOUS
<1> QED BY <1>1, <1>2, <1>3, OthersKeepNodes

\* What a read finds when it finds nothing.
LEMMA NothingFound ==
  ASSUME NoRead PROVE ReadsLastAnswer'
<1>1. found'.answer = 0 /\ found'.last = 0 /\ found'.from = "nothing"
  BY DEF NoRead, Nothing
<1> QED BY <1>1 DEF ReadsLastAnswer

\* Walks.
LEMMA WalkReads ==
  ASSUME CacheInv, NEW c \in Clients, NEW x \in Names, Walk(c, x)
  PROVE  CacheInv'
<1>1. /\ pc[c] = "idle" /\ fid[c] = 0 /\ ReadsLastAnswer'
      /\ UNCHANGED <<children, pc, answer>>
  BY NothingFound DEF Walk
<1>2. CASE WalkShares(x)
  <2>1. fid' = [fid EXCEPT ![c] = children[x]] /\ UNCHANGED node
    BY <1>2 DEF Walk
  <2>2. children[x] \in Nodes
    BY <1>2 DEF WalkShares, CacheInv, Typed
  <2>3. /\ fid' \in [Clients -> Nodes \cup {0}]
        /\ \A d \in Clients \ {c} : fid'[d] = fid[d]
    BY <2>1, <2>2 DEF CacheInv, Typed
  <2>4. HasNode' /\ pc' = [pc EXCEPT ![c] = "idle"]
    BY <1>1, <2>3 DEF CacheInv, Typed, HasNode
  <2> QED BY <1>1, <2>1, <2>3, <2>4, SameNodes
<1>3. CASE ~WalkShares(x)
  <2>1. /\ fid' = [fid EXCEPT ![c] = FreshNode]
        /\ node' = [node EXCEPT ![FreshNode] = File(x)]
    BY <1>3 DEF Walk
  <2>2. FreshNode \in Nodes /\ \A d \in Clients : fid[d] # FreshNode
    BY <1>1, FreshExists DEF CacheInv
  <2>3. Typed'
    BY <1>1, <2>1, <2>2 DEF CacheInv, Typed, File
  <2>4. \A d \in Clients \ {c} :
          pc'[d] = pc[d] /\ fid'[d] = fid[d] /\ answer'[d] = answer[d]
    BY <1>1, <2>1 DEF CacheInv, Typed
  <2>5. HasNode'
    BY <1>1, <2>4 DEF CacheInv, HasNode
  <2>6. \A n \in Nodes : node'[n] = node[n] \/ (n = FreshNode /\ node'[n] = File(x))
    BY <2>1, <2>2 DEF CacheInv, Typed
  <2> QED BY <1>1, <2>2, <2>3, <2>4, <2>5, <2>6, OthersKeepNodes
<1> QED BY <1>2, <1>3

\* The nodes nobody uses any more are new ones.
LEMMA CollectedNodes ==
  ASSUME Typed, Collect, NEW c \in Clients,
         \A d \in Clients \ {c} : fid'[d] = fid[d], fid' \in [Clients -> Nodes \cup {0}]
  PROVE  /\ \A n \in Nodes :
              \/ node'[n] = node[n]
              \/ /\ \E x : node'[n] = File(x)
                 /\ \A d \in Clients \ {c} : fid[d] # n
         /\ node' \in [Nodes -> [name : Names \cup {""}, cachedData : Nat, last : Nat,
                                overlapped : BOOLEAN]]
<1>1. \A n \in Nodes : node'[n] = IF Used(n) THEN node[n] ELSE File("")
  BY DEF Collect
<1>2. \A n \in Nodes, d \in Clients \ {c} : fid[d] = n => Used(n)
  BY DEF Used, Range
<1>3. File("") \in [name : Names \cup {""}, cachedData : Nat, last : Nat, overlapped : BOOLEAN]
  BY DEF File
<1>4. node' \in [Nodes -> [name : Names \cup {""}, cachedData : Nat, last : Nat,
                          overlapped : BOOLEAN]]
  BY <1>3 DEF Collect, Typed
<1> QED BY <1>1, <1>2, <1>4

LEMMA ClunkReads ==
  ASSUME CacheInv, NEW c \in Clients, Clunk(c)
  PROVE  CacheInv'
<1>1. /\ pc[c] = "idle" /\ ReadsLastAnswer' /\ Collect
      /\ UNCHANGED <<children, pc, answer>> /\ fid' = [fid EXCEPT ![c] = 0]
  BY NothingFound DEF Clunk
<1>2. /\ fid' \in [Clients -> Nodes \cup {0}]
      /\ \A d \in Clients \ {c} :
           pc'[d] = pc[d] /\ fid'[d] = fid[d] /\ answer'[d] = answer[d]
  BY <1>1 DEF CacheInv, Typed
<1>3. HasNode'
  BY <1>1, <1>2 DEF CacheInv, HasNode
<1>4. Typed'
  BY <1>1, <1>2, CollectedNodes DEF CacheInv, Typed
<1> QED BY <1>1, <1>2, <1>3, <1>4, CollectedNodes, OthersKeepNodes DEF CacheInv

\* createFile and removeFile.
LEMMA ServeReads ==
  ASSUME CacheInv, NEW c \in Clients,
         RemoveServe(c) \/ \E x \in Names : CreateServe(c, x)
  PROVE  CacheInv'
<1>1. /\ pc[c] = "idle" /\ ReadsLastAnswer' /\ UNCHANGED <<children, node, fid, answer>>
  BY NothingFound DEF RemoveServe, CreateServe
<1>2. PICK label \in {"idle", "created", "unlinked"} :
        pc' = [pc EXCEPT ![c] = label] /\ (label = "created" => fid[c] = 0)
  BY DEF RemoveServe, CreateServe, GoTo
<1>3. fid' \in [Clients -> Nodes \cup {0}] /\ \A d \in Clients \ {c} : fid'[d] = fid[d]
  BY <1>1 DEF CacheInv, Typed
<1>4. HasNode'
  BY <1>1, <1>2 DEF CacheInv, Typed, HasNode
<1> QED BY <1>1, <1>2, <1>3, <1>4, SameNodes

LEMMA AddReads ==
  ASSUME CacheInv, PerClient, NEW c \in Clients, AddChild(c)
  PROVE  CacheInv'
<1>1. /\ pc[c] = "created" /\ fid[c] = 0 /\ ReadsLastAnswer' /\ name[c] \in Names
      /\ UNCHANGED answer /\ pc' = [pc EXCEPT ![c] = "idle"]
  BY NothingFound DEF AddChild, CacheInv, HasNode, PerClient, GoTo
<1>2. CASE name[c] \in DOMAIN children
  <2>1. UNCHANGED <<children, node, fid>>
    BY <1>2 DEF AddChild
  <2>2. HasNode'
    BY <1>1, <2>1 DEF CacheInv, Typed, HasNode
  <2>3. fid' \in [Clients -> Nodes \cup {0}]
    BY <2>1 DEF CacheInv, Typed
  <2> QED BY <1>1, <2>1, <2>2, <2>3, SameNodes
<1>3. CASE name[c] \notin DOMAIN children
  <2>1. /\ children' = [y \in DOMAIN children \cup {name[c]} |->
                          IF y = name[c] THEN FreshNode ELSE children[y]]
        /\ fid' = [fid EXCEPT ![c] = FreshNode]
        /\ node' = [node EXCEPT ![FreshNode] = File(name[c])]
    BY <1>3 DEF AddChild
  <2>2. FreshNode \in Nodes /\ \A d \in Clients : fid[d] # FreshNode
    BY <1>1, FreshExists DEF CacheInv
  <2>3. /\ fid' \in [Clients -> Nodes \cup {0}]
        /\ \A d \in Clients \ {c} :
             pc'[d] = pc[d] /\ fid'[d] = fid[d] /\ answer'[d] = answer[d]
    BY <1>1, <2>1, <2>2 DEF CacheInv, Typed
  <2>4. Typed'
    <3>1. DOMAIN children' \subseteq Names /\ children' \in [DOMAIN children' -> Nodes]
      BY <1>1, <2>1, <2>2 DEF CacheInv, Typed
    <3>2. node' \in [Nodes -> [name : Names \cup {""}, cachedData : Nat, last : Nat,
                              overlapped : BOOLEAN]]
      BY <1>1, <2>1, <2>2 DEF CacheInv, Typed, File
    <3> QED BY <1>1, <2>3, <3>1, <3>2 DEF CacheInv, Typed
  <2>5. HasNode'
    BY <1>1, <2>3 DEF CacheInv, Typed, HasNode
  <2>6. \A n \in Nodes : node'[n] = node[n] \/ (n = FreshNode /\ node'[n] = File(name[c]))
    BY <2>1, <2>2 DEF CacheInv, Typed
  <2>7. pc'[c] \notin {"read", "answered"}
    BY <1>1 DEF CacheInv, Typed
  <2> QED BY <1>1, <2>2, <2>3, <2>4, <2>5, <2>6, <2>7, OthersKeepNodes
<1> QED BY <1>2, <1>3

LEMMA DeleteReads ==
  ASSUME CacheInv, NEW c \in Clients, DeleteChild(c)
  PROVE  CacheInv'
<1>1. /\ pc[c] = "unlinked" /\ ReadsLastAnswer' /\ Collect /\ UNCHANGED answer
      /\ fid' = [fid EXCEPT ![c] = 0] /\ pc' = [pc EXCEPT ![c] = "idle"]
      /\ children' = Restrict(children, DOMAIN children \ {name[c]})
  BY NothingFound DEF DeleteChild, GoTo
<1>2. /\ fid' \in [Clients -> Nodes \cup {0}] /\ pc'[c] = "idle"
      /\ \A d \in Clients \ {c} :
           pc'[d] = pc[d] /\ fid'[d] = fid[d] /\ answer'[d] = answer[d]
  BY <1>1 DEF CacheInv, Typed
<1>3. HasNode'
  BY <1>1, <1>2 DEF CacheInv, HasNode
<1>4. Typed'
  <2>1. DOMAIN children' \subseteq Names /\ children' \in [DOMAIN children' -> Nodes]
    BY <1>1 DEF CacheInv, Typed, Restrict
  <2> QED BY <1>1, <1>2, <2>1, CollectedNodes DEF CacheInv, Typed
<1> QED BY <1>1, <1>2, <1>3, <1>4, CollectedNodes, OthersKeepNodes DEF CacheInv

\* Read: what is cached is the last answer, and nothing cached is the empty one.
LEMMA ExpectedCached ==
  ASSUME CacheInv, NEW n \in Nodes, node[n].name \notin ReadHandled
  PROVE  Expected(n) = node[n].cachedData
BY DEF Expected, CacheInv, CachedIsLast

LEMMA CacheReads ==
  ASSUME CacheInv, NEW c \in Clients, ReadCached(c)
  PROVE  CacheInv'
<1> DEFINE n == fid[c]
<1>1. /\ pc[c] = "idle" /\ n \in Nodes /\ node[n].cachedData # 0
      /\ UNCHANGED <<children, node, fid, pc, answer>>
      /\ found' = [name |-> node[n].name, from |-> "cache",
                   answer |-> node[n].cachedData, last |-> Expected(n)]
  BY DEF ReadCached, CacheInv, Typed
<1>2. node[n].name \notin ReadHandled
  BY <1>1 DEF CacheInv, CachedIsLast
<1>3. ReadsLastAnswer'
  BY <1>1, <1>2, ExpectedCached DEF ReadsLastAnswer
<1>4. HasNode' /\ pc' = [pc EXCEPT ![c] = "idle"] /\ fid' \in [Clients -> Nodes \cup {0}]
  BY <1>1 DEF CacheInv, Typed, HasNode
<1> QED BY <1>1, <1>3, <1>4, SameNodes

\* A read that finds nothing cached, before and after its handler.
LEMMA HandlerReads ==
  ASSUME CacheInv, NEW c \in Clients, ReadCheck(c) \/ ReadServe(c)
  PROVE  CacheInv'
<1>1. UNCHANGED <<children, node, fid>> /\ pc[c] \in {"idle", "read"} /\ fid[c] \in Nodes
  BY DEF ReadCheck, ReadServe, CacheInv, Typed, HasNode
<1>2. /\ \A n \in Nodes : node[n].name \notin ReadHandled => Expected(n) = node[n].cachedData
      /\ Expected(fid[c]) \in Nat
  BY <1>1, ExpectedCached DEF Expected, CacheInv, Typed
<1>3. /\ \E label \in {"idle", "read"} : pc' = [pc EXCEPT ![c] = label]
      /\ \E a \in Nat : answer' = [answer EXCEPT ![c] = a]
  BY <1>2 DEF ReadCheck, ReadServe, GoTo
<1>4. /\ pc'[c] \in {"idle", "read"}
      /\ \A d \in Clients \ {c} : pc'[d] = pc[d] /\ answer'[d] = answer[d]
  BY <1>3 DEF CacheInv, Typed
<1>5. Typed'
  BY <1>1, <1>3 DEF CacheInv, Typed
<1>6. HasNode'
  <2>1. fid'[c] # 0
    BY <1>1 DEF Nodes
  <2>2. \A d \in Clients \ {c} : fid'[d] = fid[d] /\ pc'[d] = pc[d]
    BY <1>1, <1>4
  <2> QED BY <1>4, <2>1, <2>2 DEF CacheInv, HasNode
<1>7. \A d \in Clients, n \in Nodes :
        /\ Writes(d, n)' <=> Writes(d, n)
        /\ Writes(d, n) => answer'[d] = answer[d]
  BY <1>1, <1>4 DEF Writes
<1>8. LastComes'
  BY <1>1, <1>7 DEF CacheInv, LastComes
<1>9. \A n \in Nodes : Settled(n)' <=> Settled(n)
  BY <1>1, <1>7 DEF Settled, Writes
<1>10. CachedIsLast'
  BY <1>1, <1>9 DEF CacheInv, CachedIsLast
<1>11. FoundNothing'
  <2>1. ASSUME pc'[c] = "read", node[fid[c]].name \notin ReadHandled PROVE answer'[c] = 0
    <3>1. ReadCheck(c)
      BY <2>1 DEF ReadServe, GoTo, CacheInv, Typed
    <3> QED BY <1>1, <1>2, <2>1, <3>1 DEF ReadCheck, CacheInv, Typed
  <2> QED BY <1>1, <1>4, <2>1 DEF CacheInv, FoundNothing
<1>12. ReadsLastAnswer'
  <2>1. CASE ReadCheck(c)
    BY <2>1, NothingFound DEF ReadCheck
  <2>2. CASE ReadServe(c)
    <3>1. /\ pc[c] = "read" /\ found'.name = node[fid[c]].name /\ found'.answer = 0
          /\ found'.last = answer[c] /\ found'.from # "cache"
      BY <2>2 DEF ReadServe
    <3>2. node[fid[c]].name \notin ReadHandled => answer[c] = 0
      BY <3>1 DEF CacheInv, FoundNothing
    <3> QED BY <3>1, <3>2 DEF ReadsLastAnswer
  <2> QED BY <2>1, <2>2
<1> QED BY <1>5, <1>6, <1>8, <1>10, <1>11, <1>12 DEF CacheInv

\* Write: the handler's answer is the last one, and is alone on its way if no other
\* write to the node is.
LEMMA AnswerReads ==
  ASSUME CacheInv, NEW c \in Clients, WriteServe(c)
  PROVE  CacheInv'
<1> DEFINE n == fid[c]
           others == \E d \in Clients \ {c} : fid[d] = n /\ pc[d] = "answered"
<1>1. /\ pc[c] = "idle" /\ n \in Nodes /\ UNCHANGED <<children, fid>> /\ ReadsLastAnswer'
      /\ pc' = [pc EXCEPT ![c] = "answered"]
  BY NothingFound DEF WriteServe, GoTo, CacheInv, Typed
<1>2. PICK a \in Nat : /\ answer' = [answer EXCEPT ![c] = a]
                      /\ node' = [node EXCEPT ![n].last = a, ![n].overlapped = others]
  BY AnswersAssumption DEF WriteServe
<1>3. /\ pc'[c] = "answered" /\ answer'[c] = a
      /\ \A d \in Clients \ {c} : pc'[d] = pc[d] /\ answer'[d] = answer[d]
  BY <1>1, <1>2 DEF CacheInv, Typed
<1>4. /\ node'[n].name = node[n].name /\ node'[n].cachedData = node[n].cachedData
      /\ node'[n].last = a /\ node'[n].overlapped = others
      /\ \A m \in Nodes \ {n} : node'[m] = node[m]
  <2>1. /\ DOMAIN node = Nodes
        /\ DOMAIN node[n] = {"name", "cachedData", "last", "overlapped"}
    BY <1>1 DEF CacheInv, Typed
  <2> HIDE DEF others
  <2> QED BY <1>1, <1>2, <2>1
<1>5. Typed'
  <2>1. others \in BOOLEAN
    OBVIOUS
  <2>2. node' \in [Nodes -> [name : Names \cup {""}, cachedData : Nat, last : Nat,
                            overlapped : BOOLEAN]]
    <3>1. node \in [Nodes -> [name : Names \cup {""}, cachedData : Nat, last : Nat,
                             overlapped : BOOLEAN]]
      BY DEF CacheInv, Typed
    <3> HIDE DEF others
    <3> QED BY <1>1, <1>2, <2>1, <3>1
  <2> QED BY <1>1, <1>2, <2>2 DEF CacheInv, Typed
<1>6. HasNode'
  <2>1. fid'[c] # 0
    BY <1>1 DEF Nodes
  <2>2. \A d \in Clients \ {c} : fid'[d] = fid[d] /\ pc'[d] = pc[d]
    BY <1>1, <1>3
  <2> QED BY <1>3, <2>1, <2>2 DEF CacheInv, HasNode
<1>7. /\ \A d \in Clients \ {c}, m \in Nodes : Writes(d, m)' <=> Writes(d, m)
      /\ \A m \in Nodes : Writes(c, m)' <=> m = n
      /\ \A m \in Nodes : ~Writes(c, m)
  BY <1>1, <1>3 DEF Writes
<1>8. LastComes'
  <2> SUFFICES ASSUME NEW m \in Nodes, ~node'[m].overlapped
               PROVE  /\ \A d, e \in Clients : Writes(d, m)' /\ Writes(e, m)' => d = e
                      /\ \A d \in Clients : Writes(d, m)' => answer'[d] = node'[m].last
    BY DEF LastComes
  <2>1. CASE m = n
    <3>1. \A d \in Clients \ {c} : ~Writes(d, m)
      BY <1>4, <2>1 DEF Writes
    <3> QED BY <1>3, <1>4, <1>7, <2>1, <3>1
  <2>2. CASE m # n
    <3>1. node'[m] = node[m] /\ \A d \in Clients : Writes(d, m)' <=> d # c /\ Writes(d, m)
      BY <1>4, <1>7, <2>2
    <3> QED BY <1>3, <3>1 DEF CacheInv, LastComes
  <2> QED BY <2>1, <2>2
<1>9. CachedIsLast'
  <2> SUFFICES ASSUME NEW m \in Nodes
               PROVE  /\ node'[m].cachedData # 0 => node'[m].name \notin ReadHandled
                      /\ Settled(m)' /\ node'[m].name \notin ReadHandled
                           => node'[m].cachedData = node'[m].last
    BY DEF CachedIsLast
  <2>1. CASE m = n
    <3>1. ~Settled(m)'
      BY <1>1, <1>3, <2>1 DEF Settled
    <3> QED BY <1>4, <2>1, <3>1 DEF CacheInv, CachedIsLast
  <2>2. CASE m # n
    <3>1. node'[m] = node[m] /\ (Settled(m)' => Settled(m))
      BY <1>4, <1>7, <2>2 DEF Settled, Writes
    <3> QED BY <3>1 DEF CacheInv, CachedIsLast
  <2> QED BY <2>1, <2>2
<1>10. FoundNothing'
  <2>1. \A d \in Clients : pc'[d] = "read" =>
          /\ pc[d] = "read" /\ answer'[d] = answer[d] /\ fid'[d] = fid[d] /\ fid[d] \in Nodes
    BY <1>1, <1>3 DEF CacheInv, Typed, HasNode
  <2>2. \A m \in Nodes : node'[m].name = node[m].name
    BY <1>4
  <2> QED BY <2>1, <2>2 DEF CacheInv, FoundNothing
<1> QED BY <1>1, <1>5, <1>6, <1>8, <1>9, <1>10 DEF CacheInv

\* It is cached where there is no read handler.
LEMMA StoreReads ==
  ASSUME CacheInv, NEW c \in Clients, WriteStore(c)
  PROVE  CacheInv'
<1> DEFINE n == fid[c]
           stored == IF node[n].name \notin ReadHandled THEN answer[c]
                                                        ELSE node[n].cachedData
<1>1. /\ pc[c] = "answered" /\ n \in Nodes /\ UNCHANGED <<children, fid>> /\ ReadsLastAnswer'
      /\ pc' = [pc EXCEPT ![c] = "idle"] /\ answer' = [answer EXCEPT ![c] = 0]
      /\ node' = [node EXCEPT ![n].cachedData = stored]
  BY NothingFound DEF WriteStore, GoTo, Caches, CacheInv, Typed, HasNode
<1>2. /\ pc'[c] = "idle"
      /\ \A d \in Clients \ {c} : pc'[d] = pc[d] /\ answer'[d] = answer[d]
  BY <1>1 DEF CacheInv, Typed
<1>3. /\ node'[n].name = node[n].name /\ node'[n].cachedData = stored
      /\ node'[n].last = node[n].last /\ node'[n].overlapped = node[n].overlapped
      /\ \A m \in Nodes \ {n} : node'[m] = node[m]
  <2>1. /\ DOMAIN node = Nodes
        /\ DOMAIN node[n] = {"name", "cachedData", "last", "overlapped"}
    BY <1>1 DEF CacheInv, Typed
  <2> HIDE DEF stored
  <2> QED BY <1>1, <2>1
<1>4. Typed'
  <2>1. stored \in Nat
    BY <1>1 DEF CacheInv, Typed
  <2>2. node' \in [Nodes -> [name : Names \cup {""}, cachedData : Nat, last : Nat,
                            overlapped : BOOLEAN]]
    <3> HIDE DEF stored
    <3> QED BY <1>1, <2>1 DEF CacheInv, Typed
  <2> QED BY <1>1, <2>2 DEF CacheInv, Typed
<1>5. HasNode'
  BY <1>1, <1>2 DEF CacheInv, Typed, HasNode
<1>6. /\ \A d \in Clients \ {c}, m \in Nodes : Writes(d, m)' <=> Writes(d, m)
      /\ \A m \in Nodes : ~Writes(c, m)'
      /\ \A m \in Nodes : Writes(c, m) <=> m = n
  BY <1>1, <1>2 DEF Writes
<1>7. LastComes'
  BY <1>2, <1>3, <1>6 DEF CacheInv, LastComes
<1>8. CachedIsLast'
  <2> SUFFICES ASSUME NEW m \in Nodes
               PROVE  /\ node'[m].cachedData # 0 => node'[m].name \notin ReadHandled
                      /\ Settled(m)' /\ node'[m].name \notin ReadHandled
                           => node'[m].cachedData = node'[m].last
    BY DEF CachedIsLast
  <2>1. CASE m = n
    <3>1. Settled(m)' => answer[c] = node[n].last
      BY <1>1, <1>3, <1>6, <2>1 DEF Settled, CacheInv, LastComes
    <3> QED BY <1>3, <2>1, <3>1 DEF CacheInv, CachedIsLast
  <2>2. CASE m # n
    <3>1. node'[m] = node[m] /\ (Settled(m)' => Settled(m))
      BY <1>3, <1>6, <2>2 DEF Settled, Writes
    <3> QED BY <3>1 DEF CacheInv, CachedIsLast
  <2> QED BY <2>1, <2>2
<1>9. FoundNothing'
  <2>1. \A d \in Clients : pc'[d] = "read" =>
          /\ pc[d] = "read" /\ answer'[d] = answer[d] /\ fid'[d] = fid[d] /\ fid[d] \in Nodes
    BY <1>1, <1>2 DEF CacheInv, Typed, HasNode
  <2>2. \A m \in Nodes : node'[m].name = node[m].name
    BY <1>3
  <2> QED BY <2>1, <2>2 DEF CacheInv, FoundNothing
<1> QED BY <1>1, <1>4, <1>5, <1>7, <1>8, <1>9 DEF CacheInv

\* The invariant of the caches of a directory's files.
THEOREM CachesCorrect == Spec => []CacheInv
<1>1. Init => CacheInv
  <2> SUFFICES ASSUME Init PROVE CacheInv
    OBVIOUS
  <2>1. /\ children \in [Literals -> Nodes] /\ DOMAIN children \subseteq Names
        /\ pc = [c \in Clients |-> "idle"] /\ fid = [c \in Clients |-> 0]
        /\ answer = [c \in Clients |-> 0] /\ found = Nothing
    BY BuiltTyped, NamesAssumption DEF Init
  <2>2. \A n \in Nodes : \E x \in Literals \cup {""} : node[n] = File(x)
    BY DEF Init
  <2>3. \A x \in Literals \cup {""} :
          /\ File(x) \in [name : Names \cup {""}, cachedData : Nat, last : Nat,
                          overlapped : BOOLEAN]
          /\ File(x).cachedData = 0 /\ File(x).last = 0
    BY NamesAssumption DEF File
  <2>4. node \in [Nodes -> [name : Names \cup {""}, cachedData : Nat, last : Nat,
                           overlapped : BOOLEAN]]
    <3> DEFINE R == [name : Names \cup {""}, cachedData : Nat, last : Nat,
                     overlapped : BOOLEAN]
    <3>1. \A n \in Nodes : node[n] \in R
      BY <2>2, <2>3
    <3>2. node = [n \in Nodes |-> node[n]]
      BY DEF Init
    <3> HIDE DEF R
    <3>3. node \in [Nodes -> R]
      BY <3>1, <3>2
    <3> QED BY <3>3 DEF R
  <2>5. Typed /\ HasNode
    BY <2>1, <2>4 DEF Typed, HasNode
  <2>6. LastComes /\ FoundNothing
    BY <2>1 DEF LastComes, Writes, FoundNothing
  <2>7. CachedIsLast
    <3>1. \A n \in Nodes : node[n].cachedData = 0 /\ node[n].last = 0
      <4>1. \A x : File(x).cachedData = 0 /\ File(x).last = 0
        BY DEF File
      <4> HIDE DEF File
      <4> QED BY <2>2, <4>1
    <3> QED BY <3>1 DEF CachedIsLast
  <2>8. ReadsLastAnswer
    <3>1. found.answer = 0 /\ found.last = 0 /\ found.from = "nothing"
      BY <2>1 DEF Nothing
    <3> QED BY <3>1 DEF ReadsLastAnswer
  <2> QED BY <2>5, <2>6, <2>7, <2>8 DEF CacheInv
<1>2. AgreesInv /\ CacheInv /\ [Next]_nvars => CacheInv'
  <2> SUFFICES ASSUME AgreesInv, CacheInv, [Next]_nvars PROVE CacheInv'
    OBVIOUS
  <2>1. ASSUME NEW c \in Clients, NEW x \in Names, Walk(c, x) \/ CreateServe(c, x)
        PROVE  CacheInv'
    BY <2>1, WalkReads, ServeReads
  <2>2. ASSUME NEW c \in Clients,
               \/ Clunk(c) \/ AddChild(c) \/ RemoveServe(c) \/ DeleteChild(c)
        PROVE  CacheInv'
    BY <2>2, ClunkReads, AddReads, ServeReads, DeleteReads DEF AgreesInv
  <2>3. ASSUME NEW c \in Clients,
               \/ ReadCached(c) \/ ReadCheck(c) \/ ReadServe(c)
               \/ WriteServe(c) \/ WriteStore(c)
        PROVE  CacheInv'
    BY <2>3, CacheReads, HandlerReads, AnswerReads, StoreReads
  <2>4. CASE UNCHANGED nvars
    <3>1. UNCHANGED <<children, node, fid, pc, answer, found>>
      BY <2>4 DEF nvars
    <3>2. Typed' /\ HasNode' /\ FoundNothing' /\ ReadsLastAnswer'
      BY <3>1 DEF CacheInv, Typed, HasNode, FoundNothing, ReadsLastAnswer
    <3>3. LastComes' /\ CachedIsLast'
      BY <3>1 DEF CacheInv, LastComes, Writes, CachedIsLast, Settled
    <3> QED BY <3>2, <3>3 DEF CacheInv
  <2> QED BY <2>1, <2>2, <2>3, <2>4 DEF Next
<1> QED BY <1>1, <1>2, AgreesCorrect, PTL DEF Spec

\* A file without read handler reads as the answer of the last write to its node,
\* whichever client wrote, unless writes overlapped.
THEOREM ReadsAreLastAnswers == Spec => []ReadsLastAnswer
<1>1. CacheInv => ReadsLastAnswer
  BY DEF CacheInv
<1> QED BY <1>1, CachesCorrect, PTL
=============================================================================
