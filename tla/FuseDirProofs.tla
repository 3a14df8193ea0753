--------------------------- MODULE FuseDirProofs ---------------------------
(***************************************************************************)
(* Proofs about FuseDir, for every set of goroutines, directory nodes and  *)
(* names: what lookups of a name are told never changes, rests on what the *)
(* script listed or the tree has, and agrees with listings of the moment.  *)
(***************************************************************************)
EXTENDS FuseDir, TLAPS

\* The type invariant is inductive with Asked, which says whose lock is taken.
LEMMA TypeStep == TypeOK /\ Asked /\ [Next]_dvars => TypeOK'
<1> SUFFICES ASSUME TypeOK, Asked, [Next]_dvars PROVE TypeOK'
  OBVIOUS
<1> USE NamesAssumption DEF TypeOK, Asked
<1>1. ASSUME NEW p \in Procs, Serves(p) PROVE TypeOK'
  <2> DEFINE n == NodeOf(p)
  <2>1. Serves(p) => pc[p] # "idle"
    BY DEF Serves, FirstLook, TakeLock, LookAgain, ServeList
  <2>2. n \in Nodes /\ NameOf(p) \in Names
    BY <1>1, <2>1
  <2>3. ASSUME NEW c \in Cache, AnswerFrom(p, c)
        PROVE /\ told' \in [Nodes -> [Names -> {"nothing", "found", "missing", "both"}]]
              /\ request' \in [Procs -> [node : Nodes \cup {"none"}, name : Names \cup {"none"}]]
              /\ pc' \in [Procs -> {"idle", "look", "lock", "second", "serve"}]
              /\ entries' \in SUBSET Names
    BY <2>2, <2>3 DEF AnswerFrom, Answer, InList, NoRequest, GoTo
  <2>4. CASE FirstLook(p)
    BY <2>2, <2>3, <2>4 DEF FirstLook, Step, GoTo, script
  <2>5. CASE TakeLock(p)
    BY <2>2, <2>5 DEF TakeLock, Step, GoTo, script
  <2>6. CASE LookAgain(p)
    BY <2>2, <2>3, <2>6 DEF LookAgain, Step, GoTo, script
  <2>7. CASE ServeList(p)
    <3>1. PICK c \in Cache : /\ AnswerFrom(p, c)
                             /\ cachedList' = [cachedList EXCEPT ![n] = c]
      BY <2>7 DEF ServeList, Cache
    <3>2. mu' = [mu EXCEPT ![n] = NoProc] /\ UNCHANGED script
      BY <2>7 DEF ServeList, Unlocked
    <3> QED BY <2>2, <2>3, <3>1, <3>2 DEF script
  <2> QED BY <1>1, <2>4, <2>5, <2>6, <2>7 DEF Serves
<1>2. ASSUME NEW p \in Procs, NEW n \in Nodes, NEW x \in Names, Lookup(p, n, x)
      PROVE TypeOK'
  <2>1. CASE x \in InTree
    <3>1. /\ told' = [told EXCEPT ![n][x] =
                         IF @ \in {"nothing", "found"} THEN "found" ELSE "both"]
          /\ request' = [request EXCEPT ![p] = NoRequest]
          /\ pc' = [pc EXCEPT ![p] = "idle"] /\ entries' = {}
      BY <1>2, <2>1 DEF Lookup, Answer, GoTo
    <3>2. told' \in [Nodes -> [Names -> {"nothing", "found", "missing", "both"}]]
      BY <3>1
    <3> QED BY <1>2, <3>1, <3>2 DEF Lookup, NoRequest, script
  <2>2. CASE x \notin InTree
    <3>1. /\ request' = [request EXCEPT ![p] = [node |-> n, name |-> x]]
          /\ pc' = [pc EXCEPT ![p] = "look"] /\ entries' = {}
          /\ UNCHANGED <<told, script, cachedList, mu>>
      BY <1>2, <2>2 DEF Lookup, GoTo
    <3>2. [node |-> n, name |-> x] \in [node : Nodes \cup {"none"}, name : Names \cup {"none"}]
      OBVIOUS
    <3> QED BY <3>1, <3>2 DEF script
  <2> QED BY <2>1, <2>2
<1>3. ASSUME NEW x \in Names, Create(x) \/ Remove(x) PROVE TypeOK'
  BY <1>3 DEF Create, Remove, Lists
<1>4. CASE ReadDirAll \/ ScriptChanges
  BY <1>4 DEF ReadDirAll, Entries, ScriptChanges, Lists, script
<1>5. CASE UNCHANGED dvars
  BY <1>5 DEF dvars, script
<1> QED BY <1>1, <1>2, <1>3, <1>4, <1>5 DEF Next

\* A lookup that asks the list of a node is told what the list says, and only
\* that lookup is.
LEMMA ToldStep ==
  ASSUME TypeOK, Asked, ToldByList, NEW p \in Procs, pc[p] # "idle",
         NEW c \in Cache, c.cached, AnswerFrom(p, c),
         cachedList[NodeOf(p)].cached => c = cachedList[NodeOf(p)],
         cachedList' = [cachedList EXCEPT ![NodeOf(p)] = c]
  PROVE  ToldByList'
<1> DEFINE n == NodeOf(p)
           x == NameOf(p)
           result == IF InList(c, x) THEN "found" ELSE "missing"
<1>1. n \in Nodes /\ x \in Names \ InTree
  BY DEF Asked
<1>2. told' = [told EXCEPT ![n][x] = IF @ \in {"nothing", result} THEN result ELSE "both"]
  BY DEF AnswerFrom, Answer
<1>3. told[n][x] \in {"nothing", result}
  BY <1>1 DEF ToldByList
<1>4. told'[n][x] = result
  BY <1>1, <1>2, <1>3 DEF TypeOK
<1>5. \A m \in Nodes, y \in Names : m # n \/ y # x => told'[m][y] = told[m][y]
  BY <1>1, <1>2 DEF TypeOK
<1>6. \A m \in Nodes : m # n => cachedList'[m] = cachedList[m]
  BY DEF TypeOK
<1>7. cachedList'[n] = c
  BY <1>1 DEF TypeOK
<1> SUFFICES ASSUME NEW m \in Nodes, NEW y \in Names, told'[m][y] # "nothing"
             PROVE IF y \in InTree THEN told'[m][y] = "found"
                   ELSE /\ cachedList'[m].cached
                        /\ told'[m][y] = IF InList(cachedList'[m], y)
                                           THEN "found" ELSE "missing"
  BY DEF ToldByList
<1>8. CASE m = n /\ y = x
  BY <1>1, <1>4, <1>7, <1>8
<1>9. CASE m = n /\ y # x
  BY <1>5, <1>7, <1>9 DEF ToldByList
<1>10. CASE m # n
  BY <1>5, <1>6, <1>10 DEF ToldByList
<1> QED BY <1>8, <1>9, <1>10

\* Each step of a goroutine in getListEntries preserves the invariant.
LEMMA ServesStep ==
  ASSUME TypeOK, DirInv, NEW p \in Procs, Serves(p)
  PROVE  DirInv'
<1> DEFINE n == NodeOf(p)
<1>1. pc[p] # "idle" /\ n \in Nodes /\ NameOf(p) \in Names \ InTree
  BY DEF Serves, FirstLook, TakeLock, LookAgain, ServeList, DirInv, Asked
<1>2. UNCHANGED script /\ entries' = {}
  BY DEF Serves, FirstLook, TakeLock, LookAgain, ServeList, AnswerFrom, Answer, Step
<1>3. ScriptWas' /\ JustListed'
  BY <1>2 DEF DirInv, ScriptWas, JustListed, script
<1>4. ASSUME NEW c \in Cache, AnswerFrom(p, c) PROVE Asked'
  BY <1>1, <1>4 DEF AnswerFrom, Answer, GoTo, DirInv, Asked, NodeOf, NameOf, TypeOK
<1>5. ASSUME NEW label, Step(p, label), UNCHANGED cachedList
      PROVE  Asked' /\ ToldByList'
  BY <1>1, <1>5 DEF Step, GoTo, DirInv, Asked, ToldByList, NodeOf, NameOf, TypeOK
<1>6. CASE FirstLook(p)
  <2>1. UNCHANGED <<cachedList, mu>> /\ pc' = [pc EXCEPT ![p] = pc'[p]]
        /\ pc'[p] \in {"idle", "lock"}
    BY <1>6 DEF FirstLook, AnswerFrom, Answer, Step, GoTo, TypeOK
  <2>2. \A q \in Procs \ {p} : request'[q] = request[q] /\ pc'[q] = pc[q]
    BY <1>6 DEF FirstLook, AnswerFrom, Answer, Step, GoTo, TypeOK
  <2>3. Locked' /\ ServesEmpty' /\ ListWas'
    BY <1>2, <2>1, <2>2 DEF DirInv, Locked, ServesEmpty, ListWas, script, NodeOf
  <2>4. CASE cachedList[n].cached
    <3>1. AnswerFrom(p, cachedList[n]) /\ cachedList[n] \in Cache
      BY <1>1, <1>6, <2>4 DEF FirstLook, TypeOK
    <3>2. cachedList' = [cachedList EXCEPT ![n] = cachedList[n]]
      BY <2>1 DEF TypeOK
    <3>3. ToldByList'
      BY <1>1, <2>4, <3>1, <3>2, ToldStep DEF DirInv
    <3> QED BY <1>3, <1>4, <2>3, <3>1, <3>3 DEF DirInv
  <2>5. CASE ~cachedList[n].cached
    BY <1>3, <1>5, <1>6, <2>1, <2>3, <2>5 DEF FirstLook, DirInv
  <2> QED BY <2>4, <2>5
<1>7. CASE TakeLock(p)
  <2>1. Step(p, "second") /\ UNCHANGED cachedList /\ mu[n] = NoProc
        /\ mu' = [mu EXCEPT ![n] = p]
    BY <1>7 DEF TakeLock
  <2>2. \A q \in Procs \ {p} : request'[q] = request[q] /\ pc'[q] = pc[q]
    BY <2>1 DEF Step, GoTo, TypeOK
  <2>3. request'[p] = request[p] /\ pc'[p] = "second"
    BY <2>1 DEF Step, GoTo, TypeOK
  <2>4. Locked'
    BY <1>1, <2>1, <2>2, <2>3, NoProcAssumption DEF DirInv, Locked, NodeOf, TypeOK
  <2>5. ServesEmpty' /\ ListWas'
    BY <1>2, <2>1, <2>2, <2>3 DEF DirInv, ServesEmpty, ListWas, script, NodeOf
  <2> QED BY <1>3, <1>5, <2>1, <2>4, <2>5 DEF DirInv
<1>8. CASE LookAgain(p)
  <2>1. UNCHANGED cachedList /\ mu[n] = p
    BY <1>8 DEF LookAgain, DirInv, Locked
  <2>2. \A q \in Procs \ {p} : request'[q] = request[q] /\ pc'[q] = pc[q]
    BY <1>8 DEF LookAgain, AnswerFrom, Answer, Step, GoTo, TypeOK
  <2>3. CASE cachedList[n].cached
    <3>1. AnswerFrom(p, cachedList[n]) /\ cachedList[n] \in Cache
          /\ mu' = [mu EXCEPT ![n] = NoProc]
      BY <1>1, <1>8, <2>3 DEF LookAgain, SecondLook, TypeOK
    <3>2. cachedList' = [cachedList EXCEPT ![n] = cachedList[n]]
      BY <2>1 DEF TypeOK
    <3>3. ToldByList'
      BY <1>1, <2>3, <3>1, <3>2, ToldStep DEF DirInv
    <3>4. pc'[p] = "idle"
      BY <3>1 DEF AnswerFrom, Answer, GoTo, TypeOK
    <3>5. Locked'
      BY <1>1, <2>1, <2>2, <3>1, <3>4 DEF DirInv, Locked, NodeOf, TypeOK
    <3>6. ServesEmpty' /\ ListWas'
      BY <1>2, <2>1, <2>2, <3>4 DEF DirInv, ServesEmpty, ListWas, script, NodeOf
    <3> QED BY <1>3, <1>4, <3>1, <3>3, <3>5, <3>6 DEF DirInv
  <2>4. CASE ~cachedList[n].cached
    <3>1. Step(p, "serve") /\ UNCHANGED mu
      BY <1>8, <2>4 DEF LookAgain, SecondLook
    <3>2. request'[p] = request[p] /\ pc'[p] = "serve"
      BY <3>1 DEF Step, GoTo, TypeOK
    <3>3. Locked' /\ ServesEmpty' /\ ListWas'
      BY <1>2, <2>1, <2>2, <2>4, <3>1, <3>2
         DEF DirInv, Locked, ServesEmpty, ListWas, script, NodeOf
    <3> QED BY <1>3, <1>5, <2>1, <3>1, <3>3 DEF DirInv
  <2> QED BY <2>3, <2>4
<1>9. CASE ServeList(p)
  <2> DEFINE c == [names |-> IF failing THEN {} ELSE listed, err |-> failing,
                   cached |-> TRUE]
  <2>1. AnswerFrom(p, c) /\ c \in Cache /\ mu' = [mu EXCEPT ![n] = NoProc]
        /\ cachedList' = [cachedList EXCEPT ![n] = c]
    BY <1>9 DEF ServeList, Unlocked, TypeOK, Cache
  <2>2. mu[n] = p /\ ~cachedList[n].cached
    BY <1>9 DEF ServeList, DirInv, Locked, ServesEmpty
  <2>3. \A q \in Procs \ {p} : request'[q] = request[q] /\ pc'[q] = pc[q]
    BY <2>1 DEF AnswerFrom, Answer, GoTo, TypeOK
  <2>4. pc'[p] = "idle"
    BY <2>1 DEF AnswerFrom, Answer, GoTo, TypeOK
  <2>5. ToldByList'
    BY <1>1, <2>1, <2>2, ToldStep DEF DirInv
  <2>6. Locked'
    BY <1>1, <2>1, <2>2, <2>3, <2>4 DEF DirInv, Locked, NodeOf, TypeOK
  <2>7. \A q \in Procs \ {p} : pc[q] = "serve" => NodeOf(q) # n
    BY <2>2 DEF DirInv, Locked
  <2>8. ServesEmpty'
    BY <1>1, <2>1, <2>3, <2>4, <2>7 DEF DirInv, ServesEmpty, NodeOf, TypeOK
  <2>9. ListWas'
    BY <1>1, <1>2, <2>1 DEF DirInv, ListWas, ScriptWas, script, TypeOK
  <2> QED BY <1>3, <1>4, <2>1, <2>5, <2>6, <2>8, <2>9 DEF DirInv
<1> QED BY <1>6, <1>7, <1>8, <1>9 DEF Serves

\* A lookup that begins either has its answer in the tree or goes to the list.
LEMMA LookupStep ==
  ASSUME TypeOK, DirInv, NEW p \in Procs, NEW n \in Nodes, NEW x \in Names,
         Lookup(p, n, x)
  PROVE  DirInv'
<1>1. UNCHANGED <<script, cachedList, mu>> /\ entries' = {} /\ pc[p] = "idle"
  BY DEF Lookup, Answer
<1>2. \A q \in Procs \ {p} : request'[q] = request[q] /\ pc'[q] = pc[q]
  BY DEF Lookup, Answer, GoTo, TypeOK
<1>3. pc'[p] \in {"idle", "look"}
  BY DEF Lookup, Answer, GoTo, TypeOK
<1>4. pc'[p] = "look" => request'[p] = [node |-> n, name |-> x] /\ x \notin InTree
  BY DEF Lookup, Answer, GoTo, TypeOK
<1>5. Asked'
  BY <1>2, <1>3, <1>4 DEF DirInv, Asked, NodeOf, NameOf
<1>6. Locked' /\ ServesEmpty' /\ ScriptWas' /\ ListWas' /\ JustListed'
  BY <1>1, <1>2, <1>3
     DEF DirInv, Locked, ServesEmpty, ScriptWas, ListWas, JustListed, script, NodeOf
<1>7. CASE x \in InTree
  <2>1. told' = [told EXCEPT ![n][x] = IF @ \in {"nothing", "found"} THEN "found" ELSE "both"]
    BY <1>7 DEF Lookup, Answer
  <2>2. told'[n][x] = "found"
    BY <1>7, <2>1 DEF DirInv, ToldByList, TypeOK
  <2>3. \A m \in Nodes, y \in Names : m # n \/ y # x => told'[m][y] = told[m][y]
    BY <2>1 DEF TypeOK
  <2>4. ToldByList'
    BY <1>1, <1>7, <2>2, <2>3 DEF DirInv, ToldByList
  <2> QED BY <1>5, <1>6, <2>4 DEF DirInv
<1>8. CASE x \notin InTree
  <2>1. UNCHANGED told
    BY <1>8 DEF Lookup
  <2>2. ToldByList'
    BY <1>1, <2>1 DEF DirInv, ToldByList
  <2> QED BY <1>5, <1>6, <2>2 DEF DirInv
<1> QED BY <1>7, <1>8

\* The invariant behind the theorems, for the whole next-state relation.
THEOREM DirCorrect == Spec => [](TypeOK /\ DirInv)
<1>1. Init => TypeOK /\ DirInv
  BY NamesAssumption
     DEF Init, TypeOK, Cache, NotCached, NoRequest, DirInv, Asked, Locked,
         ServesEmpty, ScriptWas, ListWas, ToldByList, JustListed
<1>2. TypeOK /\ DirInv /\ [Next]_dvars => (TypeOK /\ DirInv)'
  <2> SUFFICES ASSUME TypeOK, DirInv, [Next]_dvars PROVE TypeOK' /\ DirInv'
    OBVIOUS
  <2>1. TypeOK'
    BY TypeStep DEF DirInv
  <2>2. ASSUME NEW p \in Procs, Serves(p) PROVE DirInv'
    BY <2>2, ServesStep
  <2>3. ASSUME NEW p \in Procs, NEW n \in Nodes, NEW x \in Names, Lookup(p, n, x)
        PROVE DirInv'
    BY <2>3, LookupStep
  <2>4. ASSUME NEW names \in SUBSET Names, NEW fails \in BOOLEAN, Lists(names, fails),
               entries' = {}, UNCHANGED <<cachedList, mu, pc, request, told>>
        PROVE DirInv'
    BY <2>4 DEF DirInv, Asked, Locked, ServesEmpty, ScriptWas, ListWas, ToldByList,
                JustListed, Lists, NodeOf, NameOf, TypeOK
  <2>5. ASSUME NEW x \in Names, Create(x) \/ Remove(x) PROVE DirInv'
    <3>1. listed \cup {x} \in SUBSET Names /\ listed \ {x} \in SUBSET Names
          /\ failing \in BOOLEAN
      BY DEF TypeOK
    <3> QED BY <2>4, <2>5, <3>1 DEF Create, Remove
  <2>6. CASE ScriptChanges
    <3>1. listed \in SUBSET Names /\ (~failing) \in BOOLEAN
      BY DEF TypeOK
    <3> QED BY <2>1, <2>4, <2>6, <3>1 DEF ScriptChanges
  <2>7. ASSUME UNCHANGED <<script, cachedList, mu, pc, request, told>>, JustListed'
        PROVE DirInv'
    <3>1. Asked' /\ Locked' /\ ServesEmpty' /\ ScriptWas' /\ ListWas'
      BY <2>7 DEF DirInv, Asked, Locked, ServesEmpty, ScriptWas, ListWas, script,
                  NodeOf, NameOf
    <3>2. ToldByList'
      BY <2>7 DEF DirInv, ToldByList
    <3> QED BY <2>7, <3>1, <3>2 DEF DirInv
  <2>8. CASE ReadDirAll
    <3>1. UNCHANGED <<script, cachedList, mu, pc, request, told>> /\ JustListed'
      BY <2>8 DEF ReadDirAll, JustListed, Entries, script
    <3> QED BY <2>1, <2>7, <3>1
  <2>9. CASE UNCHANGED dvars
    <3>1. UNCHANGED <<script, cachedList, mu, pc, request, told>> /\ JustListed'
      BY <2>9 DEF dvars, script, DirInv, JustListed, Entries
    <3> QED BY <2>1, <2>7, <3>1
  <2> QED BY <2>1, <2>2, <2>3, <2>5, <2>6, <2>8, <2>9
         DEF Next
<1> QED BY <1>1, <1>2, PTL DEF Spec

\* getListEntries: however many goroutines fill the list of a node at once, the
\* lookups of one name on it agree.
THEOREM AnswersAgree == Spec => []LookupsAgree
<1>1. TypeOK /\ DirInv => LookupsAgree
  <2> SUFFICES ASSUME TypeOK, DirInv, NEW n \in Nodes, NEW x \in Names
               PROVE told[n][x] # "both"
    BY DEF LookupsAgree
  <2>1. told[n][x] # "nothing" => told[n][x] \in {"found", "missing"}
    BY DEF DirInv, ToldByList
  <2> QED BY <2>1
<1> QED BY <1>1, DirCorrect, PTL

\* Lookup: what is found was listed or is in the tree, what is missing was once
\* omitted or lost to an error.
THEOREM AnswersFounded == Spec => []AnswersAreFounded
<1>1. TypeOK /\ DirInv => AnswersAreFounded
  BY DEF AnswersAreFounded, DirInv, ToldByList, ListWas, InList, TypeOK
<1> QED BY <1>1, DirCorrect, PTL

\* ReadDirAll and Lookup agree about a list that is what the script lists.
THEOREM ListingsFound == Spec => []ListedIsFound
<1>1. TypeOK /\ DirInv => ListedIsFound
  <2> SUFFICES ASSUME TypeOK, DirInv, NEW n \in Nodes, NEW x \in entries, Current(n),
                      told[n][x] = "missing"
               PROVE x \in Children \ InTree
    BY DEF ListedIsFound
  <2>1. x \in Names /\ x \notin InTree /\ ~InList(cachedList[n], x)
    BY DEF DirInv, ToldByList, TypeOK
  <2>2. failing \/ x \notin listed
    BY <2>1 DEF Current, InList
  <2>3. x \in Entries
    BY DEF DirInv, JustListed
  <2> QED BY <2>1, <2>2, <2>3 DEF Entries
<1> QED BY <1>1, DirCorrect, PTL
=============================================================================
