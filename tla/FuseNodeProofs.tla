-------------------------- MODULE FuseNodeProofs ---------------------------
(***************************************************************************)
(* Proofs about FuseNode, for every set of goroutines, nodes, lengths and  *)
(* kernel operations and every bound on the handler's runs.                *)
(***************************************************************************)
EXTENDS FuseNode, TLAPS

\* Where a goroutine goes on after fetchData.
LEMMA AfterFetchLabel ==
  ASSUME NEW p
  PROVE  AfterFetch(p) \in Labels
BY DEF AfterFetch, Labels

\* The type invariant is inductive by itself.
LEMMA TypeStep == TypeOK /\ [Next]_vars => TypeOK'
<1> SUFFICES ASSUME TypeOK, [Next]_vars PROVE TypeOK'
  OBVIOUS
<1> USE LengthsAssumption, OpsAssumption
    DEF TypeOK, GoTo, cache, request, result, Content, Empty, Labels
<1>1. ASSUME NEW p \in Procs, NEW n \in Nodes, NEW o \in Ops, Begin(p, n, o)
      PROVE TypeOK'
  <2>1. FirstStep(o) \in Labels
    BY DEF FirstStep
  <2> QED BY <1>1, <2>1 DEF Begin
<1>2. ASSUME NEW p \in Procs, FetchCheck(p) PROVE TypeOK'
  <2>1. CASE Cached(node[p])
    <3>1. /\ got' = [got EXCEPT ![p] = data[node[p]]]
          /\ fail' = [fail EXCEPT ![p] = err[node[p]]]
          /\ UNCHANGED <<routes, file, cache, lock, request, asize, floor>>
      BY <1>2, <2>1, Zenon DEF FetchCheck
    <3>2. pc' = [pc EXCEPT ![p] = AfterFetch(p)]
      BY <1>2, <2>1, Zenon DEF FetchCheck
    <3> QED BY <3>1, <3>2, AfterFetchLabel
  <2>2. CASE ~Cached(node[p])
    <3>1. UNCHANGED <<routes, file, cache, lock, request, got, fail, asize, floor>>
      BY <1>2, <2>2, Zenon DEF FetchCheck
    <3>2. pc' = [pc EXCEPT ![p] = "lock"]
      BY <1>2, <2>2, Zenon DEF FetchCheck
    <3> QED BY <3>1, <3>2
  <2> QED BY <2>1, <2>2
<1>3. ASSUME NEW p \in Procs, FetchLock(p) PROVE TypeOK'
  <2>1. CASE Cached(node[p])
    <3>1. /\ got' = [got EXCEPT ![p] = data[node[p]]]
          /\ fail' = [fail EXCEPT ![p] = err[node[p]]]
          /\ UNCHANGED <<routes, file, cache, lock, request, asize, floor>>
      BY <1>3, <2>1, Zenon DEF FetchLock, SecondLook
    <3>2. pc' = [pc EXCEPT ![p] = AfterFetch(p)]
      BY <1>3, <2>1, Zenon DEF FetchLock, SecondLook
    <3> QED BY <3>1, <3>2, AfterFetchLabel
  <2>2. CASE ~Cached(node[p])
    <3>1. lock' = [lock EXCEPT ![node[p]] = p]
      BY <1>3, <2>2, Zenon DEF FetchLock, SecondLook, Lock
    <3>2. pc' = [pc EXCEPT ![p] = "fetch"]
      BY <1>3, <2>2, Zenon DEF FetchLock, SecondLook
    <3>3. UNCHANGED <<got, fail, routes, file, cache, request, asize, floor>>
      BY <1>3, <2>2 DEF FetchLock, SecondLook, Lock
    <3> QED BY <3>1, <3>2, <3>3
  <2> QED BY <2>1, <2>2
<1>4. ASSUME NEW p \in Procs, FetchServe(p) PROVE TypeOK'
  <2>1. [data[node[p]] EXCEPT !.len = 0] \in Content
    OBVIOUS
  <2>2. got' \in [Procs -> Content]
    <3>1. CASE "read" \in routes
      BY <1>4, <3>1 DEF FetchServe
    <3>2. CASE "read" \notin routes
      BY <1>4, <2>1, <3>2 DEF FetchServe
    <3> QED BY <3>1, <3>2
  <2>3. fail' \in [Procs -> BOOLEAN]
    BY <1>4 DEF FetchServe
  <2>4. pc' \in [Procs -> Labels]
    BY <1>4 DEF FetchServe
  <2>5. UNCHANGED <<routes, file, cache, lock, request, asize, floor>>
    BY <1>4 DEF FetchServe
  <2> QED BY <2>2, <2>3, <2>4, <2>5
<1>5. ASSUME NEW p \in Procs, FetchStore(p) PROVE TypeOK'
  <2>0. got[p] \in Content /\ got[p].len \in Lengths
    OBVIOUS
  <2>1. data' \in [Nodes -> Content] /\ size' \in [Nodes -> Lengths]
    <3>1. CASE "read" \in routes /\ ~fail[p]
      BY <1>5, <2>0, <3>1 DEF FetchStore, CachedError, FetchedSize, Unlock
    <3>2. CASE ~("read" \in routes /\ ~fail[p])
      BY <1>5, <3>2 DEF FetchStore, CachedError, FetchedSize, Unlock
    <3> QED BY <3>1, <3>2
  <2>2. err' \in [Nodes -> BOOLEAN]
    BY <1>5 DEF FetchStore, CachedError, FetchedSize, Unlock
  <2>3. floor' \in [Nodes -> Nat]
    <3>1. floor' = floor \/ floor' = Establish(node[p], got[p].ver)
      BY <1>5, Zenon DEF FetchStore
    <3>2. floor \in [Nodes -> Nat] /\ node[p] \in Nodes /\ got[p].ver \in Nat
      OBVIOUS
    <3> QED BY <3>1, <3>2 DEF Establish
  <2>4. /\ lock' \in [Nodes -> Procs \cup {NoProc}]
        /\ pc' \in [Procs -> Labels]
    BY <1>5 DEF FetchStore, CachedError, FetchedSize, Unlock, AfterFetch
  <2>5. UNCHANGED <<routes, file, request, result>>
    BY <1>5 DEF FetchStore, CachedError, FetchedSize, Unlock
  <2> QED BY <2>1, <2>2, <2>3, <2>4, <2>5
<1>6. ASSUME NEW p \in Procs, ReadReply(p) PROVE TypeOK'
  BY <1>6 DEF ReadReply
<1>7. ASSUME NEW p \in Procs, AttrServe(p) PROVE TypeOK'
  <2>1. pc' \in [Procs -> Labels]
    <3>1. \E l \in Labels : pc' = [pc EXCEPT ![p] = l]
      BY <1>7, Zenon DEF AttrServe
    <3> QED BY <3>1, Zenon
  <2>2. asize' \in [Procs -> Lengths]
    BY <1>7 DEF AttrServe
  <2>3. UNCHANGED <<routes, file, cache, lock, request, got, fail, floor>>
    BY <1>7 DEF AttrServe
  <2> QED BY <2>1, <2>2, <2>3
<1>8. ASSUME NEW p \in Procs, AttrSetSize(p) PROVE TypeOK'
  BY <1>8 DEF AttrSetSize
<1>9. ASSUME NEW p \in Procs, AttrSize(p) PROVE TypeOK'
  BY <1>9 DEF AttrSize
<1>10. ASSUME NEW p \in Procs, WriteServe(p) PROVE TypeOK'
  <2>1. NextContent \subseteq Content
    BY DEF NextContent
  <2>2. file' \in Content
    BY <1>10, <2>1 DEF WriteServe
  <2>3. got' \in [Procs -> Content]
    <3>1. got' = got \/ \E c \in NextContent : got' = [got EXCEPT ![p] = c]
      BY <1>10, Zenon DEF WriteServe
    <3> QED BY <2>1, <3>1, Zenon
  <2>4. fail' \in [Procs -> BOOLEAN]
    BY <1>10 DEF WriteServe
  <2>5. pc' \in [Procs -> Labels]
    <3>1. \E l \in {"update", "done"} : pc' = [pc EXCEPT ![p] = l]
      BY <1>10, Zenon DEF WriteServe
    <3> QED BY <3>1
  <2>6. UNCHANGED <<routes, cache, lock, request, asize, floor>>
    BY <1>10 DEF WriteServe
  <2> QED BY <2>2, <2>3, <2>4, <2>5, <2>6
<1>11. ASSUME NEW p \in Procs, WriteUpdate(p) PROVE TypeOK'
  <2>1. data' \in [Nodes -> Content]
    <3>1. Empty \in Content /\ got[p] \in Content
      OBVIOUS
    <3>2. \E c \in Content : data' = [data EXCEPT ![node[p]] = c]
      BY <1>11, <3>1 DEF WriteUpdate, Written, WrittenSize
    <3> QED BY <3>2
  <2>2. size' \in [Nodes -> Lengths]
    BY <1>11 DEF WriteUpdate, Written, WrittenSize
  <2>3. err' \in [Nodes -> BOOLEAN]
    BY <1>11 DEF WriteUpdate, Written, WrittenSize
  <2>4. floor' \in [Nodes -> Nat]
    BY <1>11 DEF WriteUpdate, Written, WrittenSize, Establish
  <2>5. pc' \in [Procs -> Labels]
    BY <1>11 DEF WriteUpdate, Written, WrittenSize
  <2>6. UNCHANGED <<routes, file, lock, request, result>>
    BY <1>11 DEF WriteUpdate, Written, WrittenSize
  <2> QED BY <2>1, <2>2, <2>3, <2>4, <2>5, <2>6
<1>12. ASSUME NEW p \in Procs, SetattrSize(p) PROVE TypeOK'
  BY <1>12 DEF SetattrSize
<1>13. ASSUME NEW p \in Procs, Return(p) PROVE TypeOK'
  BY <1>13 DEF Return
<1>14. CASE UNCHANGED vars
  BY <1>14 DEF vars
<1> QED
  BY <1>1, <1>2, <1>3, <1>4, <1>5, <1>6, <1>7, <1>8, <1>9, <1>10, <1>11,
     <1>12, <1>13, <1>14 DEF Next, Step

\* The caches, locks and goroutines of the nodes keep their types.
THEOREM TypeCorrect == Spec => []TypeOK
<1>1. Init => TypeOK
  BY LengthsAssumption DEF Init, TypeOK, Content, Empty, Labels
<1> QED BY <1>1, TypeStep, PTL DEF Spec

\* Every action preserves the freshness of the caches.  LockInv and HeldEmpty
\* make the fill exclusive, StoreFresh and PendingFresh carry the handler's
\* answer from its run to the cache, ReplyFresh from the cache to the reply.
LEMMA CacheStep == TypeOK /\ CacheInv /\ [Next]_vars => CacheInv'
<1> SUFFICES ASSUME TypeOK, CacheInv, [Next]_vars PROVE CacheInv'
  OBVIOUS
<1>0. TypeOK'
  BY TypeStep
<1> USE DEF CacheInv, TypeOK, GoTo, cache, request, result, Content,
        Empty, Labels
<1>1. ASSUME NEW p \in Procs, NEW n \in Nodes, NEW o \in Ops, Begin(p, n, o)
      PROVE CacheInv'
  <2>1. LockInv'
    BY <1>1, OpsAssumption, ProcsAssumption DEF Begin, LockInv, FirstStep
  <2>2. HeldEmpty'
    BY <1>1, OpsAssumption, ProcsAssumption DEF Begin, HeldEmpty, LockInv,
       Cached, FirstStep
  <2>3. VersionBound' /\ SinceBound'
    BY <1>1, OpsAssumption, ProcsAssumption DEF Begin, VersionBound,
       SinceBound, FirstStep
  <2>4. ReadSteps'
    BY <1>1, OpsAssumption, ProcsAssumption DEF Begin, ReadSteps, FirstStep
  <2>5. FreshCache'
    BY <1>1, OpsAssumption, ProcsAssumption DEF Begin, FreshCache, LockInv,
       StoreFresh, HeldEmpty, VersionBound, PendingFresh, Cached, FirstStep
  <2>6. StoreFresh'
    BY <1>1, OpsAssumption, ProcsAssumption DEF Begin, StoreFresh, LockInv,
       VersionBound, FirstStep
  <2>7. ReplyFresh'
    BY <1>1, OpsAssumption, ProcsAssumption DEF Begin, ReplyFresh, SinceBound,
       ReadSteps, StoreFresh, FirstStep
  <2>8. PendingFresh'
    BY <1>1, OpsAssumption, ProcsAssumption DEF Begin, PendingFresh,
       VersionBound, FirstStep
  <2> QED BY <2>1, <2>2, <2>3, <2>4, <2>5, <2>6, <2>7, <2>8
<1>2. ASSUME NEW p \in Procs, FetchCheck(p) PROVE CacheInv'
  <2>1. /\ UNCHANGED <<file, data, floor, routes, op, node, since>>
        /\ \A q \in Procs : q # p =>
             got'[q] = got[q] /\ fail'[q] = fail[q] /\ pc'[q] = pc[q]
    BY <1>2 DEF FetchCheck
  <2>2. LockInv' /\ HeldEmpty'
    BY <1>2, ProcsAssumption DEF FetchCheck, AfterFetch, LockInv, HeldEmpty,
       Cached
  <2>3. SinceBound' /\ FreshCache'
    BY <2>1 DEF SinceBound, FreshCache
  <2>4. CASE Cached(node[p])
    <3>1. /\ got'[p] = data[node[p]] /\ fail'[p] = err[node[p]]
          /\ pc'[p] = IF op[p] = "attr" THEN "size" ELSE "reply"
      BY <1>2, <2>4 DEF FetchCheck, AfterFetch
    <3>2. VersionBound'
      BY <2>1, <3>1 DEF VersionBound
    <3>3. ReadSteps' /\ StoreFresh' /\ PendingFresh'
      BY <2>1, <3>1 DEF ReadSteps, StoreFresh, PendingFresh
    <3>4. ~err[node[p]] => since[p] <= data[node[p]].ver
      <4>1. data[node[p]].len \in Nat
        BY LengthsAssumption
      <4>2. ~err[node[p]] => data[node[p]].len > 0
        BY <2>4, <4>1 DEF Cached
      <4>3. floor[node[p]] \in Nat /\ since[p] \in Nat
            /\ data[node[p]].ver \in Nat
        OBVIOUS
      <4> QED BY <4>2, <4>3 DEF FreshCache, SinceBound
    <3>5. ReplyFresh'
      <4> SUFFICES ASSUME NEW q \in Procs, op'[q] = "read", ~fail'[q],
                          pc'[q] \in {"reply", "done"}
                   PROVE  since'[q] <= got'[q].ver
        BY DEF ReplyFresh
      <4>1. CASE q = p
        BY <2>1, <3>1, <3>4, <4>1
      <4>2. CASE q # p
        BY <2>1, <4>2 DEF ReplyFresh
      <4> QED BY <4>1, <4>2
    <3> QED BY <2>2, <2>3, <3>2, <3>3, <3>5
  <2>5. CASE ~Cached(node[p])
    <3>1. got'[p] = got[p] /\ fail'[p] = fail[p] /\ pc'[p] = "lock"
      BY <1>2, <2>5 DEF FetchCheck
    <3>2. VersionBound'
      BY <2>1, <3>1 DEF VersionBound
    <3>3. ReadSteps' /\ StoreFresh' /\ PendingFresh'
      BY <2>1, <3>1 DEF ReadSteps, StoreFresh, PendingFresh
    <3>4. ReplyFresh'
      <4> SUFFICES ASSUME NEW q \in Procs, op'[q] = "read", ~fail'[q],
                          pc'[q] \in {"reply", "done"}
                   PROVE  since'[q] <= got'[q].ver
        BY DEF ReplyFresh
      <4>1. CASE q = p
        BY <2>1, <3>1, <4>1
      <4>2. CASE q # p
        BY <2>1, <4>2 DEF ReplyFresh
      <4> QED BY <4>1, <4>2
    <3> QED BY <2>2, <2>3, <3>2, <3>3, <3>4
  <2> QED BY <2>4, <2>5
<1>3. ASSUME NEW p \in Procs, FetchLock(p) PROVE CacheInv'
  <2>1. /\ UNCHANGED <<file, data, floor, routes, op, node, since>>
        /\ \A q \in Procs : q # p =>
             got'[q] = got[q] /\ fail'[q] = fail[q] /\ pc'[q] = pc[q]
    BY <1>3 DEF FetchLock, SecondLook, Lock
  <2>2. LockInv' /\ HeldEmpty'
    BY <1>3, ProcsAssumption DEF FetchLock, SecondLook, Lock, AfterFetch,
       LockInv, HeldEmpty, Cached
  <2>3. SinceBound' /\ FreshCache'
    BY <2>1 DEF SinceBound, FreshCache
  <2>4. CASE Cached(node[p])
    <3>1. /\ got'[p] = data[node[p]] /\ fail'[p] = err[node[p]]
          /\ pc'[p] = IF op[p] = "attr" THEN "size" ELSE "reply"
      BY <1>3, <2>4 DEF FetchLock, SecondLook, Lock, AfterFetch
    <3>2. VersionBound'
      BY <2>1, <3>1 DEF VersionBound
    <3>3. ReadSteps' /\ StoreFresh' /\ PendingFresh'
      BY <2>1, <3>1 DEF ReadSteps, StoreFresh, PendingFresh
    <3>4. ~err[node[p]] => since[p] <= data[node[p]].ver
      <4>1. data[node[p]].len \in Nat
        BY LengthsAssumption
      <4>2. ~err[node[p]] => data[node[p]].len > 0
        BY <2>4, <4>1 DEF Cached
      <4>3. floor[node[p]] \in Nat /\ since[p] \in Nat
            /\ data[node[p]].ver \in Nat
        OBVIOUS
      <4> QED BY <4>2, <4>3 DEF FreshCache, SinceBound
    <3>5. ReplyFresh'
      <4> SUFFICES ASSUME NEW q \in Procs, op'[q] = "read", ~fail'[q],
                          pc'[q] \in {"reply", "done"}
                   PROVE  since'[q] <= got'[q].ver
        BY DEF ReplyFresh
      <4>1. CASE q = p
        BY <2>1, <3>1, <3>4, <4>1
      <4>2. CASE q # p
        BY <2>1, <4>2 DEF ReplyFresh
      <4> QED BY <4>1, <4>2
    <3> QED BY <2>2, <2>3, <3>2, <3>3, <3>5
  <2>5. CASE ~Cached(node[p])
    <3>1. got'[p] = got[p] /\ fail'[p] = fail[p] /\ pc'[p] = "fetch"
      BY <1>3, <2>5 DEF FetchLock, SecondLook, Lock
    <3>2. VersionBound'
      BY <2>1, <3>1 DEF VersionBound
    <3>3. ReadSteps' /\ StoreFresh' /\ PendingFresh'
      BY <2>1, <3>1 DEF ReadSteps, StoreFresh, PendingFresh
    <3>4. ReplyFresh'
      <4> SUFFICES ASSUME NEW q \in Procs, op'[q] = "read", ~fail'[q],
                          pc'[q] \in {"reply", "done"}
                   PROVE  since'[q] <= got'[q].ver
        BY DEF ReplyFresh
      <4>1. CASE q = p
        BY <2>1, <3>1, <4>1
      <4>2. CASE q # p
        BY <2>1, <4>2 DEF ReplyFresh
      <4> QED BY <4>1, <4>2
    <3> QED BY <2>2, <2>3, <3>2, <3>3, <3>4
  <2> QED BY <2>4, <2>5
<1>4. ASSUME NEW p \in Procs, FetchServe(p) PROVE CacheInv'
  <2>1. /\ UNCHANGED <<file, data, floor, routes, op, node, since>>
        /\ \A q \in Procs : q # p =>
             got'[q] = got[q] /\ fail'[q] = fail[q] /\ pc'[q] = pc[q]
    BY <1>4 DEF FetchServe
  <2>2. /\ got'[p].ver <= file.ver
        /\ ~fail'[p] => got'[p].ver >= floor[node[p]]
    <3>1. CASE "read" \in routes
      BY <1>4, <3>1 DEF FetchServe, VersionBound
    <3>2. CASE "read" \notin routes
      <4>1. got'[p] = [data[node[p]] EXCEPT !.len = 0]
        BY <1>4, <3>2 DEF FetchServe
      <4>2. got'[p].ver = data[node[p]].ver
        BY <4>1
      <4> QED BY <3>2, <4>2 DEF VersionBound, FreshCache
    <3> QED BY <3>1, <3>2
  <2>3. VersionBound'
    BY <2>1, <2>2 DEF VersionBound
  <2>4. StoreFresh'
    BY <2>1, <2>2 DEF StoreFresh
  <2>5. LockInv' /\ HeldEmpty'
    BY <1>4 DEF FetchServe, LockInv, HeldEmpty, Cached
  <2>6. /\ SinceBound' /\ ReadSteps'
        /\ FreshCache' /\ ReplyFresh' /\ PendingFresh'
    BY <1>4 DEF FetchServe, SinceBound, VersionBound, ReadSteps, FreshCache,
       LockInv, StoreFresh, HeldEmpty, PendingFresh, ReplyFresh, Cached
  <2> QED BY <2>3, <2>4, <2>5, <2>6
<1>5. ASSUME NEW p \in Procs, FetchStore(p) PROVE CacheInv'
  <2>1. UNCHANGED <<file, routes, op, node, got, since>>
    BY <1>5 DEF FetchStore, CachedError, FetchedSize, Unlock
  <2>2. /\ \A q \in Procs : got[q].ver \in Nat
        /\ \A m \in Nodes : data[m].ver \in Nat /\ floor[m] \in Nat
        /\ file.ver \in Nat /\ \A q \in Procs : since[q] \in Nat
    OBVIOUS
  <2>3. \/ data' = data /\ floor' = floor
        \/ /\ \A m \in Nodes :
                 data'[m] = IF m = node[p] THEN got[p] ELSE data[m]
           /\ \A m \in Nodes :
                 floor'[m] = IF m = node[p] THEN got[p].ver ELSE floor[m]
           /\ got[p].ver >= floor[node[p]]
    <3>1. CASE "read" \in routes /\ ~fail[p]
      <4>1. got[p].ver >= floor[node[p]]
        BY <1>5, <3>1 DEF FetchStore, CachedError, FetchedSize, Unlock,
           StoreFresh
      <4>2. \A m \in Nodes :
              floor'[m] = IF m = node[p] THEN got[p].ver ELSE floor[m]
        BY <1>5, <2>2, <3>1, <4>1 DEF FetchStore, CachedError, FetchedSize,
           Unlock, Establish
      <4>3. \A m \in Nodes :
              data'[m] = IF m = node[p] THEN got[p] ELSE data[m]
        BY <1>5, <3>1 DEF FetchStore, CachedError, FetchedSize, Unlock
      <4> QED BY <4>1, <4>2, <4>3
    <3>2. CASE ~("read" \in routes /\ ~fail[p])
      BY <1>5, <3>2 DEF FetchStore, CachedError, FetchedSize, Unlock
    <3> QED BY <3>1, <3>2
  <2>4. VersionBound'
    BY <2>1, <2>2, <2>3 DEF VersionBound
  <2>5. SinceBound'
    BY <2>1, <2>2, <2>3 DEF SinceBound
  <2>6. FreshCache'
    BY <2>1, <2>2, <2>3 DEF FreshCache
  <2>7. LockInv' /\ HeldEmpty'
    BY <1>5, ProcsAssumption DEF FetchStore, CachedError, FetchedSize, Unlock,
       LockInv, HeldEmpty, Cached, AfterFetch, Establish
  <2>8. ReadSteps'
    BY <1>5, ProcsAssumption DEF FetchStore, CachedError, FetchedSize, Unlock,
       ReadSteps, Cached, AfterFetch, Establish
  <2>9. StoreFresh'
    BY <1>5, ProcsAssumption DEF FetchStore, CachedError, FetchedSize, Unlock,
       StoreFresh, LockInv, VersionBound, Cached, AfterFetch, Establish
  <2>10. ReplyFresh'
    BY <1>5, ProcsAssumption DEF FetchStore, CachedError, FetchedSize, Unlock,
       ReplyFresh, SinceBound, ReadSteps, StoreFresh, Cached, AfterFetch,
       Establish
  <2>11. PendingFresh'
    BY <1>5, ProcsAssumption DEF FetchStore, CachedError, FetchedSize, Unlock,
       PendingFresh, VersionBound, Cached, AfterFetch, Establish
  <2> QED BY <2>4, <2>5, <2>6, <2>7, <2>8, <2>9, <2>10, <2>11
<1>6. ASSUME NEW p \in Procs, ReadReply(p) PROVE CacheInv'
  <2>1. LockInv' /\ HeldEmpty'
    BY <1>6 DEF ReadReply, LockInv, HeldEmpty, Cached
  <2>2. /\ VersionBound' /\ SinceBound' /\ ReadSteps'
        /\ FreshCache' /\ StoreFresh' /\ ReplyFresh' /\ PendingFresh'
    BY <1>6 DEF ReadReply, VersionBound, SinceBound, ReadSteps, FreshCache,
       LockInv, StoreFresh, HeldEmpty, PendingFresh, ReplyFresh, Cached
  <2> QED BY <2>1, <2>2
<1>7. ASSUME NEW p \in Procs, AttrServe(p) PROVE CacheInv'
  <2>1. /\ UNCHANGED op
        /\ \A q \in Procs : q # p => pc'[q] = pc[q]
        /\ pc[p] = "getattr"
    BY <1>7 DEF AttrServe
  <2>2. ReadSteps'
    BY <2>1 DEF ReadSteps
  <2>3. LockInv' /\ HeldEmpty'
    BY <1>7 DEF AttrServe, LockInv, HeldEmpty, Cached
  <2>4. VersionBound' /\ SinceBound'
    BY <1>7 DEF AttrServe, VersionBound, SinceBound
  <2>5. FreshCache' /\ StoreFresh'
    BY <1>7 DEF AttrServe, FreshCache, LockInv, StoreFresh, HeldEmpty,
       VersionBound, PendingFresh, Cached
  <2>6. ReplyFresh'
    BY <1>7 DEF AttrServe, ReplyFresh, SinceBound, ReadSteps, StoreFresh
  <2>7. PendingFresh'
    BY <1>7 DEF AttrServe, PendingFresh, VersionBound
  <2> QED BY <2>2, <2>3, <2>4, <2>5, <2>6, <2>7
<1>8. ASSUME NEW p \in Procs, AttrSetSize(p) PROVE CacheInv'
  <2>1. /\ UNCHANGED <<op, since, got, fail>>
        /\ \A q \in Procs : q # p => pc'[q] = pc[q]
        /\ op[p] # "read"
    BY <1>8 DEF AttrSetSize, ReadSteps
  <2>2. ReplyFresh'
    BY <2>1 DEF ReplyFresh
  <2>3. LockInv' /\ HeldEmpty'
    BY <1>8 DEF AttrSetSize, LockInv, HeldEmpty, Cached
  <2>4. /\ VersionBound' /\ SinceBound' /\ ReadSteps'
        /\ FreshCache' /\ StoreFresh' /\ PendingFresh'
    BY <1>8 DEF AttrSetSize, VersionBound, SinceBound, ReadSteps, FreshCache,
       LockInv, StoreFresh, HeldEmpty, PendingFresh, Cached
  <2> QED BY <2>2, <2>3, <2>4
<1>9. ASSUME NEW p \in Procs, AttrSize(p) PROVE CacheInv'
  <2>1. /\ UNCHANGED <<op, since, got, fail>>
        /\ \A q \in Procs : q # p => pc'[q] = pc[q]
        /\ op[p] # "read"
    BY <1>9 DEF AttrSize, ReadSteps
  <2>2. ReplyFresh'
    BY <2>1 DEF ReplyFresh
  <2>3. LockInv' /\ HeldEmpty'
    BY <1>9 DEF AttrSize, LockInv, HeldEmpty, Cached
  <2>4. /\ VersionBound' /\ SinceBound' /\ ReadSteps'
        /\ FreshCache' /\ StoreFresh' /\ PendingFresh'
    BY <1>9 DEF AttrSize, VersionBound, SinceBound, ReadSteps, FreshCache,
       LockInv, StoreFresh, HeldEmpty, PendingFresh, Cached
  <2> QED BY <2>2, <2>3, <2>4
<1>10. ASSUME NEW p \in Procs, WriteServe(p) PROVE CacheInv'
  <2>1. /\ UNCHANGED <<routes, data, floor, op, node>>
        /\ pc[p] = "serve"
        /\ \A q \in Procs : q # p => pc'[q] = pc[q] /\ got'[q] = got[q]
    BY <1>10 DEF WriteServe, NextContent
  <2>2. /\ file'.ver >= file.ver
        /\ got'[p].ver <= file'.ver
        /\ pc'[p] = "update" => got'[p].ver = file.ver + 1
        /\ pc'[p] \in {"update", "done"}
    BY <1>10 DEF WriteServe, NextContent, VersionBound
  <2>3. /\ file.ver \in Nat /\ file'.ver \in Nat
        /\ \A q \in Procs : got[q].ver \in Nat /\ got'[q].ver \in Nat
        /\ \A n \in Nodes : data[n].ver \in Nat /\ floor[n] \in Nat
    BY <1>0
  <2>4. VersionBound'
    BY <2>1, <2>2, <2>3 DEF VersionBound
  <2>5. ReadSteps'
    BY <2>1 DEF ReadSteps
  <2>6. PendingFresh'
    <3>1. \A n \in Nodes : file.ver + 1 >= floor[n]
      BY <2>3 DEF VersionBound
    <3> QED BY <2>1, <2>2, <3>1 DEF PendingFresh
  <2>7. LockInv' /\ HeldEmpty'
    BY <1>10 DEF WriteServe, LockInv, HeldEmpty, Cached, NextContent
  <2>8. SinceBound'
    BY <1>10 DEF WriteServe, SinceBound, VersionBound, NextContent
  <2>9. FreshCache'
    BY <1>10 DEF WriteServe, FreshCache, LockInv, StoreFresh, HeldEmpty,
       VersionBound, PendingFresh, Cached, NextContent
  <2>10. StoreFresh'
    <3>1. \A q \in Procs : q # p => fail'[q] = fail[q]
      BY <1>10 DEF WriteServe
    <3> QED BY <2>1, <2>2, <3>1 DEF StoreFresh
  <2>11. ReplyFresh'
    <3>1. \A q \in Procs : q # p => fail'[q] = fail[q] /\ since'[q] = since[q]
      BY <1>10 DEF WriteServe
    <3>2. op[p] # "read"
      BY <2>1 DEF ReadSteps
    <3> QED BY <2>1, <2>2, <3>1, <3>2 DEF ReplyFresh
  <2> QED BY <2>4, <2>5, <2>6, <2>7, <2>8, <2>9, <2>10, <2>11
<1>11. ASSUME NEW p \in Procs, WriteUpdate(p) PROVE CacheInv'
  <2>1. /\ UNCHANGED <<op, since, got, fail>>
        /\ \A q \in Procs : q # p => pc'[q] = pc[q]
        /\ op[p] # "read"
    BY <1>11 DEF WriteUpdate, Written, WrittenSize, ReadSteps
  <2>2. ReplyFresh'
    BY <2>1 DEF ReplyFresh
  <2>3. LockInv' /\ HeldEmpty'
    BY <1>11, ProcsAssumption DEF WriteUpdate, Written, WrittenSize, LockInv,
       HeldEmpty, Cached, Establish, Overtaken
  <2>4. VersionBound' /\ SinceBound'
    BY <1>11, ProcsAssumption DEF WriteUpdate, Written, WrittenSize,
       VersionBound, SinceBound, Establish, Overtaken
  <2>5. ReadSteps' /\ FreshCache'
    BY <1>11, ProcsAssumption DEF WriteUpdate, Written, WrittenSize,
       ReadSteps, FreshCache, LockInv, StoreFresh, HeldEmpty, VersionBound,
       PendingFresh, Cached, Establish, Overtaken
  <2>6. StoreFresh' /\ PendingFresh'
    BY <1>11, ProcsAssumption DEF WriteUpdate, Written, WrittenSize,
       StoreFresh, LockInv, VersionBound, PendingFresh, Establish, Overtaken
  <2> QED BY <2>2, <2>3, <2>4, <2>5, <2>6
<1>12. ASSUME NEW p \in Procs, SetattrSize(p) PROVE CacheInv'
  <2>1. /\ UNCHANGED <<op, since, got, fail>>
        /\ \A q \in Procs : q # p => pc'[q] = pc[q]
        /\ op[p] # "read"
    BY <1>12 DEF SetattrSize, ReadSteps
  <2>2. ReplyFresh'
    BY <2>1 DEF ReplyFresh
  <2>3. LockInv' /\ HeldEmpty'
    BY <1>12 DEF SetattrSize, LockInv, HeldEmpty, Cached
  <2>4. /\ VersionBound' /\ SinceBound' /\ ReadSteps'
        /\ FreshCache' /\ StoreFresh' /\ PendingFresh'
    BY <1>12 DEF SetattrSize, VersionBound, SinceBound, ReadSteps, FreshCache,
       LockInv, StoreFresh, HeldEmpty, PendingFresh, Cached
  <2> QED BY <2>2, <2>3, <2>4
<1>13. ASSUME NEW p \in Procs, Return(p) PROVE CacheInv'
  <2>1. LockInv' /\ HeldEmpty'
    BY <1>13 DEF Return, LockInv, HeldEmpty, Cached
  <2>2. /\ VersionBound' /\ SinceBound' /\ ReadSteps'
        /\ FreshCache' /\ StoreFresh' /\ ReplyFresh' /\ PendingFresh'
    BY <1>13 DEF Return, VersionBound, SinceBound, ReadSteps, FreshCache,
       LockInv, StoreFresh, HeldEmpty, PendingFresh, ReplyFresh, Cached
  <2> QED BY <2>1, <2>2
<1>14. CASE UNCHANGED vars
  BY <1>14 DEF vars, LockInv, HeldEmpty, VersionBound, SinceBound, ReadSteps,
     FreshCache, StoreFresh, ReplyFresh, PendingFresh, Cached
<1> QED
  BY <1>1, <1>2, <1>3, <1>4, <1>5, <1>6, <1>7, <1>8, <1>9, <1>10, <1>11,
     <1>12, <1>13, <1>14 DEF Next, Step

\* Along every behaviour the caches, the fills under way and the writes that
\* have yet to reach a cache are ordered as CacheInv says.
THEOREM CacheCorrect == Spec => []CacheInv
<1>1. Init => CacheInv
  BY LengthsAssumption, ProcsAssumption DEF Init, CacheInv, LockInv,
     HeldEmpty, VersionBound, SinceBound, ReadSteps, FreshCache, StoreFresh,
     ReplyFresh, PendingFresh, Empty
<1> QED BY <1>1, TypeCorrect, CacheStep, PTL DEF Spec

\* A node's cache is never older than a write completed on it.
THEOREM CacheIsFresh == Spec => []FreshCache
<1>1. CacheInv => FreshCache
  BY DEF CacheInv
<1> QED BY <1>1, CacheCorrect, PTL

\* A successful Read answers content no older than what the node had
\* established when it began, and never content from the future.
THEOREM ReadsAreFresh == Spec => []FreshReads
<1>1. CacheInv => FreshReads
  BY DEF CacheInv, ReplyFresh, VersionBound, FreshReads
<1> QED BY <1>1, CacheCorrect, PTL

\* The outcome of a fetch never replaces something cached.
THEOREM FillsAreFirst == Spec => FillsOnlyEmpty
<1>1. CacheInv => \A p \in Procs : FetchStore(p) => ~Cached(node[p])
  BY DEF CacheInv, HeldEmpty, FetchStore, CachedError, FetchedSize, Unlock
<1> QED BY <1>1, CacheCorrect, PTL DEF FillsOnlyEmpty

\* How the state is seen by the readers of a mounted file.
Seen(q) == IF pc[q] = "idle" THEN "idle"
           ELSE IF Answered(q) THEN "answered" ELSE "open"
Told(q) == IF Answered(q) THEN got[q].ver ELSE 0

\* A step that moves only goroutine p, neither to nor from idle or an answer,
\* and leaves file, floor and since alone, is invisible to the readers.
LEMMA Invisible ==
  ASSUME NEW p \in Procs,
         UNCHANGED <<file, floor, since>>,
         \A q \in Procs : q # p => Seen(q)' = Seen(q) /\ Told(q)' = Told(q),
         Seen(p)' = Seen(p), Told(p)' = Told(p)
  PROVE  UNCHANGED Mounted!avars
BY DEF Mounted!avars, Seen, Told

LEMMA RefineStep ==
  TypeOK /\ CacheInv /\ [Next]_vars => [Mounted!Next]_(Mounted!avars)
<1> SUFFICES ASSUME TypeOK, CacheInv, [Next]_vars
             PROVE  [Mounted!Next]_(Mounted!avars)
  OBVIOUS
<1> USE DEF TypeOK, GoTo, cache, request, result, Labels
<1>a. ASSUME NEW p \in Procs, UNCHANGED <<file, floor, since, op>>,
             \A q \in Procs : q # p =>
               pc'[q] = pc[q] /\ got'[q] = got[q] /\ fail'[q] = fail[q],
             pc[p] \notin {"idle", "done"}, pc'[p] # "idle",
             pc'[p] = "done" /\ op[p] = "read" => fail'[p]
      PROVE  UNCHANGED Mounted!avars
  <2>1. \A q \in Procs : q # p => Seen(q)' = Seen(q) /\ Told(q)' = Told(q)
    BY <1>a DEF Seen, Told, Answered
  <2>2. Seen(p)' = Seen(p) /\ Told(p)' = Told(p)
    BY <1>a DEF Seen, Told, Answered
  <2> QED BY <1>a, <2>1, <2>2, Invisible
<1>2. ASSUME NEW p \in Procs, FetchCheck(p) PROVE UNCHANGED Mounted!avars
  <2>1. pc[p] = "check" /\ pc'[p] \in {"lock", "size", "reply"}
    BY <1>2 DEF FetchCheck, AfterFetch
  <2> QED BY <1>2, <2>1, <1>a DEF FetchCheck
<1>3. ASSUME NEW p \in Procs, FetchLock(p) PROVE UNCHANGED Mounted!avars
  <2>1. pc[p] = "lock" /\ pc'[p] \in {"fetch", "size", "reply"}
    BY <1>3 DEF FetchLock, SecondLook, Lock, AfterFetch
  <2> QED BY <1>3, <2>1, <1>a DEF FetchLock, SecondLook, Lock
<1>4. ASSUME NEW p \in Procs, FetchServe(p) PROVE UNCHANGED Mounted!avars
  BY <1>4, <1>a DEF FetchServe
<1>7. ASSUME NEW p \in Procs, AttrServe(p) PROVE UNCHANGED Mounted!avars
  BY <1>7, <1>a DEF AttrServe, CacheInv, ReadSteps
<1>8. ASSUME NEW p \in Procs, AttrSetSize(p) PROVE UNCHANGED Mounted!avars
  BY <1>8, <1>a DEF AttrSetSize, CacheInv, ReadSteps
<1>9. ASSUME NEW p \in Procs, AttrSize(p) PROVE UNCHANGED Mounted!avars
  BY <1>9, <1>a DEF AttrSize, CacheInv, ReadSteps
<1>12. ASSUME NEW p \in Procs, SetattrSize(p) PROVE UNCHANGED Mounted!avars
  BY <1>12, <1>a DEF SetattrSize, CacheInv, ReadSteps
<1>1. ASSUME NEW p \in Procs, NEW n \in Nodes, NEW o \in Ops, Begin(p, n, o)
      PROVE  Mounted!Next
  <2>1. pc[p] = "idle" /\ pc'[p] \notin {"idle", "done"}
    BY <1>1, OpsAssumption DEF Begin, FirstStep
  <2>2. Seen(p) = "idle" /\ Seen(p)' = "open" /\ Told(p) = 0 /\ Told(p)' = 0
    BY <2>1 DEF Seen, Told, Answered
  <2>3. \A q \in Procs : q # p => Seen(q)' = Seen(q) /\ Told(q)' = Told(q)
    BY <1>1 DEF Begin, Seen, Told, Answered
  <2>4. /\ [q \in Procs |-> Seen(q)]' =
             [[q \in Procs |-> Seen(q)] EXCEPT ![p] = "open"]
        /\ [q \in Procs |-> Told(q)]' = [q \in Procs |-> Told(q)]
    BY <2>2, <2>3
  <2>5. Mounted!Invoke(p, n)
    BY <1>1, <2>2, <2>4 DEF Begin, Mounted!Invoke, Seen, Told
  <2> QED BY <2>5 DEF Mounted!Next
<1>5. ASSUME NEW p \in Procs, FetchStore(p) PROVE Mounted!Next
  <2>1. \A q \in Procs : Seen(q)' = Seen(q) /\ Told(q)' = Told(q)
    BY <1>5 DEF FetchStore, CachedError, FetchedSize, Unlock, AfterFetch,
       Seen, Told, Answered
  <2>2. floor' = floor \/ /\ floor' = [floor EXCEPT ![node[p]] = got[p].ver]
                          /\ got[p].ver > floor[node[p]]
    BY <1>5 DEF FetchStore, CachedError, FetchedSize, Unlock, Establish
  <2>3. \E v \in floor[node[p]] .. file.ver :
          floor' = [floor EXCEPT ![node[p]] = v]
    BY <2>2 DEF CacheInv, VersionBound, Content
  <2>4. Mounted!Establish(node[p])
    BY <1>5, <2>1, <2>3 DEF FetchStore, CachedError, FetchedSize, Unlock,
       Mounted!Establish, Seen, Told
  <2> QED BY <2>4 DEF Mounted!Next
<1>6. ASSUME NEW p \in Procs, ReadReply(p)
      PROVE  Mounted!Next \/ UNCHANGED Mounted!avars
  <2>1. \A q \in Procs : q # p => Seen(q)' = Seen(q) /\ Told(q)' = Told(q)
    BY <1>6 DEF ReadReply, Seen, Told, Answered
  <2>2. CASE op[p] = "read" /\ ~fail[p]
    <3>1. Seen(p) = "open" /\ Seen(p)' = "answered" /\ Told(p)' = got[p].ver
      BY <1>6, <2>2 DEF ReadReply, Seen, Told, Answered
    <3>2. got[p].ver \in since[p] .. file.ver
      BY <1>6, <2>2 DEF ReadReply, CacheInv, VersionBound, ReplyFresh, Content
    <3>3. /\ [q \in Procs |-> Seen(q)]' =
               [[q \in Procs |-> Seen(q)] EXCEPT ![p] = "answered"]
          /\ [q \in Procs |-> Told(q)]' =
               [[q \in Procs |-> Told(q)] EXCEPT ![p] = got[p].ver]
      BY <2>1, <3>1
    <3>4. Mounted!Answer(p)
      BY <1>6, <3>1, <3>2, <3>3 DEF ReadReply, Mounted!Answer, Seen, Told
    <3> QED BY <3>4 DEF Mounted!Next
  <2>3. CASE ~(op[p] = "read" /\ ~fail[p])
    BY <1>6, <2>3, <1>a DEF ReadReply
  <2> QED BY <2>2, <2>3
<1>10. ASSUME NEW p \in Procs, WriteServe(p)
       PROVE  Mounted!Next \/ UNCHANGED Mounted!avars
  <2>1. op[p] # "read" /\ pc[p] = "serve" /\ pc'[p] \in {"update", "done"}
    BY <1>10 DEF WriteServe, CacheInv, ReadSteps
  <2>2. \A q \in Procs : q # p =>
          pc'[q] = pc[q] /\ got'[q] = got[q] /\ fail'[q] = fail[q]
    BY <1>10 DEF WriteServe
  <2>3. UNCHANGED <<op, since, floor>>
    BY <1>10 DEF WriteServe
  <2>4. \A q \in Procs : Seen(q)' = Seen(q) /\ Told(q)' = Told(q)
    BY <2>1, <2>2, <2>3 DEF Seen, Told, Answered
  <2>5. CASE file' = file
    BY <2>3, <2>4, <2>5, Invisible
  <2>6. CASE file' # file
    <3>1. file'.ver = file.ver + 1
      BY <1>10, <2>6 DEF WriteServe, NextContent
    <3>2. Mounted!HandlerWrites
      BY <2>3, <2>4, <3>1 DEF Mounted!HandlerWrites, Seen, Told
    <3> QED BY <3>2 DEF Mounted!Next
  <2> QED BY <2>5, <2>6
<1>11. ASSUME NEW p \in Procs, WriteUpdate(p) PROVE Mounted!Next
  <2>1. op[p] # "read" /\ pc[p] = "update" /\ pc'[p] = "done"
    BY <1>11 DEF WriteUpdate, Written, WrittenSize, CacheInv, ReadSteps
  <2>2. \A q \in Procs : Seen(q)' = Seen(q) /\ Told(q)' = Told(q)
    BY <1>11, <2>1 DEF WriteUpdate, Written, WrittenSize, Seen, Told, Answered
  <2>3. floor' = floor \/ /\ floor' = [floor EXCEPT ![node[p]] = got[p].ver]
                          /\ got[p].ver > floor[node[p]]
    BY <1>11 DEF WriteUpdate, Written, WrittenSize, Establish
  <2>4. \E v \in floor[node[p]] .. file.ver :
          floor' = [floor EXCEPT ![node[p]] = v]
    BY <2>3 DEF CacheInv, VersionBound, Content
  <2>5. Mounted!Establish(node[p])
    BY <1>11, <2>2, <2>4 DEF WriteUpdate, Written, WrittenSize,
       Mounted!Establish, Seen, Told
  <2> QED BY <2>5 DEF Mounted!Next
<1>13. ASSUME NEW p \in Procs, Return(p) PROVE Mounted!Next
  <2>1. Seen(p) \in {"open", "answered"} /\ Seen(p)' = "idle" /\ Told(p)' = 0
    BY <1>13 DEF Return, Seen, Told, Answered
  <2>2. \A q \in Procs : q # p => Seen(q)' = Seen(q) /\ Told(q)' = Told(q)
    BY <1>13 DEF Return, Seen, Told, Answered
  <2>3. /\ [q \in Procs |-> Seen(q)]' =
             [[q \in Procs |-> Seen(q)] EXCEPT ![p] = "idle"]
        /\ [q \in Procs |-> Told(q)]' =
             [[q \in Procs |-> Told(q)] EXCEPT ![p] = 0]
    BY <2>1, <2>2
  <2>4. since' = [since EXCEPT ![p] = 0] /\ UNCHANGED <<file, floor>>
    BY <1>13 DEF Return
  <2>5. Mounted!Return(p)
    BY <2>1, <2>3, <2>4 DEF Mounted!Return, Seen, Told
  <2> QED BY <2>5 DEF Mounted!Next
<1>14. CASE UNCHANGED vars
  <2>1. UNCHANGED Mounted!avars
    BY <1>14 DEF vars, Mounted!avars, Answered
  <2> QED BY <2>1
<1> QED
  BY <1>1, <1>2, <1>3, <1>4, <1>5, <1>6, <1>7, <1>8, <1>9, <1>10, <1>11,
     <1>12, <1>13, <1>14 DEF Next, Step

\* Every behaviour of the nodes is one that a mounted file allows its readers.
THEOREM Refinement == Spec => ImplementsMountedFile
<1>1. Init => Mounted!Init
  BY DEF Init, Mounted!Init, Answered
<1> QED BY <1>1, RefineStep, TypeCorrect, CacheCorrect, PTL DEF Spec,
   ImplementsMountedFile, Mounted!Spec

----------------------------------------------------------------------------
(* Errors and sizes *)

\* Every step keeps errors away from content.
LEMMA ErrorStep ==
  TypeOK /\ CacheInv /\ FailSteps /\ ErrorWithoutContent /\ [Next]_vars
    => FailSteps' /\ ErrorWithoutContent'
<1> SUFFICES ASSUME TypeOK, CacheInv, FailSteps, ErrorWithoutContent, [Next]_vars
             PROVE  FailSteps' /\ ErrorWithoutContent'
  OBVIOUS
<1> USE DEF TypeOK, GoTo, cache, request, result, FailSteps, ErrorWithoutContent
<1>1. ASSUME NEW p \in Procs, NEW n \in Nodes, NEW o \in Ops, Begin(p, n, o)
      PROVE  FailSteps' /\ ErrorWithoutContent'
  BY <1>1 DEF Begin
<1>2. ASSUME NEW p \in Procs, FetchCheck(p) \/ FetchLock(p)
      PROVE  FailSteps' /\ ErrorWithoutContent'
  BY <1>2 DEF FetchCheck, FetchLock, SecondLook, Lock, AfterFetch
<1>3. ASSUME NEW p \in Procs, FetchServe(p)
      PROVE  FailSteps' /\ ErrorWithoutContent'
  <2>1. UNCHANGED <<routes, data, err>> /\ pc' = [pc EXCEPT ![p] = "store"]
    BY <1>3 DEF FetchServe
  <2>2. \/ fail' = fail /\ ~fail[p]
        \/ fail' = [fail EXCEPT ![p] = TRUE] /\ "read" \in routes
    BY <1>3 DEF FetchServe
  <2> QED BY <2>1, <2>2
<1>4. ASSUME NEW p \in Procs, FetchStore(p)
      PROVE  FailSteps' /\ ErrorWithoutContent'
  <2>1. FailSteps'
    BY <1>4 DEF FetchStore, AfterFetch
  \* What makes way for the outcome is an empty cache, without an error.
  <2>2. data[node[p]].len = 0 /\ ~err[node[p]]
    BY <1>4 DEF FetchStore, CacheInv, HeldEmpty, Cached
  <2>3. CASE fail[p]
    <3>1. err' = [err EXCEPT ![node[p]] = TRUE] /\ UNCHANGED <<routes, data>>
      BY <1>4, <2>3 DEF FetchStore, CachedError
    <3>2. "read" \in routes
      BY <1>4, <2>3 DEF FetchStore
    <3> QED BY <2>1, <2>2, <3>1, <3>2
  <2>4. CASE ~fail[p]
    <3>1. UNCHANGED <<routes, err>>
      BY <1>4, <2>4 DEF FetchStore, CachedError
    <3>2. \A n \in Nodes : n # node[p] => data'[n] = data[n]
      BY <1>4, <2>4 DEF FetchStore, CachedError
    <3> QED BY <2>1, <2>2, <3>1, <3>2
  <2> QED BY <2>3, <2>4
<1>5. ASSUME NEW p \in Procs,
             ReadReply(p) \/ AttrServe(p) \/ AttrSetSize(p) \/ AttrSize(p)
               \/ SetattrSize(p)
      PROVE  FailSteps' /\ ErrorWithoutContent'
  BY <1>5 DEF ReadReply, AttrServe, AttrSetSize, AttrSize, SetattrSize
<1>6. ASSUME NEW p \in Procs, WriteServe(p)
      PROVE  FailSteps' /\ ErrorWithoutContent'
  <2>1. UNCHANGED <<routes, data, err>>
    BY <1>6 DEF WriteServe
  <2>2. \/ fail' = fail /\ pc' = [pc EXCEPT ![p] = "update"] /\ ~fail[p]
        \/ fail' = [fail EXCEPT ![p] = TRUE] /\ pc' = [pc EXCEPT ![p] = "done"]
    BY <1>6 DEF WriteServe
  <2> QED BY <2>1, <2>2
<1>7. ASSUME NEW p \in Procs, WriteUpdate(p)
      PROVE  FailSteps' /\ ErrorWithoutContent'
  BY <1>7 DEF WriteUpdate
<1>8. ASSUME NEW p \in Procs, Return(p)
      PROVE  FailSteps' /\ ErrorWithoutContent'
  BY <1>8 DEF Return
<1>9. CASE UNCHANGED vars
  BY <1>9 DEF vars
<1> QED BY <1>1, <1>2, <1>3, <1>4, <1>5, <1>6, <1>7, <1>8, <1>9 DEF Next, Step

\* A cached error hides no content and is the error of a read handler.
THEOREM ErrorsHideNothing == Spec => []ErrorWithoutContent
<1>1. Init => FailSteps /\ ErrorWithoutContent
  BY DEF Init, FailSteps, ErrorWithoutContent
<1> QED BY <1>1, TypeCorrect, CacheCorrect, ErrorStep, PTL DEF Spec

\* Every step keeps the cached size the length of the cached content.
LEMMA SizeStep ==
  TypeOK /\ SizeSteps /\ SizeOfContent /\ [Next]_vars
    => SizeSteps' /\ SizeOfContent'
<1> SUFFICES ASSUME TypeOK, SizeSteps, SizeOfContent, [Next]_vars
             PROVE  SizeSteps' /\ SizeOfContent'
  OBVIOUS
<1>1. routes' = routes
  BY DEF Next, Step, vars, cache, request, result, Begin, FetchCheck, FetchLock,
         FetchServe, FetchStore, ReadReply, AttrServe, AttrSetSize, AttrSize,
         WriteServe, WriteUpdate, SetattrSize, Return
<1> SUFFICES ASSUME "setattr" \notin Ops, "getattr" \notin routes,
                    \A p \in Procs : pc[p] \notin {"setsize", "resize"},
                    \A n \in Nodes : size[n] = data[n].len
             PROVE  /\ \A p \in Procs : pc'[p] \notin {"setsize", "resize"}
                    /\ \A n \in Nodes : size'[n] = data'[n].len
  BY <1>1 DEF SizeSteps, SizeOfContent
<1> USE DEF TypeOK, GoTo, cache, request, result
<1>2. ASSUME NEW p \in Procs, NEW n \in Nodes, NEW o \in Ops, Begin(p, n, o)
      PROVE  /\ \A q \in Procs : pc'[q] \notin {"setsize", "resize"}
             /\ \A m \in Nodes : size'[m] = data'[m].len
  <2>1. FirstStep(o) \in {"check", "getattr", "serve"}
    BY OpsAssumption DEF FirstStep
  <2> QED BY <1>2, <2>1 DEF Begin
<1>3. ASSUME NEW p \in Procs, FetchStore(p)
      PROVE  /\ \A q \in Procs : pc'[q] \notin {"setsize", "resize"}
             /\ \A m \in Nodes : size'[m] = data'[m].len
  <2>1. \/ UNCHANGED <<data, size>>
        \/ /\ data' = [data EXCEPT ![node[p]] = got[p]]
           /\ size' = [size EXCEPT ![node[p]] = got[p].len]
    BY <1>3, Zenon DEF FetchStore, FetchedSize
  <2>2. \A q \in Procs : pc'[q] \notin {"setsize", "resize"}
    BY <1>3 DEF FetchStore, AfterFetch
  <2> QED BY <2>1, <2>2
<1>4. ASSUME NEW p \in Procs, WriteUpdate(p)
      PROVE  /\ \A q \in Procs : pc'[q] \notin {"setsize", "resize"}
             /\ \A m \in Nodes : size'[m] = data'[m].len
  BY <1>4 DEF WriteUpdate, WrittenSize
<1>5. ASSUME NEW p \in Procs,
             FetchCheck(p) \/ FetchLock(p) \/ FetchServe(p) \/ ReadReply(p)
               \/ AttrServe(p) \/ AttrSize(p) \/ WriteServe(p) \/ Return(p)
      PROVE  /\ \A q \in Procs : pc'[q] \notin {"setsize", "resize"}
             /\ \A m \in Nodes : size'[m] = data'[m].len
  <2>1. UNCHANGED <<data, size>>
    BY <1>5 DEF FetchCheck, FetchLock, FetchServe, ReadReply, AttrServe,
                AttrSize, WriteServe, Return
  <2>2. \E l \in {"reply", "size", "lock", "fetch", "store", "done", "check",
                   "update", "idle"} : pc' = [pc EXCEPT ![p] = l]
    BY <1>5 DEF FetchCheck, FetchLock, FetchServe, ReadReply, AttrServe,
                AttrSize, WriteServe, Return, AfterFetch
  <2> QED BY <2>1, <2>2
\* The two steps that set a size alone are not on anybody's way.
<1>6. ASSUME NEW p \in Procs, AttrSetSize(p) \/ SetattrSize(p) PROVE FALSE
  BY <1>6 DEF AttrSetSize, SetattrSize
<1>7. CASE UNCHANGED vars
  BY <1>7 DEF vars
<1> QED BY <1>2, <1>3, <1>4, <1>5, <1>6, <1>7 DEF Next, Step

\* Without Setattr and getattr handlers, stat and cat agree.
THEOREM SizesAreOfContent == Spec => []SizeOfContent
<1>1. Init => SizeSteps /\ SizeOfContent
  BY DEF Init, SizeSteps, SizeOfContent, Empty
<1> QED BY <1>1, TypeCorrect, SizeStep, PTL DEF Spec
=============================================================================
