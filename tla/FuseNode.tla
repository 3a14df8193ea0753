----------------------------- MODULE FuseNode ------------------------------
(***************************************************************************)
(* The file nodes of the FUSE filesystem (internal/fuse/server.go): the    *)
(* per-node cache of content and size behind Attr, Read, Write and         *)
(* Setattr, which bazil.org/fuse runs in one goroutine per kernel request. *)
(*                                                                         *)
(* The script's file is its current content, a version number (one per run *)
(* of the write handler) and a length.  The text is abstracted to those    *)
(* two: the code only tells "" from other texts and takes lengths.         *)
(* n.mu is a sync.RWMutex.  Its read sections copy one or two fields and   *)
(* are single steps that need no writer inside; the one long write section *)
(* is fetchData's, which calls the script with the lock held.              *)
(***************************************************************************)
EXTENDS Naturals

CONSTANTS Procs,     \* the goroutines that run kernel requests
          Nodes,     \* node objects of one path: every Lookup makes a new one
          Lengths,   \* lengths of contents and sizes; 0 is the empty string
          Ops,       \* the requests the kernel sends to the file
          MaxVer,    \* bound on the successful or partial runs of the write handler
          NoProc     \* n.mu is not held

ASSUME ProcsAssumption == NoProc \notin Procs
ASSUME LengthsAssumption == 0 \in Lengths /\ Lengths \subseteq Nat
ASSUME OpsAssumption == Ops \subseteq {"read", "write", "attr", "setattr"}
ASSUME MaxVerAssumption == MaxVer \in Nat

VARIABLES routes,    \* the operations that have a handler for the path
          file,      \* what the read handler would return now
          data,      \* per node, cachedData
          size,      \* per node, cachedSize
          err,       \* per node, cachedErr # nil
          lock,      \* per node, the writer inside n.mu
          pc, op, node,   \* per goroutine: its next step, request and node
          got,       \* per goroutine, the content the router gave it
          fail,      \* per goroutine, the request ends with an error
          asize,     \* per goroutine, the size Attr reports
          floor,     \* history, per node: the newest version established
          since      \* history, per goroutine: floor when the request began

vars == <<routes, file, data, size, err, lock, pc, op, node, got, fail, asize,
          floor, since>>
cache == <<data, size, err>>
request == <<op, node, since>>
result == <<got, fail, asize>>

Content == [ver : Nat, len : Lengths]
Empty == [ver |-> 0, len |-> 0]
Labels == {"idle", "getattr", "setsize", "check", "lock", "fetch", "store",
           "size", "serve", "update", "resize", "reply", "done"}

\* The file system is mounted and nothing has been asked of the path yet.
Init ==
  /\ routes \in SUBSET {"read", "write", "getattr"}
  /\ file \in [ver : {0}, len : Lengths]
  /\ data = [n \in Nodes |-> Empty]
  /\ size = [n \in Nodes |-> 0]
  /\ err = [n \in Nodes |-> FALSE]
  /\ lock = [n \in Nodes |-> NoProc]
  /\ pc = [p \in Procs |-> "idle"]
  /\ op \in [Procs -> {"none"}]
  /\ node \in [Procs -> Nodes]
  /\ got = [p \in Procs |-> Empty]
  /\ fail = [p \in Procs |-> FALSE]
  /\ asize = [p \in Procs |-> 0]
  /\ floor = [n \in Nodes |-> 0]
  /\ since = [p \in Procs |-> 0]

\* History: node n has shown version v.
Establish(n, v) == IF v > floor[n] THEN [floor EXCEPT ![n] = v] ELSE floor

GoTo(p, label) == pc' = [pc EXCEPT ![p] = label]
Cached(n) == data[n].len # 0 \/ err[n]

\* A kernel request arrives: bazil's fs.Serve starts a goroutine for it.
FirstStep(o) ==
  CASE o = "read" -> "check" [] o = "attr" -> "getattr"
    [] o = "write" -> "serve" [] o = "setattr" -> "resize"

Begin(p, n, o) ==
  /\ pc[p] = "idle"
  /\ GoTo(p, FirstStep(o))
  /\ op' = [op EXCEPT ![p] = o]
  /\ node' = [node EXCEPT ![p] = n]
  /\ since' = [since EXCEPT ![p] = floor[n]]
  /\ UNCHANGED <<routes, file, cache, lock, result, floor>>

----------------------------------------------------------------------------
(* fetchData, called by Read and by Attr *)

\* n.mu.Lock: the goroutine is the writer inside n.mu.
LockSkipped(p) == UNCHANGED lock
Lock(p) == lock' = [lock EXCEPT ![node[p]] = p]

\* The deferred n.mu.Unlock.
UnlockUnlessError(p) ==
  lock' = IF fail[p] THEN lock ELSE [lock EXCEPT ![node[p]] = NoProc]
Unlock(p) == lock' = [lock EXCEPT ![node[p]] = NoProc]

AfterFetch(p) == IF op[p] = "attr" THEN "size" ELSE "reply"

\* The read lock and the first look at the cache.
FetchCheck(p) ==
  LET n == node[p] IN
  /\ pc[p] = "check"
  /\ lock[n] = NoProc
  /\ IF Cached(n)
       THEN /\ got' = [got EXCEPT ![p] = data[n]]
            /\ fail' = [fail EXCEPT ![p] = err[n]]
            /\ GoTo(p, AfterFetch(p))
       ELSE /\ GoTo(p, "lock")
            /\ UNCHANGED <<got, fail>>
  /\ UNCHANGED <<routes, file, cache, lock, request, asize, floor>>

\* The write lock and the second look: another request may have filled it.
SecondLookSkipped(n) == FALSE
SecondLook(n) == Cached(n)

FetchLock(p) ==
  LET n == node[p] IN
  /\ pc[p] = "lock"
  /\ lock[n] = NoProc
  /\ IF SecondLook(n)
       THEN /\ got' = [got EXCEPT ![p] = data[n]]
            /\ fail' = [fail EXCEPT ![p] = err[n]]
            /\ GoTo(p, AfterFetch(p))
            /\ UNCHANGED lock
       ELSE /\ Lock(p)
            /\ GoTo(p, "fetch")
            /\ UNCHANGED <<got, fail>>
  /\ UNCHANGED <<routes, file, cache, request, asize, floor>>

\* The read handler runs: it returns the content of this moment, or fails.
\* Without a read handler the router's error is turned into no content.
FetchServe(p) ==
  /\ pc[p] = "fetch"
  /\ IF "read" \in routes
       THEN \/ got' = [got EXCEPT ![p] = file] /\ UNCHANGED fail
            \/ fail' = [fail EXCEPT ![p] = TRUE] /\ UNCHANGED got
       ELSE /\ got' = [got EXCEPT ![p] = [data[node[p]] EXCEPT !.len = 0]]
            /\ UNCHANGED fail
  /\ GoTo(p, "store")
  /\ UNCHANGED <<routes, file, cache, lock, request, asize, floor>>

\* The outcome is cached, an error as well as a content, but not the router's
\* "no handler registered"; the deferred Unlock runs.
CachedErrorAlways(p) == fail[p] \/ "read" \notin routes
CachedError(p) == fail[p]

FetchedSizeOffByOne(p) == got[p].len + 1
FetchedSize(p) == got[p].len

FetchStore(p) ==
  LET n == node[p] IN
  /\ pc[p] = "store"
  /\ IF CachedError(p)
       THEN /\ err' = [err EXCEPT ![n] = TRUE]
            /\ UNCHANGED <<data, size, floor>>
     ELSE IF "read" \notin routes THEN UNCHANGED <<cache, floor>>
       ELSE /\ data' = [data EXCEPT ![n] = got[p]]
            /\ size' = [size EXCEPT ![n] = FetchedSize(p)]
            /\ floor' = Establish(n, got[p].ver)
            /\ UNCHANGED err
  /\ Unlock(p)
  /\ GoTo(p, AfterFetch(p))
  /\ UNCHANGED <<routes, file, request, result>>

\* Read answers a slice of what fetchData returned, or its error.
ReadReply(p) ==
  /\ pc[p] = "reply"
  /\ GoTo(p, "done")
  /\ UNCHANGED <<routes, file, cache, lock, request, result, floor>>

----------------------------------------------------------------------------
(* Attr *)

\* The getattr handler may give a size, give other attributes only (the size
\* stays 0), or fail or be missing, which falls back on the content.
AttrServe(p) ==
  /\ pc[p] = "getattr"
  /\ \/ /\ "getattr" \in routes
        /\ \E s \in Lengths : asize' = [asize EXCEPT ![p] = s]
        /\ GoTo(p, "setsize")
     \/ /\ "getattr" \in routes
        /\ GoTo(p, "done")
        /\ UNCHANGED asize
     \/ /\ GoTo(p, "check")
        /\ UNCHANGED asize
  /\ UNCHANGED <<routes, file, cache, lock, request, got, fail, floor>>

AttrSetSize(p) ==
  LET n == node[p] IN
  /\ pc[p] = "setsize"
  /\ lock[n] = NoProc
  /\ size' = [size EXCEPT ![n] = asize[p]]
  /\ GoTo(p, "done")
  /\ UNCHANGED <<routes, file, data, err, lock, request, result, floor>>

\* The fallback reads the cached size under a lock of its own, after
\* fetchData has let the first one go.
AttrSize(p) ==
  LET n == node[p] IN
  /\ pc[p] = "size"
  /\ lock[n] = NoProc
  /\ asize' = [asize EXCEPT ![p] = size[n]]
  /\ GoTo(p, "done")
  /\ UNCHANGED <<routes, file, cache, lock, request, got, fail, floor>>

----------------------------------------------------------------------------
(* Write and Setattr *)

\* The write handler runs outside n.mu.  It may succeed with a response of any
\* length, or fail, having changed the file or not.
NextContent == {[ver |-> file.ver + 1, len |-> l] : l \in Lengths}

WriteServe(p) ==
  /\ pc[p] = "serve"
  /\ \/ /\ "write" \in routes /\ file.ver < MaxVer
        /\ file' \in NextContent
        /\ got' \in {[got EXCEPT ![p] = c] : c \in NextContent}
        /\ GoTo(p, "update")
        /\ UNCHANGED fail
     \/ /\ "write" \in routes /\ file.ver < MaxVer
        /\ file' \in NextContent
        /\ fail' = [fail EXCEPT ![p] = TRUE]
        /\ GoTo(p, "done")
        /\ UNCHANGED got
     \/ /\ fail' = [fail EXCEPT ![p] = TRUE]
        /\ GoTo(p, "done")
        /\ UNCHANGED <<file, got>>
  /\ UNCHANGED <<routes, cache, lock, request, asize, floor>>

\* A completed write is established at once when there is a read handler.
\* Without one the cache is the file, and a write of an earlier handler run
\* that has still to store its response may replace this one.
Overtaken(p) == \E q \in Procs :
  node[q] = node[p] /\ pc[q] = "update" /\ got[q].ver < got[p].ver

\* What the cache holds after a write: nothing, so that the read handler is
\* asked again, or the response.
WrittenKept(p) == IF "read" \in routes THEN data[node[p]] ELSE got[p]
Written(p) == IF "read" \in routes THEN Empty ELSE got[p]

WrittenSize(p) == Written(p).len

WriteUpdate(p) ==
  LET n == node[p] IN
  /\ pc[p] = "update"
  /\ lock[n] = NoProc
  /\ data' = [data EXCEPT ![n] = Written(p)]
  /\ size' = [size EXCEPT ![n] = WrittenSize(p)]
  /\ err' = [err EXCEPT ![n] = FALSE]
  /\ floor' = IF "read" \in routes \/ ~Overtaken(p)
                THEN Establish(n, got[p].ver) ELSE floor
  /\ GoTo(p, "done")
  /\ UNCHANGED <<routes, file, lock, request, result>>

\* Setattr with a size changes the cached size and nothing else.
SetattrSize(p) ==
  LET n == node[p] IN
  /\ pc[p] = "resize"
  /\ lock[n] = NoProc
  /\ \E s \in Lengths : size' = [size EXCEPT ![n] = s]
  /\ GoTo(p, "done")
  /\ UNCHANGED <<routes, file, data, err, lock, request, result, floor>>

\* The reply reaches the kernel and the goroutine ends, its variables with it.
Return(p) ==
  /\ pc[p] = "done"
  /\ GoTo(p, "idle")
  /\ op' = [op EXCEPT ![p] = "none"]
  /\ since' = [since EXCEPT ![p] = 0]
  /\ got' = [got EXCEPT ![p] = Empty]
  /\ fail' = [fail EXCEPT ![p] = FALSE]
  /\ asize' = [asize EXCEPT ![p] = 0]
  /\ UNCHANGED <<routes, file, cache, lock, node, floor>>

----------------------------------------------------------------------------
Step(p) ==
  \/ FetchCheck(p) \/ FetchLock(p) \/ FetchServe(p) \/ FetchStore(p)
  \/ ReadReply(p)
  \/ AttrServe(p) \/ AttrSetSize(p) \/ AttrSize(p)
  \/ WriteServe(p) \/ WriteUpdate(p) \/ SetattrSize(p)
  \/ Return(p)

Next == \E p \in Procs : Step(p) \/ \E n \in Nodes, o \in Ops : Begin(p, n, o)

Spec == Init /\ [][Next]_vars

\* Handlers return, and sync.RWMutex lets no waiter starve: a goroutine that
\* can go on again and again does.
FairSpec == Spec /\ \A p \in Procs : SF_vars(Step(p))

----------------------------------------------------------------------------
(* Properties *)

TypeOK ==
  /\ routes \in SUBSET {"read", "write", "getattr"}
  /\ file \in Content
  /\ data \in [Nodes -> Content]
  /\ size \in [Nodes -> Lengths]
  /\ err \in [Nodes -> BOOLEAN]
  /\ lock \in [Nodes -> Procs \cup {NoProc}]
  /\ pc \in [Procs -> Labels]
  /\ op \in [Procs -> Ops \cup {"none"}]
  /\ node \in [Procs -> Nodes]
  /\ got \in [Procs -> Content]
  /\ fail \in [Procs -> BOOLEAN]
  /\ asize \in [Procs -> Lengths]
  /\ floor \in [Nodes -> Nat]
  /\ since \in [Procs -> Nat]

\* A node never keeps content older than a write that completed on it, nor than
\* what an earlier fetch brought, although the write handler runs outside n.mu
\* and a fetch may be under way when it does.  Without a read handler the same
\* holds of the stored response, but for handlers that overlapped.
FreshCache == \A n \in Nodes :
  ("read" \in routes => data[n].len > 0) => data[n].ver >= floor[n]

\* A Read that succeeds answers content no older than what its node had
\* established when the read began, and content the script really had.
FreshReads == \A p \in Procs :
  pc[p] = "done" /\ op[p] = "read" /\ ~fail[p] =>
    since[p] <= got[p].ver /\ got[p].ver <= file.ver

\* What keeps the cache fresh, step by step: the strengthening of FreshCache and
\* FreshReads that every action preserves.
LockInv == \A n \in Nodes, p \in Procs :
  lock[n] = p <=> node[p] = n /\ pc[p] \in {"fetch", "store"}
HeldEmpty == \A p \in Procs :
  pc[p] \in {"fetch", "store"} => ~Cached(node[p])
VersionBound ==
  /\ \A n \in Nodes : data[n].ver <= file.ver /\ floor[n] <= file.ver
  /\ \A p \in Procs : got[p].ver <= file.ver
SinceBound == \A p \in Procs : since[p] <= floor[node[p]]
ReadSteps == \A p \in Procs : op[p] = "read" =>
  pc[p] \in {"check", "lock", "fetch", "store", "reply", "done"}
StoreFresh == \A p \in Procs :
  pc[p] = "store" /\ ~fail[p] => got[p].ver >= floor[node[p]]
ReplyFresh == \A p \in Procs :
  op[p] = "read" /\ pc[p] \in {"reply", "done"} /\ ~fail[p] =>
    since[p] <= got[p].ver
PendingFresh == "read" \notin routes =>
  \A p \in Procs : pc[p] = "update" => got[p].ver >= floor[node[p]]

\* Between the handler's answer and the cache, whichever goroutine holds the
\* lock, nothing older than what the node has established is on its way in.
CacheInv ==
  /\ LockInv /\ HeldEmpty /\ VersionBound /\ SinceBound /\ ReadSteps
  /\ FreshCache /\ StoreFresh /\ ReplyFresh /\ PendingFresh

\* A cached error never hides cached content, and is only ever the error of a
\* read handler: the missing handler's error is not cached.
ErrorWithoutContent == \A n \in Nodes :
  err[n] => data[n].len = 0 /\ "read" \in routes

\* What makes it inductive: a goroutine that is about to cache an error got it
\* from a read handler.
FailSteps == \A p \in Procs : fail[p] =>
  /\ pc[p] \in {"store", "size", "reply", "done"}
  /\ pc[p] = "store" => "read" \in routes

\* As long as nothing else sets sizes, the cached size is the length of the
\* cached content, so stat and cat agree.
SizeOfContent ==
  ("setattr" \notin Ops /\ "getattr" \notin routes) =>
    \A n \in Nodes : size[n] = data[n].len

\* What makes it inductive: nobody is on the way to set one.
SizeSteps ==
  ("setattr" \notin Ops /\ "getattr" \notin routes) =>
    \A p \in Procs : pc[p] \notin {"setsize", "resize"}

\* The read handler's outcome is only stored where nothing is cached: of the
\* goroutines that found the cache empty one calls the script, the others take
\* what it stored.
FillsOnlyEmpty ==
  [][\A p \in Procs : FetchStore(p) => ~Cached(node[p])]_vars

\* Every request gets its reply, whatever the handlers answer.
EveryRequestReturns == \A p \in Procs : pc[p] # "idle" ~> pc[p] = "idle"

\* The nodes implement MountedFile.
Answered(p) == pc[p] = "done" /\ op[p] = "read" /\ ~fail[p]

Mounted == INSTANCE MountedFile WITH
  Calls <- Procs,
  written <- file.ver,
  established <- floor,
  status <- [p \in Procs |-> IF pc[p] = "idle" THEN "idle"
                             ELSE IF Answered(p) THEN "answered" ELSE "open"],
  answer <- [p \in Procs |-> IF Answered(p) THEN got[p].ver ELSE 0]

\* Every step of the cache is a step the readers of a mounted file allow, or
\* one they cannot see.
ImplementsMountedFile == Mounted!Spec
=============================================================================
