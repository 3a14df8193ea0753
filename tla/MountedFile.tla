---------------------------- MODULE MountedFile ----------------------------
(***************************************************************************)
(* What a mounted file promises its readers, whatever caches sit between   *)
(* them and the script.  The content has versions, one per run of the      *)
(* write handler.  Every file node has a version it has established: the   *)
(* newest one a completed write left or a completed fetch brought.  A call *)
(* answers a version no older than what its node had established when the  *)
(* call was made, and no newer than the newest run of the write handler.   *)
(* FuseNode, the cache of internal/fuse/server.go, is shown to implement   *)
(* this module.                                                            *)
(***************************************************************************)
EXTENDS Naturals

CONSTANTS Calls,        \* the requests in progress, one per goroutine
          Nodes         \* the file nodes the kernel holds for the path

VARIABLES written,      \* version of the newest run of the write handler
          established,  \* per node, the version it has established
          status,       \* per call: "idle", "open" or "answered"
          since,        \* per call, what its node had established at its start
          answer        \* per call, the version it answered

avars == <<written, established, status, since, answer>>

Init ==
  /\ written = 0
  /\ established = [n \in Nodes |-> 0]
  /\ status = [c \in Calls |-> "idle"]
  /\ since = [c \in Calls |-> 0]
  /\ answer = [c \in Calls |-> 0]

\* A call on node n is made.
Invoke(c, n) ==
  /\ status[c] = "idle"
  /\ status' = [status EXCEPT ![c] = "open"]
  /\ since' = [since EXCEPT ![c] = established[n]]
  /\ UNCHANGED <<written, established, answer>>

\* The write handler runs and gives the file its next version.
HandlerWrites ==
  /\ written' = written + 1
  /\ UNCHANGED <<established, status, since, answer>>

\* What a node has established only grows, and never passes the handler.
Establish(n) ==
  /\ \E v \in established[n] .. written :
       established' = [established EXCEPT ![n] = v]
  /\ UNCHANGED <<written, status, since, answer>>

Answer(c) ==
  /\ status[c] = "open"
  /\ \E v \in since[c] .. written : answer' = [answer EXCEPT ![c] = v]
  /\ status' = [status EXCEPT ![c] = "answered"]
  /\ UNCHANGED <<written, established, since>>

\* A call ends, with its answer or without one (an error, or not a read).
Return(c) ==
  /\ status[c] \in {"open", "answered"}
  /\ status' = [status EXCEPT ![c] = "idle"]
  /\ answer' = [answer EXCEPT ![c] = 0]
  /\ since' = [since EXCEPT ![c] = 0]
  /\ UNCHANGED <<written, established>>

Next ==
  \/ \E c \in Calls, n \in Nodes : Invoke(c, n)
  \/ HandlerWrites
  \/ \E n \in Nodes : Establish(n)
  \/ \E c \in Calls : Answer(c)
  \/ \E c \in Calls : Return(c)

Spec == Init /\ [][Next]_avars
=============================================================================
