----------------------------- MODULE Lifecycle ------------------------------
(***************************************************************************)
(* Start and shutdown of the process: main (cmd/nklhd/main.go), the FUSE   *)
(* server's Mount, Unmount and Wait with their serve goroutine             *)
(* (internal/fuse/server.go), and Serve and Stop of the 9p and SSH servers *)
(* (internal/ninep/server.go, internal/sshfs/server.go).                   *)
(*                                                                         *)
(* The kernel's side of the mount and the bodies of fs.Serve, the SSH      *)
(* library and the handlers are external.  Calls of script handlers are    *)
(* counted per protocol.                                                   *)
(***************************************************************************)
EXTENDS Naturals

CONSTANTS MaxCalls      \* bound on the handler calls in flight of a protocol

ASSUME MaxCallsAssumption == MaxCalls \in Nat \ {0}

Protocols == {"fuse", "9p", "ssh"}
Sockets == {"9p", "ssh"}

VARIABLES prots,     \* the protocols of the configuration
          main,      \* the next step of the main goroutine
          try,       \* Unmount's attempt in progress
          backend,   \* "none", "open" or "closed": the script's states
          mounted,   \* fuse.Server: mountPoint # "" and conn # nil
          canceled,  \* fuse.Server: the context is canceled
          serve,     \* the goroutine that Mount starts
          session,   \* external: the kernel's FUSE session
          pc,        \* the Serve goroutine of a socket protocol
          field,     \* its s.listener is set
          sshServer, \* its s.sshServer is set
          socket,    \* the listening socket
          conns,     \* external: some client is connected
          calls,     \* handler calls in flight
          stopped,   \* history: Stop has returned
          late       \* history: a connection was accepted after that

fuse == <<mounted, canceled, serve, session, try>>
listening == <<pc, field, sshServer, socket, conns, stopped, late>>
vars == <<prots, main, backend, calls, fuse, listening>>

Alive == main # "exited"

Init ==
  /\ prots \in SUBSET Protocols \ {{}}
  /\ main = "load" /\ backend = "none" /\ try = 0
  /\ mounted = FALSE /\ canceled = FALSE /\ serve = "none" /\ session = "none"
  /\ pc = [s \in Sockets |-> "none"]
  /\ field = [s \in Sockets |-> FALSE]
  /\ sshServer = FALSE
  /\ socket = [s \in Sockets |-> "none"]
  /\ conns = [s \in Sockets |-> FALSE]
  /\ calls = [p \in Protocols |-> 0]
  /\ stopped = [s \in Sockets |-> FALSE]
  /\ late = {}

----------------------------------------------------------------------------
(* Starting *)

\* A script that cannot be loaded ends the process with log.Fatalf.
Load ==
  /\ main = "load"
  /\ \/ backend' = "open" /\ main' = IF "fuse" \in prots THEN "mount" ELSE "start"
     \/ backend' = "closed" /\ main' = "exited"
  /\ UNCHANGED <<prots, calls, fuse, listening>>

\* Server.Mount; its goroutine serves the new session.  Without a directory to
\* mount on the process ends before main gets to close the backend.
Mount ==
  /\ main = "mount"
  /\ \/ /\ mounted' = TRUE /\ session' = "attached" /\ serve' = "serving"
        /\ main' = "start"
        /\ UNCHANGED backend
     \/ /\ backend' \in {backend, "closed"} /\ main' = "exited"
        /\ UNCHANGED <<mounted, session, serve>>
  /\ UNCHANGED <<prots, calls, canceled, try, listening>>

Start ==
  /\ main = "start"
  /\ pc' = [s \in Sockets |-> IF s \in prots THEN "open" ELSE "none"]
  /\ main' = "notify"
  /\ UNCHANGED <<prots, backend, calls, fuse, field, sshServer, socket, conns,
                 stopped, late>>

Notify ==
  /\ main = "notify"
  /\ main' = "running"
  /\ UNCHANGED <<prots, backend, calls, fuse, listening>>

\* SIGTERM: before signal.Notify it kills the process, later ones are not read.
Signal ==
  /\ main \in {"load", "mount", "start", "notify", "running"}
  /\ main' = IF main # "running" THEN "exited"
             ELSE IF "fuse" \in prots THEN "unmount" ELSE "stop"
  /\ UNCHANGED <<prots, backend, calls, fuse, listening>>

----------------------------------------------------------------------------
(* fuse.Server *)

\* Unmount reads its state under the mutex, then cancels the context, which
\* nothing listens to.
Unmount ==
  /\ main = "unmount"
  /\ IF mounted THEN canceled' = TRUE /\ try' = 1 /\ main' = "attempt"
                ELSE main' = "stop" /\ UNCHANGED <<canceled, try>>
  /\ UNCHANGED <<prots, backend, calls, mounted, serve, session, listening>>

\* fusermount -u -z, fusermount -u, fuse.Unmount and two syscalls in turn.
\* Each may fail.
TriesOneMore == try <= 5
TriesAnother == try < 5

Attempt ==
  /\ main = "attempt"
  /\ \/ /\ session = "attached"
        /\ session' = "detached" /\ main' = "closeconn"
        /\ UNCHANGED try
     \/ /\ IF TriesAnother THEN try' = try + 1 /\ UNCHANGED main
                           ELSE main' = "stop" /\ UNCHANGED try
        /\ UNCHANGED session
  /\ UNCHANGED <<prots, backend, calls, mounted, canceled, serve, listening>>

\* conn.Close, which may end the session before its last file is closed, and
\* clearMount.
CloseConn ==
  /\ main = "closeconn"
  /\ mounted' = FALSE /\ main' = "stop"
  /\ \/ UNCHANGED session
     \/ session = "detached" /\ session' = "ended"
  /\ UNCHANGED <<prots, backend, calls, canceled, serve, try, listening>>

\* fs.Serve returns when the session has ended and its handlers have returned;
\* the goroutine then closes serveDone.
CallsLeftRunning == TRUE
CallsOver == calls["fuse"] = 0
ServeReturns ==
  /\ Alive /\ serve = "serving" /\ session = "ended" /\ CallsOver
  /\ serve' = "done"
  /\ UNCHANGED <<prots, main, backend, calls, mounted, canceled, session, try,
                 listening>>

----------------------------------------------------------------------------
(* The 9p and SSH servers *)

\* Serve makes its socket, and after it, without a lock, sets the field that
\* Stop looks at.  The SSH server object is set before the socket is made.
Listen(s) ==
  /\ Alive /\ pc[s] = "open"
  /\ \/ /\ socket' = [socket EXCEPT ![s] = "open"]
        /\ pc' = [pc EXCEPT ![s] = "assign"]
        /\ sshServer' = (sshServer \/ s = "ssh")
     \/ /\ pc' = [pc EXCEPT ![s] = "ended"]
        /\ sshServer' \in {sshServer, sshServer \/ s = "ssh"}
        /\ UNCHANGED socket
  /\ UNCHANGED <<prots, main, backend, calls, fuse, field, conns, stopped, late>>

AssignListener(s) ==
  /\ Alive /\ pc[s] = "assign"
  /\ field' = [field EXCEPT ![s] = TRUE]
  /\ pc' = [pc EXCEPT ![s] = "accept"]
  /\ UNCHANGED <<prots, main, backend, calls, fuse, sshServer, socket, conns,
                 stopped, late>>

Accept(s) ==
  /\ Alive /\ pc[s] = "accept"
  /\ IF socket[s] = "open"
       THEN /\ conns' = [conns EXCEPT ![s] = TRUE]
            /\ late' = IF stopped[s] THEN late \cup {s} ELSE late
            /\ UNCHANGED pc
       ELSE pc' = [pc EXCEPT ![s] = "ended"] /\ UNCHANGED <<conns, late>>
  /\ UNCHANGED <<prots, main, backend, calls, fuse, field, sshServer, socket,
                 stopped>>

\* main stops the 9p server, then the SSH server.  The first closes its
\* listener; the second its connections and the listener it serves or has set.
ClosedByStop(s) == field[s]

Stop(s) ==
  /\ main = "stop" /\ s \in prots /\ ~stopped[s]
  /\ s = "ssh" /\ "9p" \in prots => stopped["9p"]
  /\ socket' = IF ClosedByStop(s) THEN [socket EXCEPT ![s] = "closed"] ELSE socket
  /\ conns' = IF s = "ssh" /\ sshServer THEN [conns EXCEPT ![s] = FALSE] ELSE conns
  /\ stopped' = [stopped EXCEPT ![s] = TRUE]
  /\ UNCHANGED <<prots, main, backend, calls, fuse, pc, field, sshServer, late>>

----------------------------------------------------------------------------
(* Leaving *)

\* Wait: main waits for serveDone, if there is a FUSE server.
WaitSkipped == TRUE
WaitAlways == serve = "done"
WaitOver == "fuse" \in prots => serve = "done"

StopsOver ==
  /\ main = "stop" /\ \A s \in Sockets \cap prots : stopped[s]
  /\ main' = "wait"
  /\ UNCHANGED <<prots, backend, calls, fuse, listening>>

Wait ==
  /\ main = "wait" /\ WaitOver
  /\ main' = "close"
  /\ UNCHANGED <<prots, backend, calls, fuse, listening>>

\* The deferred backend.Close runs while goroutines of the process still do.
CloseBackend ==
  /\ main = "close" /\ backend = "open"
  /\ backend' = "closed"
  /\ UNCHANGED <<prots, main, calls, fuse, listening>>

Exit ==
  /\ main = "close" /\ backend = "closed"
  /\ main' = "exited"
  /\ UNCHANGED <<prots, backend, calls, fuse, listening>>

----------------------------------------------------------------------------
(* Handlers and the kernel *)

Reachable(p) ==
  IF p = "fuse" THEN serve = "serving" /\ session \in {"attached", "detached"}
                ELSE conns[p]

Call(p) ==
  /\ Alive /\ Reachable(p) /\ calls[p] < MaxCalls
  /\ calls' = [calls EXCEPT ![p] = @ + 1]
  /\ UNCHANGED <<prots, main, backend, fuse, listening>>

CallReturns(p) ==
  /\ Alive /\ calls[p] > 0
  /\ calls' = [calls EXCEPT ![p] = @ - 1]
  /\ UNCHANGED <<prots, main, backend, fuse, listening>>

\* Somebody unmounts from outside; a detached session ends when the last file
\* in it is closed.
UnmountedOutside ==
  /\ session = "attached"
  /\ session' = "detached"
  /\ UNCHANGED <<prots, main, backend, calls, mounted, canceled, serve, try,
                 listening>>

SessionEnds ==
  /\ session = "detached"
  /\ session' = "ended"
  /\ UNCHANGED <<prots, main, backend, calls, mounted, canceled, serve, try,
                 listening>>

MainStep ==
  \/ Load \/ Mount \/ Start \/ Notify
  \/ Unmount \/ Attempt \/ CloseConn
  \/ \E s \in Sockets : Stop(s)
  \/ StopsOver \/ Wait \/ CloseBackend \/ Exit

Next ==
  \/ MainStep \/ Signal \/ ServeReturns
  \/ \E s \in Sockets : Listen(s) \/ AssignListener(s) \/ Accept(s)
  \/ \E p \in Protocols : Call(p) \/ CallReturns(p)
  \/ UnmountedOutside \/ SessionEnds

Spec == Init /\ [][Next]_vars

\* Main and the serve goroutine are never stopped by others, handlers return,
\* and files of a detached session get closed.
FairSpec ==
  /\ Spec
  /\ WF_vars(MainStep) /\ WF_vars(ServeReturns) /\ WF_vars(SessionEnds)
  /\ \A p \in Protocols : WF_vars(CallReturns(p))

----------------------------------------------------------------------------
(* Properties *)

TypeOK ==
  /\ prots \in SUBSET Protocols
  /\ main \in {"load", "mount", "start", "notify", "running", "unmount",
               "attempt", "closeconn", "stop", "wait", "close", "exited"}
  /\ try \in 0 .. 5
  /\ backend \in {"none", "open", "closed"}
  /\ mounted \in BOOLEAN /\ canceled \in BOOLEAN
  /\ serve \in {"none", "serving", "done"}
  /\ session \in {"none", "attached", "detached", "ended"}
  /\ pc \in [Sockets -> {"none", "open", "assign", "accept", "ended"}]
  /\ field \in [Sockets -> BOOLEAN] /\ sshServer \in BOOLEAN
  /\ socket \in [Sockets -> {"none", "open", "closed"}]
  /\ conns \in [Sockets -> BOOLEAN]
  /\ calls \in [Protocols -> 0 .. MaxCalls]
  /\ stopped \in [Sockets -> BOOLEAN]
  /\ late \subseteq Sockets

\* The scripts' states are never closed under a handler that a FUSE request
\* called: Wait holds main back until the last of them has returned.
NoFuseCallOnClosedBackend == backend = "closed" => calls["fuse"] = 0

\* A process that leaves by the end of main leaves no mount behind, even when
\* every attempt to unmount failed and somebody else had to do it.
NoMountLeft == main = "exited" /\ backend = "closed" => session # "attached"

\* What makes these two inductive: main passes Wait only after the goroutine is
\* done, which is only after the session has ended and its calls returned.
MountNeedsFuse ==
  /\ session # "none" => "fuse" \in prots /\ main \notin {"load", "mount"}
  /\ main = "mount" => "fuse" \in prots
Unserved == serve \in {"none", "done"} => calls["fuse"] = 0
DoneMeansEnded == serve = "done" => session = "ended"
NoneMeansNone == serve = "none" <=> session = "none"
FuseIsMounted ==
  "fuse" \in prots /\ session = "none" => main \in {"load", "mount", "exited"}
ClosedAtEnd ==
  /\ backend = "closed" => main \in {"close", "exited"}
  /\ main = "close" \/ (main = "exited" /\ backend = "closed") =>
       serve \in {"none", "done"}
ShutdownInv ==
  /\ MountNeedsFuse /\ Unserved /\ DoneMeansEnded /\ NoneMeansNone
  /\ FuseIsMounted /\ ClosedAtEnd

\* After the signal that main waits for, the process ends.  There is one thing
\* it may wait for: that somebody unmounts what Unmount could not.
Leaving == main \in {"unmount", "attempt", "closeconn", "stop", "wait", "close"}
StillMounted == main = "wait" /\ session = "attached"
ShutdownCompletes == Leaving ~> main = "exited" \/ StillMounted

\* "After Stop returns, no new connections will be accepted."
\* (ninep/server.go:311).
NoneAcceptedAfterStop == "9p" \notin late
=============================================================================
