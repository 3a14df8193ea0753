-------------------------- MODULE LifecycleProofs --------------------------
(***************************************************************************)
(* Proofs about Lifecycle: whatever the bound on calls and whichever       *)
(* unmount attempts fail, shutdown never closes the script's states under  *)
(* a FUSE request, and main's end leaves no mount behind.                  *)
(***************************************************************************)
EXTENDS Lifecycle, TLAPS

\* Every step keeps the variables in their types.
LEMMA TypeStep == TypeOK /\ [Next]_vars => TypeOK'
<1> SUFFICES ASSUME TypeOK, [Next]_vars PROVE TypeOK'
  OBVIOUS
<1> USE MaxCallsAssumption
<1>1. CASE MainStep
  <2>1. CASE Load
    BY <2>1, Zenon DEF TypeOK, Load, fuse, listening
  <2>7. CASE Mount
    <3>1. /\ mounted' \in BOOLEAN /\ serve' \in {"none", "serving", "done"}
          /\ session' \in {"none", "attached", "detached", "ended"}
      BY <2>7, Zenon DEF TypeOK, Mount
    <3>2. main' \in {"start", "exited"} /\ backend' \in {"none", "open", "closed"}
      BY <2>7, Zenon DEF TypeOK, Mount
    <3>3. UNCHANGED <<prots, calls, canceled, try, listening>>
      BY <2>7, Zenon DEF Mount
    <3> QED BY <3>1, <3>2, <3>3, Zenon DEF TypeOK, listening
  <2>8. CASE Start
    <3>1. main' = "notify" /\ UNCHANGED <<prots, backend, calls, fuse, field, sshServer,
                                         socket, conns, stopped, late>>
      BY <2>8, Zenon DEF Start
    <3>2. pc' \in [Sockets -> {"none", "open", "assign", "accept", "ended"}]
      BY <2>8 DEF Start
    <3> QED BY <3>1, <3>2, Zenon DEF TypeOK, fuse
  <2>9. CASE Notify
    BY <2>9, Zenon DEF TypeOK, Notify, fuse, listening
  <2>2. CASE Unmount
    <3>1. canceled' \in BOOLEAN /\ main' \in {"attempt", "stop"}
      BY <2>2, Zenon DEF TypeOK, Unmount
    <3>2. try' \in 0 .. 5
      <4>1. try' = 1 \/ try' = try
        BY <2>2, Zenon DEF Unmount
      <4> QED BY <4>1 DEF TypeOK
    <3> QED BY <2>2, <3>1, <3>2 DEF TypeOK, Unmount, listening
  <2>5. CASE Attempt
    <3>1. try' \in 0 .. 5
      BY <2>5 DEF TypeOK, Attempt, TriesAnother
    <3> QED BY <2>5, <3>1, ZenonT(30) DEF TypeOK, Attempt, listening
  <2>6. CASE CloseConn
    BY <2>6 DEF TypeOK, CloseConn, listening
  <2>3. ASSUME NEW s \in Sockets, Stop(s) PROVE TypeOK'
    BY <2>3 DEF TypeOK, Stop, fuse
  <2>4. CASE StopsOver \/ Wait \/ CloseBackend \/ Exit
    BY <2>4 DEF TypeOK, StopsOver, Wait, CloseBackend, Exit, fuse, listening
  <2> QED BY <1>1, <2>1, <2>2, <2>3, <2>4, <2>5, <2>6, <2>7, <2>8, <2>9 DEF MainStep
<1>2. CASE Signal \/ ServeReturns \/ UnmountedOutside \/ SessionEnds
  BY <1>2 DEF TypeOK, Signal, ServeReturns, UnmountedOutside, SessionEnds, fuse,
              listening
<1>3. ASSUME NEW s \in Sockets, Listen(s) \/ AssignListener(s) \/ Accept(s)
      PROVE TypeOK'
  <2>1. CASE Listen(s)
    <3>1. sshServer' \in BOOLEAN
      BY <2>1, Zenon DEF TypeOK, Listen
    <3>2. pc' \in [Sockets -> {"none", "open", "assign", "accept", "ended"}]
          /\ socket' \in [Sockets -> {"none", "open", "closed"}]
      BY <2>1 DEF TypeOK, Listen
    <3>3. UNCHANGED <<prots, main, backend, calls, fuse, field, conns, stopped, late>>
      BY <2>1, Zenon DEF Listen
    <3> QED BY <3>1, <3>2, <3>3 DEF TypeOK, fuse
  <2>2. CASE AssignListener(s)
    BY <2>2 DEF TypeOK, AssignListener, fuse
  <2>3. CASE Accept(s)
    <3>1. conns' \in [Sockets -> BOOLEAN] /\ late' \subseteq Sockets
      BY <2>3, Zenon DEF TypeOK, Accept
    <3>2. pc' \in [Sockets -> {"none", "open", "assign", "accept", "ended"}]
      BY <2>3, Zenon DEF TypeOK, Accept
    <3>3. UNCHANGED <<prots, main, backend, calls, fuse, field, sshServer, socket,
                      stopped>>
      BY <2>3, Zenon DEF Accept
    <3> QED BY <3>1, <3>2, <3>3 DEF TypeOK, fuse
  <2> QED BY <1>3, <2>1, <2>2, <2>3
<1>4. ASSUME NEW p \in Protocols, Call(p) \/ CallReturns(p) PROVE TypeOK'
  <2>1. calls' \in [Protocols -> 0 .. MaxCalls]
    BY <1>4 DEF TypeOK, Call, CallReturns
  <2> QED BY <1>4, <2>1 DEF TypeOK, Call, CallReturns, fuse, listening
<1>5. CASE UNCHANGED vars
  BY <1>5 DEF TypeOK, vars, fuse, listening
<1> QED BY <1>1, <1>2, <1>3, <1>4, <1>5 DEF Next

\* Type correctness of the process's lifecycle.
THEOREM TypeCorrect == Spec => []TypeOK
<1>1. Init => TypeOK
  <2> SUFFICES ASSUME Init PROVE TypeOK
    OBVIOUS
  <2>1. calls \in [Protocols -> 0 .. MaxCalls] /\ try \in 0 .. 5
    BY MaxCallsAssumption DEF Init
  <2> QED BY <2>1, ZenonT(30) DEF Init, TypeOK
<1> QED BY <1>1, TypeStep, PTL DEF Spec

\* Every step keeps what main, the serve goroutine and the kernel's session
\* know of each other.
LEMMA ShutdownStep == TypeOK /\ ShutdownInv /\ [Next]_vars => ShutdownInv'
<1> SUFFICES ASSUME TypeOK, ShutdownInv, [Next]_vars PROVE ShutdownInv'
  OBVIOUS
<1> USE DEF ShutdownInv, MountNeedsFuse, Unserved, DoneMeansEnded, NoneMeansNone,
            FuseIsMounted, ClosedAtEnd
<1>1. CASE MainStep
  <2>1. CASE Load
    BY <2>1 DEF TypeOK, Load, fuse, listening
  <2>8. CASE Mount
    <3>1. /\ main = "mount" /\ main' \in {"start", "exited"}
          /\ serve = "none" /\ session = "none" /\ "fuse" \in prots
      BY <2>8 DEF TypeOK, Mount
    <3>2. \/ main' = "start" /\ session' = "attached" /\ serve' = "serving"
               /\ backend' = backend
          \/ main' = "exited" /\ UNCHANGED <<session, serve>>
      BY <2>8, Zenon DEF Mount
    <3>3. UNCHANGED <<prots, calls>>
      BY <2>8, Zenon DEF Mount
    <3> QED BY <3>1, <3>2, <3>3
  <2>9. CASE Start \/ Notify
    BY <2>9 DEF Start, Notify, fuse, listening
  <2>2. CASE Unmount
    <3>1. main = "unmount" /\ main' \in {"attempt", "stop"}
      BY <2>2, Zenon DEF Unmount
    <3>2. UNCHANGED <<prots, backend, calls, serve, session>>
      BY <2>2, Zenon DEF Unmount
    <3> QED BY <3>1, <3>2
  <2>6. CASE Attempt
    <3>1. main = "attempt" /\ main' \in {"attempt", "closeconn", "stop"}
      BY <2>6, Zenon DEF Attempt
    <3>2. \/ session' = session
          \/ session = "attached" /\ session' = "detached"
      BY <2>6, Zenon DEF Attempt
    <3>3. UNCHANGED <<prots, backend, calls, serve>>
      BY <2>6, Zenon DEF Attempt
    <3> QED BY <3>1, <3>2, <3>3
  <2>7. CASE CloseConn
    BY <2>7 DEF CloseConn, listening
  <2>3. ASSUME NEW s \in Sockets, Stop(s) PROVE ShutdownInv'
    BY <2>3 DEF Stop, fuse
  <2>4. CASE StopsOver \/ CloseBackend \/ Exit
    BY <2>4 DEF TypeOK, StopsOver, CloseBackend, Exit, fuse, listening
  \* The step the invariant is for: past Wait there is no session to serve.
  <2>5. CASE Wait
    <3>1. serve \in {"none", "done"}
      BY <2>5 DEF Wait, WaitOver, TypeOK
    <3> QED BY <2>5, <3>1 DEF Wait, fuse, listening
  <2> QED BY <1>1, <2>1, <2>2, <2>3, <2>4, <2>5, <2>6, <2>7, <2>8, <2>9
         DEF MainStep
<1>2. CASE Signal
  BY <1>2 DEF TypeOK, Signal, fuse, listening
<1>3. CASE ServeReturns
  BY <1>3 DEF TypeOK, ServeReturns, CallsOver, Alive
<1>4. CASE UnmountedOutside \/ SessionEnds
  BY <1>4 DEF TypeOK, UnmountedOutside, SessionEnds
<1>5. ASSUME NEW s \in Sockets, Listen(s) \/ AssignListener(s) \/ Accept(s)
      PROVE ShutdownInv'
  BY <1>5 DEF Listen, AssignListener, Accept, fuse
<1>6. ASSUME NEW p \in Protocols, Call(p) \/ CallReturns(p) PROVE ShutdownInv'
  <2>1. serve \in {"none", "done"} => calls'["fuse"] = 0
    BY <1>6 DEF TypeOK, Call, CallReturns, Reachable, Protocols
  <2> QED BY <1>6, <2>1 DEF Call, CallReturns, fuse, listening
<1>7. CASE UNCHANGED vars
  BY <1>7 DEF vars, fuse, listening
<1> QED BY <1>1, <1>2, <1>3, <1>4, <1>5, <1>6, <1>7 DEF Next

\* The inductive invariant of shutdown.
THEOREM ShutdownCorrect == Spec => []ShutdownInv
<1>1. Init => ShutdownInv
  BY DEF Init, ShutdownInv, MountNeedsFuse, Unserved, DoneMeansEnded,
         NoneMeansNone, FuseIsMounted, ClosedAtEnd, Protocols
<1> QED BY <1>1, ShutdownStep, TypeCorrect, PTL DEF Spec

\* backend.Close never runs under a handler that a FUSE request called.
THEOREM BackendOutlivesFuse == Spec => []NoFuseCallOnClosedBackend
<1>1. TypeOK /\ ShutdownInv => NoFuseCallOnClosedBackend
  BY DEF TypeOK, ShutdownInv, MountNeedsFuse, Unserved, FuseIsMounted,
         ClosedAtEnd, NoneMeansNone, NoFuseCallOnClosedBackend
<1> QED BY <1>1, ShutdownCorrect, TypeCorrect, PTL

\* The end of main leaves no mount behind.
THEOREM LeavesNoMount == Spec => []NoMountLeft
<1>1. ShutdownInv => NoMountLeft
  BY DEF ShutdownInv, ClosedAtEnd, DoneMeansEnded, NoneMeansNone, NoMountLeft
<1> QED BY <1>1, ShutdownCorrect, PTL
=============================================================================
