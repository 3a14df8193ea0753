--------------------------- MODULE BackendsProofs ---------------------------
(***************************************************************************)
(* Proofs about Backends, for every set of scripts, requests and modules:  *)
(* a request is answered with what its own call of a handler returned, in  *)
(* Tengo always, in Lua until goroutines race in the state; what handlers  *)
(* keep between calls; and what they find in their request.                *)
(***************************************************************************)
EXTENDS Backends, FiniteSetTheorems, TLAPS

\* While the script is loaded no request is made.
LEMMA LoadingStep ==
  ASSUME AnswerInv, Assign \/ Route \/ LoadFails \/ Loaded
  PROVE  AnswerInv'
<1>1. /\ phase = "loading"
      /\ UNCHANGED <<lang, script, stack, raced, frame, call>>
  BY DEF Assign, Route, LoadFails, Loaded
<1>2. \A r \in Requests : call[r].pc = "idle"
  BY <1>1 DEF AnswerInv, IdleAtFirst
<1>3. \A r \in Requests : call'[r].pc = "idle"
  BY <1>1, <1>2
<1>4. Inside = {} /\ Inside' = {}
  BY <1>2, <1>3 DEF Inside
<1>5. CallsOk' /\ IdleAtFirst' /\ HasHandler' /\ OwnFrame' /\ OneInside'
  BY <1>1, <1>3, <1>4
     DEF AnswerInv, CallsOk, IdleAtFirst, HasHandler, OwnFrame, OneInside
<1>6. OwnStack' /\ OwnAnswer'
  BY <1>1, <1>3, <1>4 DEF AnswerInv, OwnStack, OwnAnswer
<1> QED BY <1>5, <1>6 DEF AnswerInv

\* What a step of one request leaves of the others.
LEMMA Untouched ==
  ASSUME CallsOk, NEW r \in Requests, NEW c, DOMAIN c = DOMAIN Idle,
         c.pc \in {"idle", "called", "entered", "left", "done"},
         call' = [call EXCEPT ![r] = c], lang' = lang, raced' \in BOOLEAN,
         \/ UNCHANGED frame
         \/ \E f : DOMAIN f = DOMAIN NoFrame /\ frame' = [frame EXCEPT ![r] = f]
  PROVE  CallsOk' /\ call'[r] = c /\ \A q \in Requests \ {r} : call'[q] = call[q]
<1>1. call'[r] = c /\ \A q \in Requests \ {r} : call'[q] = call[q]
  BY DEF CallsOk
<1>2. \A q \in Requests : DOMAIN frame'[q] = DOMAIN NoFrame
  BY DEF CallsOk
<1>3. frame' = [q \in Requests |-> frame'[q]] /\ call' = [q \in Requests |-> call'[q]]
  BY DEF CallsOk
<1> QED BY <1>1, <1>2, <1>3 DEF CallsOk

\* A request for which there is no handler.
LEMMA NoHandlerStep ==
  ASSUME AnswerInv, NEW r \in Requests, NEW ask \in Asks, NoHandler(r, ask)
  PROVE  AnswerInv'
<1> DEFINE c == [call[r] EXCEPT !.pc = "done", !.op = ask.op, !.via = ask.via,
                                !.answer = [tag |-> "error", of |-> None]]
<1>1. /\ call[r].pc = "idle" /\ call' = [call EXCEPT ![r] = c]
      /\ handlers[ask.op] = 0
      /\ UNCHANGED <<lang, script, phase, handlers, stack, raced, frame>>
  BY DEF NoHandler, AnswerInv, CallsOk
<1>2. DOMAIN c = DOMAIN Idle /\ c.pc = "done" /\ c.op = ask.op
  BY DEF AnswerInv, CallsOk, Idle
<1> HIDE DEF c
<1>3. CallsOk' /\ call'[r] = c /\ \A q \in Requests \ {r} : call'[q] = call[q]
  <2>1. lang' = lang /\ raced' \in BOOLEAN
    BY <1>1 DEF AnswerInv, CallsOk
  <2> QED BY <1>1, <1>2, <2>1, Untouched DEF AnswerInv
<1>4. Inside' = Inside
  BY <1>1, <1>2, <1>3 DEF Inside
<1>5. phase # "loading"
  BY DEF NoHandler
<1>6. IdleAtFirst' /\ HasHandler' /\ OwnFrame' /\ OneInside'
  BY <1>1, <1>2, <1>3, <1>4, <1>5
     DEF AnswerInv, IdleAtFirst, HasHandler, OwnFrame, OneInside, Inside
<1>7. OwnStack' /\ OwnAnswer'
  BY <1>1, <1>2, <1>3, <1>4 DEF AnswerInv, OwnStack, OwnAnswer, Returns, Inside
<1> QED BY <1>3, <1>6, <1>7 DEF AnswerInv

\* A request for which there is one: a Lua call joins those inside.
LEMMA CallStep ==
  ASSUME AnswerInv, NEW r \in Requests, NEW ask \in Asks, Call(r, ask)
  PROVE  AnswerInv'
<1> DEFINE c == [call[r] EXCEPT !.pc = "called", !.op = ask.op, !.via = ask.via]
           f == [NoFrame EXCEPT !.scalar = scalar]
<1>1. /\ call[r].pc = "idle" /\ call' = [call EXCEPT ![r] = c]
      /\ handlers[ask.op] # 0 /\ phase # "loading"
      /\ raced' = (raced \/ (lang = "lua" /\ Inside # {}))
      /\ UNCHANGED <<lang, script, phase, handlers, stack>>
  BY DEF Call, AnswerInv, CallsOk
<1>2. UNCHANGED frame \/ frame' = [frame EXCEPT ![r] = f]
  BY DEF Call, Globals
<1>3. DOMAIN c = DOMAIN Idle /\ c.pc = "called" /\ c.op = ask.op
  BY DEF AnswerInv, CallsOk, Idle
<1>4. \/ UNCHANGED frame
      \/ \E g : DOMAIN g = DOMAIN NoFrame /\ frame' = [frame EXCEPT ![r] = g]
  <2>1. DOMAIN f = DOMAIN NoFrame
    BY DEF NoFrame
  <2> QED BY <1>2, <2>1
<1> HIDE DEF c, f
<1>5. CallsOk' /\ call'[r] = c /\ \A q \in Requests \ {r} : call'[q] = call[q]
  <2>1. lang' = lang /\ raced' \in BOOLEAN
    BY <1>1 DEF AnswerInv, CallsOk
  <2> QED BY <1>1, <1>3, <1>4, <2>1, Untouched DEF AnswerInv
<1>6. \A q \in Requests \ {r} : frame'[q] = frame[q]
  BY <1>2 DEF AnswerInv, CallsOk
<1>7. Inside' = Inside \cup {r} /\ r \notin Inside
  BY <1>1, <1>3, <1>5 DEF Inside
<1>8. IdleAtFirst' /\ HasHandler'
  BY <1>1, <1>3, <1>5, <1>7 DEF AnswerInv, IdleAtFirst, HasHandler
<1>9. OwnFrame'
  BY <1>1, <1>3, <1>5, <1>6 DEF AnswerInv, OwnFrame
<1>10. lang = "lua" /\ ~raced' => ~raced /\ Inside = {} /\ Inside' = {r}
  BY <1>1, <1>7
<1>11. OneInside'
  BY <1>1, <1>10 DEF OneInside
<1>12. OwnStack'
  BY <1>1, <1>3, <1>5, <1>10 DEF AnswerInv, OwnStack
<1>13. OwnAnswer'
  BY <1>1, <1>3, <1>5 DEF AnswerInv, OwnAnswer
<1> QED BY <1>5, <1>8, <1>9, <1>11, <1>12, <1>13 DEF AnswerInv

\* The handler begins.
LEMMA EnterStep ==
  ASSUME AnswerInv, NEW r \in Requests, Enter(r)
  PROVE  AnswerInv'
<1>1. PICK saw : call' = [call EXCEPT ![r] = [call[r] EXCEPT !.pc = "entered", !.saw = saw]]
  BY DEF Enter, AnswerInv, CallsOk
<1> DEFINE c == [call[r] EXCEPT !.pc = "entered", !.saw = saw]
<1>2. /\ call[r].pc = "called" /\ phase # "loading" /\ (raced => raced')
      /\ raced' \in BOOLEAN
      /\ UNCHANGED <<lang, script, phase, handlers, stack, frame>>
  BY DEF Enter, AnswerInv, CallsOk
<1>3. DOMAIN c = DOMAIN Idle /\ c.pc = "entered" /\ c.op = call[r].op
  BY DEF AnswerInv, CallsOk, Idle
<1>4. call' = [call EXCEPT ![r] = c] /\ lang' = lang
  BY <1>1, <1>2
<1> HIDE DEF c
<1>5. CallsOk' /\ call'[r] = c /\ \A q \in Requests \ {r} : call'[q] = call[q]
  BY <1>2, <1>3, <1>4, Untouched DEF AnswerInv
<1>6. Inside' = Inside
  BY <1>2, <1>3, <1>5 DEF Inside
<1>7. IdleAtFirst' /\ HasHandler' /\ OneInside'
  <2>1. HasHandler'
    BY <1>2, <1>3, <1>5, <1>6 DEF AnswerInv, HasHandler, Inside
  <2>2. OneInside'
    BY <1>2, <1>6 DEF AnswerInv, OneInside
  <2> QED BY <1>2, <2>1, <2>2 DEF IdleAtFirst
<1>8. OwnFrame' /\ OwnAnswer'
  BY <1>2, <1>3, <1>5 DEF AnswerInv, OwnFrame, OwnAnswer
<1>9. OwnStack'
  <2> SUFFICES ASSUME lang = "lua", ~raced PROVE OwnStack'
    BY <1>2 DEF OwnStack
  <2>1. Inside = {r} /\ Inside' = {r}
    BY <1>2, <1>6 DEF AnswerInv, OneInside, Inside
  <2>2. stack' = <<>>
    BY <1>2, <2>1 DEF AnswerInv, OwnStack
  <2> QED BY <1>3, <1>5, <2>1, <2>2 DEF OwnStack
<1> QED BY <1>5, <1>7, <1>8, <1>9 DEF AnswerInv

\* The handler ends: its result is in its own array, or on a stack that was
\* empty.
LEMMA LeaveStep ==
  ASSUME AnswerInv, NEW r \in Requests, Leave(r)
  PROVE  AnswerInv'
<1> DEFINE result == [of |-> r, kind |-> Returns(r)]
           c == [call[r] EXCEPT !.pc = "left"]
           f == [frame[r] EXCEPT !.result = result]
<1>1. /\ call[r].pc = "entered" /\ call' = [call EXCEPT ![r] = c] /\ phase # "loading"
      /\ UNCHANGED <<lang, script, phase, handlers, raced>>
      /\ stack' = IF lang = "lua" /\ Returns(r) # "raises"
                    THEN Append(stack, result) ELSE stack
  BY DEF Leave, AnswerInv, CallsOk
<1>2. IF lang = "tengo" THEN frame' = [frame EXCEPT ![r] = f] ELSE UNCHANGED frame
  BY DEF Leave, Globals, AnswerInv, CallsOk
<1>3. DOMAIN c = DOMAIN Idle /\ c.pc = "left" /\ c.op = call[r].op
  BY DEF AnswerInv, CallsOk, Idle
<1>4. DOMAIN f = DOMAIN NoFrame /\ f.result = result
  BY DEF AnswerInv, CallsOk, NoFrame
<1> HIDE DEF c, f
<1>5. CallsOk' /\ call'[r] = c /\ \A q \in Requests \ {r} : call'[q] = call[q]
  <2>1. \/ UNCHANGED frame
        \/ \E g : DOMAIN g = DOMAIN NoFrame /\ frame' = [frame EXCEPT ![r] = g]
    BY <1>2, <1>4
  <2>2. lang' = lang /\ raced' \in BOOLEAN
    BY <1>1 DEF AnswerInv, CallsOk
  <2> QED BY <1>1, <1>3, <2>1, <2>2, Untouched DEF AnswerInv
<1>6. lang = "tengo" => frame'[r] = f /\ \A q \in Requests \ {r} : frame'[q] = frame[q]
  BY <1>2 DEF AnswerInv, CallsOk
<1>7. Inside' = Inside /\ r \in Inside
  BY <1>1, <1>3, <1>5 DEF Inside
<1>8. IdleAtFirst' /\ HasHandler' /\ OneInside'
  BY <1>1, <1>3, <1>5, <1>7 DEF AnswerInv, IdleAtFirst, HasHandler, OneInside, Inside
<1>9. OwnFrame'
  BY <1>1, <1>4, <1>5, <1>6 DEF AnswerInv, OwnFrame
<1>10. OwnStack'
  <2> SUFFICES ASSUME lang = "lua", ~raced PROVE OwnStack'
    BY <1>1 DEF OwnStack
  <2>1. Inside = {r}
    BY <1>7 DEF AnswerInv, OneInside
  <2>2. stack = <<>>
    BY <1>1, <2>1 DEF AnswerInv, OwnStack
  <2>3. Returns(r)' = Returns(r)
    BY <1>1, <1>3, <1>5 DEF Returns
  <2>4. stack' = IF Returns(r) = "raises" THEN <<>> ELSE <<result>>
    BY <1>1, <2>2
  <2> QED BY <1>3, <1>5, <1>7, <2>1, <2>3, <2>4 DEF OwnStack
<1>11. OwnAnswer'
  BY <1>1, <1>3, <1>5 DEF AnswerInv, OwnAnswer
<1> QED BY <1>5, <1>8, <1>9, <1>10, <1>11 DEF AnswerInv

\* Serve takes the result from where its own handler left it.
LEMMA AnswerStep ==
  ASSUME AnswerInv, NEW r \in Requests, Answer(r)
  PROVE  AnswerInv'
<1> DEFINE result == IF lang = "lua" THEN LuaResult(r) ELSE frame[r].result
<1>1. PICK tag : call' = [call EXCEPT ![r] =
                     [call[r] EXCEPT !.pc = "done",
                                     !.answer = [tag |-> tag, of |-> result.of]]]
  BY DEF Answer, Globals, AnswerInv, CallsOk
<1> DEFINE c == [call[r] EXCEPT !.pc = "done", !.answer = [tag |-> tag, of |-> result.of]]
<1>2. /\ call[r].pc = "left" /\ phase # "loading" /\ (lang = "tengo" \/ ~raced)
      /\ UNCHANGED <<lang, script, phase, handlers, raced, frame>>
      /\ stack' = IF lang = "lua" /\ Returns(r) # "raises" THEN Popped(stack) ELSE stack
  BY DEF Answer
<1>3. DOMAIN c = DOMAIN Idle /\ c.pc = "done" /\ c.op = call[r].op /\ c.answer.of = result.of
  BY DEF AnswerInv, CallsOk, Idle
<1>11. call' = [call EXCEPT ![r] = c] /\ lang' = lang /\ raced' \in BOOLEAN
  BY <1>1, <1>2 DEF AnswerInv, CallsOk
<1> HIDE DEF c
<1>4. CallsOk' /\ call'[r] = c /\ \A q \in Requests \ {r} : call'[q] = call[q]
  BY <1>2, <1>3, <1>11, Untouched DEF AnswerInv
<1>5. Inside' = Inside \ {r} /\ r \in Inside
  BY <1>2, <1>3, <1>4 DEF Inside
<1>6. IdleAtFirst' /\ HasHandler' /\ OwnFrame' /\ OneInside'
  BY <1>2, <1>3, <1>4, <1>5
     DEF AnswerInv, IdleAtFirst, HasHandler, OwnFrame, OneInside, Inside
<1>7. lang = "lua" /\ ~raced =>
        /\ Inside = {r}
        /\ stack = IF Returns(r) = "raises" THEN <<>> ELSE <<[of |-> r, kind |-> Returns(r)]>>
  BY <1>2, <1>5 DEF AnswerInv, OneInside, OwnStack
<1>8. OwnStack'
  <2> SUFFICES ASSUME lang = "lua", ~raced PROVE OwnStack'
    BY <1>2 DEF OwnStack
  <2>1. stack' = <<>>
    BY <1>2, <1>7 DEF Popped
  <2> QED BY <1>5, <1>7, <2>1 DEF OwnStack
<1>9. result.of = r
  <2>1. CASE lang = "lua"
    BY <1>2, <1>7, <2>1 DEF LuaResult
  <2>2. CASE lang # "lua"
    BY <1>2, <2>2 DEF AnswerInv, OwnFrame, CallsOk
  <2> QED BY <2>1, <2>2
<1>10. OwnAnswer'
  BY <1>2, <1>3, <1>4, <1>9 DEF AnswerInv, OwnAnswer
<1> QED BY <1>4, <1>6, <1>8, <1>10 DEF AnswerInv

\* After a race the answer is any; the invariant says nothing of it.
LEMMA AnswerAnyStep ==
  ASSUME AnswerInv, NEW r \in Requests, AnswerAny(r)
  PROVE  AnswerInv'
<1>1. PICK answer : call' = [call EXCEPT ![r] =
                                [call[r] EXCEPT !.pc = "done", !.answer = answer]]
  BY DEF AnswerAny, AnswerInv, CallsOk
<1> DEFINE c == [call[r] EXCEPT !.pc = "done", !.answer = answer]
<1>2. /\ lang = "lua" /\ raced /\ phase # "loading"
      /\ UNCHANGED <<lang, script, phase, handlers, raced, frame>>
  BY DEF AnswerAny
<1>3. DOMAIN c = DOMAIN Idle /\ c.pc = "done" /\ c.op = call[r].op
  BY DEF AnswerInv, CallsOk, Idle
<1>4. call' = [call EXCEPT ![r] = c] /\ lang' = lang /\ raced' \in BOOLEAN
  BY <1>1, <1>2
<1> HIDE DEF c
<1>5. CallsOk' /\ call'[r] = c /\ \A q \in Requests \ {r} : call'[q] = call[q]
  BY <1>2, <1>3, <1>4, Untouched DEF AnswerInv
<1>6. HasHandler'
  BY <1>2, <1>3, <1>5 DEF AnswerInv, HasHandler, Inside
<1>7. IdleAtFirst' /\ OwnFrame' /\ OneInside' /\ OwnStack' /\ OwnAnswer'
  BY <1>2 DEF IdleAtFirst, OwnFrame, OneInside, OwnStack, OwnAnswer
<1> QED BY <1>5, <1>6, <1>7 DEF AnswerInv

\* The invariant of all calls, for every step of either backend.
THEOREM AnswersCorrect == Spec => []AnswerInv
<1>1. Init => AnswerInv
  <2> SUFFICES ASSUME Init PROVE AnswerInv
    OBVIOUS
  <2>1. CallsOk
    BY DEF Init, CallsOk, Idle
  <2>2. \A r \in Requests : call[r].pc = "idle"
    BY DEF Init, Idle
  <2>3. Inside = {}
    BY <2>2 DEF Inside
  <2> QED BY <2>1, <2>2, <2>3
          DEF Init, AnswerInv, IdleAtFirst, HasHandler, OwnFrame, OneInside, OwnStack, OwnAnswer
<1>2. AnswerInv /\ [Next]_vars => AnswerInv'
  <2> SUFFICES ASSUME AnswerInv, [Next]_vars PROVE AnswerInv'
    OBVIOUS
  <2>1. CASE Crash
    BY <2>1 DEF Crash, AnswerInv, CallsOk, IdleAtFirst, HasHandler, OwnFrame, OneInside,
                OwnStack, OwnAnswer, Inside, Returns
  <2>2. CASE UNCHANGED vars
    BY <2>2 DEF vars, AnswerInv, CallsOk, IdleAtFirst, HasHandler, OwnFrame, OneInside,
                OwnStack, OwnAnswer, Inside, Returns
  <2> QED
    BY <2>1, <2>2, LoadingStep, NoHandlerStep, CallStep, EnterStep, LeaveStep, AnswerStep,
       AnswerAnyStep DEF Next
<1> QED BY <1>1, <1>2, PTL DEF Spec

\* RouteHandler.Serve: a request is answered with what its own call returned.
THEOREM AnswersAreOwn == Spec => []OwnAnswer
<1>1. AnswerInv => OwnAnswer
  BY DEF AnswerInv
<1> QED BY <1>1, AnswersCorrect, PTL

-----------------------------------------------------------------------------
(* What handlers keep between calls *)

\* At the end of the script its scalar is the last value it was given.
LEMMA LoadedValue ==
  ASSUME script \in Scripts, Len(script) \in Nat, at \in Nat, at > Len(script),
         at \in 1 .. Len(script) + 1, scalar \in 0 .. at - 1,
         scalar # 0 => script[scalar].do = "assign",
         \A i \in 1 .. at - 1 : script[i].do = "assign" => i <= scalar
  PROVE  AsLoaded = scalar
<1> DEFINE assigns == {i \in DOMAIN script : script[i].do = "assign"}
<1>1. DOMAIN script = 1 .. Len(script) /\ at - 1 = Len(script)
  BY ScriptsAssumption
<1>2. \A i \in assigns : i \in Nat /\ i > 0 /\ i <= scalar
  BY <1>1
<1>3. scalar \in Nat /\ (scalar # 0 => scalar \in assigns)
  BY <1>1
<1>4. AsLoaded = IF assigns = {} THEN 0 ELSE CHOOSE i \in assigns : \A j \in assigns : j <= i
  BY DEF AsLoaded
<1> HIDE DEF assigns
<1>5. CASE scalar = 0
  <2>1. assigns = {}
    BY <1>2, <1>5
  <2> QED BY <1>4, <1>5, <2>1
<1>6. CASE scalar # 0
  <2>1. scalar \in assigns /\ \A j \in assigns : j <= scalar
    BY <1>2, <1>3, <1>6
  <2>2. \A i \in assigns : (\A j \in assigns : j <= i) => i = scalar
    BY <1>2, <1>3, <2>1
  <2> QED BY <1>4, <2>1, <2>2
<1> QED BY <1>5, <1>6

\* While the script is loaded, and when it ends.
LEMMA LoadingKeeps ==
  ASSUME AnswerInv, KeptInv, Assign \/ Route \/ LoadFails \/ Loaded
  PROVE  KeptInv'
<1>1. /\ phase = "loading" /\ UNCHANGED <<lang, script, shared, raced, frame, call>>
      /\ script \in Scripts
      /\ at \in 1 .. Len(script) + 1 /\ scalar \in 0 .. at - 1 /\ shared = 0
      /\ scalar # 0 => script[scalar].do = "assign"
      /\ \A i \in 1 .. at - 1 : script[i].do = "assign" => i <= scalar
  BY DEF Assign, Route, LoadFails, Loaded, KeptInv, AssignedSoFar
<1>2. \A r \in Requests : call[r].pc = "idle" /\ call[r].saw = None
  BY <1>1 DEF AnswerInv, IdleAtFirst, KeptInv, Saw
<1>3. Len(script) \in Nat /\ at \in Nat /\ scalar \in Nat
  BY <1>1, ScriptsAssumption
<1>4. Ran = {} /\ Ran' = {}
  BY <1>1, <1>2 DEF Ran
<1>5. IsFiniteSet(Ran') /\ Cardinality(Ran') = 0
  BY <1>4, FS_EmptySet
<1>6. OneEntered'
  BY <1>1, <1>2 DEF OneEntered
<1>7. CASE Assign
  <2>1. /\ at <= Len(script) /\ script[at].do = "assign" /\ scalar' = at /\ at' = at + 1
        /\ phase' = "loading"
    BY <1>1, <1>7 DEF Assign, Statement
  <2>2. Saw'
    BY <1>1, <1>3, <2>1 DEF KeptInv, Saw
  <2>3. AssignedSoFar'
    <3>1. at' \in 1 .. Len(script) + 1 /\ scalar' \in 0 .. at' - 1 /\ at' - 1 = at
      BY <1>1, <1>3, <2>1
    <3>2. \A i \in 1 .. at : script[i].do = "assign" => i <= at
      BY <1>3
    <3> QED BY <1>1, <2>1, <3>1, <3>2 DEF AssignedSoFar
  <2> QED BY <1>5, <1>6, <2>1, <2>2, <2>3 DEF KeptInv, CopiesAreOfTheLoaded, Counted
<1>8. CASE Route
  <2>1. /\ at <= Len(script) /\ script[at].do # "assign" /\ scalar' = scalar /\ at' = at + 1
        /\ phase' = "loading"
    BY <1>1, <1>8 DEF Route, Statement
  <2>2. Saw'
    BY <1>1, <2>1 DEF KeptInv, Saw
  <2>3. AssignedSoFar'
    <3>1. at' \in 1 .. Len(script) + 1 /\ scalar' \in 0 .. at' - 1 /\ at' - 1 = at
      BY <1>1, <1>3, <2>1
    <3>2. \A i \in 1 .. at : i \in 1 .. at - 1 \/ i = at
      BY <1>3
    <3> QED BY <1>1, <2>1, <3>1, <3>2 DEF AssignedSoFar
  <2> QED BY <1>5, <1>6, <2>1, <2>2, <2>3 DEF KeptInv, CopiesAreOfTheLoaded, Counted
<1>9. CASE LoadFails
  <2>1. phase' = "closed" /\ scalar' = scalar /\ at' = at
    BY <1>9 DEF LoadFails
  <2>2. Saw' /\ AssignedSoFar'
    BY <1>1, <2>1 DEF KeptInv, Saw, AssignedSoFar
  <2> QED BY <1>5, <1>6, <2>1, <2>2 DEF KeptInv, CopiesAreOfTheLoaded, Counted
<1>10. CASE Loaded
  <2>1. phase' = "serving" /\ scalar' = scalar /\ at' = at /\ at > Len(script)
    BY <1>10 DEF Loaded
  <2>2. Saw' /\ AssignedSoFar'
    BY <1>1, <2>1 DEF KeptInv, Saw, AssignedSoFar
  <2>3. AsLoaded = scalar /\ AsLoaded' = AsLoaded
    BY <1>1, <1>3, <2>1, LoadedValue DEF AsLoaded
  <2>4. CopiesAreOfTheLoaded'
    BY <1>1, <1>2, <2>1, <2>3 DEF CopiesAreOfTheLoaded
  <2>5. Counted'
    BY <1>1, <1>2, <1>3, <1>5, <2>1, <2>3 DEF Counted
  <2> QED BY <1>5, <1>6, <2>2, <2>4, <2>5 DEF KeptInv
<1> QED BY <1>7, <1>8, <1>9, <1>10

\* A step of a request that neither begins nor ends a handler.
LEMMA StillKept ==
  ASSUME CallsOk, KeptInv, NEW r \in Requests,
         UNCHANGED <<lang, script, phase, scalar, shared>>, phase = "serving", raced => raced',
         \A q \in Requests \ {r} : call'[q] = call[q] /\ frame'[q] = frame[q],
         call'[r].saw = call[r].saw, call[r].pc # "entered", call'[r].pc # "entered",
         call'[r].pc = "called" => call[r].pc = "idle",
         call'[r].pc \in {"called", "left", "done"},
         call'[r].pc = "left" => call[r].pc = "left",
         frame'[r].scalar \in Nat,
         call'[r].pc = "called" /\ lang = "tengo" => frame'[r].scalar = scalar
  PROVE  KeptInv'
<1>1. Saw'
  <2>1. \A q \in Requests : frame'[q].scalar \in Nat
    BY DEF KeptInv, Saw
  <2>2. ASSUME NEW q \in Requests
        PROVE  /\ call'[q].saw = None \/ call'[q].saw \in [scalar : Nat, shared : Nat]
               /\ call'[q].pc \in {"idle", "called"} => call'[q].saw = None
               /\ call'[q].pc \in {"entered", "left"} => call'[q].saw # None
    <3>1. CASE q = r
      BY <3>1 DEF KeptInv, Saw
    <3>2. CASE q # r
      BY <3>2 DEF KeptInv, Saw
    <3> QED BY <3>1, <3>2
  <2> QED BY <2>1, <2>2 DEF KeptInv, Saw
<1>2. Ran' = Ran
  <2>1. \A q \in Requests : call'[q].saw = call[q].saw /\
                            (call'[q].pc = "entered" <=> call[q].pc = "entered")
    OBVIOUS
  <2> QED BY <2>1 DEF Ran
<1>3. AsLoaded' = AsLoaded
  BY DEF AsLoaded
<1>4. \A q \in Requests : call'[q].pc = "entered" => call[q].pc = "entered" /\ call'[q] = call[q]
                                                     /\ frame'[q] = frame[q]
  OBVIOUS
<1>5. AssignedSoFar' /\ OneEntered'
  BY <1>4 DEF KeptInv, AssignedSoFar, OneEntered
<1>6. CopiesAreOfTheLoaded'
  <2> SUFFICES ASSUME lang = "tengo" PROVE CopiesAreOfTheLoaded'
    BY DEF CopiesAreOfTheLoaded
  <2>1. /\ scalar = AsLoaded
        /\ \A q \in Requests :
            /\ call[q].pc \in {"called", "entered"} => frame[q].scalar = AsLoaded
            /\ call[q].saw # None => call[q].saw.scalar = AsLoaded
    BY DEF KeptInv, CopiesAreOfTheLoaded
  <2>2. ASSUME NEW q \in Requests
        PROVE  /\ call'[q].pc \in {"called", "entered"} => frame'[q].scalar = AsLoaded
               /\ call'[q].saw # None => call'[q].saw.scalar = AsLoaded
    <3>1. CASE q = r
      BY <2>1, <3>1
    <3>2. CASE q # r
      BY <2>1, <3>2
    <3> QED BY <3>1, <3>2
  <2> QED BY <1>3, <2>1, <2>2 DEF CopiesAreOfTheLoaded
<1>7. Counted'
  BY <1>2, <1>3, <1>4 DEF KeptInv, Counted
<1> QED BY <1>1, <1>2, <1>5, <1>6, <1>7 DEF KeptInv

\* A request is made, or answered.
LEMMA OutsideKeeps ==
  ASSUME AnswerInv, KeptInv, NEW r \in Requests,
         \/ \E ask \in Asks : NoHandler(r, ask) \/ Call(r, ask)
         \/ Answer(r) \/ AnswerAny(r)
  PROVE  KeptInv'
<1>1. /\ phase = "serving" /\ UNCHANGED <<lang, script, phase, scalar, shared>>
      /\ call[r].pc \in {"idle", "left"} /\ (raced => raced')
  <2>1. ASSUME NEW ask \in Asks, NoHandler(r, ask) \/ Call(r, ask)
        PROVE  /\ phase = "serving" /\ UNCHANGED <<lang, script, phase, scalar, shared>>
               /\ call[r].pc = "idle" /\ (raced => raced')
    <3>1. raced => raced'
      BY <2>1, Zenon DEF NoHandler, Call
    <3>2. /\ phase = "serving" /\ call[r].pc = "idle"
          /\ UNCHANGED <<lang, script, phase, scalar, shared>>
      BY <2>1, Zenon DEF NoHandler, Call
    <3> QED BY <3>1, <3>2, Zenon
  <2>2. CASE Answer(r)
    <3>1. phase = "serving" /\ call[r].pc = "left"
      BY <2>2 DEF Answer
    <3>2. UNCHANGED <<lang, script, phase, scalar, shared, raced>>
      BY <2>2 DEF Answer
    <3> QED BY <3>1, <3>2
  <2>3. CASE AnswerAny(r)
    <3>1. phase = "serving" /\ call[r].pc = "left"
      BY <2>3 DEF AnswerAny
    <3>2. UNCHANGED <<lang, script, phase, scalar, shared, raced>>
      BY <2>3 DEF AnswerAny
    <3> QED BY <3>1, <3>2
  <2> QED BY <2>1, <2>2, <2>3
<1>2. PICK c :
        /\ call' = [call EXCEPT ![r] = c] /\ c.saw = call[r].saw
        /\ \/ c.pc = "done" /\ UNCHANGED frame
           \/ /\ c.pc = "called" /\ call[r].pc = "idle"
              /\ frame' = IF lang = "tengo"
                            THEN [frame EXCEPT ![r] = [NoFrame EXCEPT !.scalar = scalar]]
                            ELSE frame
  <2>1. DOMAIN call[r] = DOMAIN Idle /\ call = [q \in Requests |-> call[q]]
    BY DEF AnswerInv, CallsOk
  <2>2. ASSUME NEW ask \in Asks, NoHandler(r, ask)
        PROVE  \E d : /\ call' = [call EXCEPT ![r] = d] /\ d.saw = call[r].saw
                      /\ d.pc = "done" /\ UNCHANGED frame
    <3> DEFINE d == [call[r] EXCEPT !.pc = "done", !.op = ask.op, !.via = ask.via,
                                    !.answer = [tag |-> "error", of |-> None]]
    <3>1. call' = [call EXCEPT ![r] = d] /\ UNCHANGED frame
      BY <2>1, <2>2 DEF NoHandler
    <3>2. d.saw = call[r].saw /\ d.pc = "done"
      BY <2>1 DEF Idle
    <3> QED BY <3>1, <3>2
  <2>3. ASSUME NEW ask \in Asks, Call(r, ask)
        PROVE  \E d : /\ call' = [call EXCEPT ![r] = d] /\ d.saw = call[r].saw
                      /\ d.pc = "called" /\ call[r].pc = "idle"
                      /\ frame' = IF lang = "tengo"
                                    THEN [frame EXCEPT ![r] = [NoFrame EXCEPT !.scalar = scalar]]
                                    ELSE frame
    <3> DEFINE d == [call[r] EXCEPT !.pc = "called", !.op = ask.op, !.via = ask.via]
    <3>1. /\ call' = [call EXCEPT ![r] = d] /\ call[r].pc = "idle"
          /\ frame' = IF lang = "tengo"
                        THEN [frame EXCEPT ![r] = [NoFrame EXCEPT !.scalar = scalar]]
                        ELSE frame
      BY <2>1, <2>3 DEF Call, Globals
    <3>2. d.saw = call[r].saw /\ d.pc = "called"
      BY <2>1 DEF Idle
    <3> QED BY <3>1, <3>2
  <2>4. ASSUME Answer(r) \/ AnswerAny(r)
        PROVE  \E d : /\ call' = [call EXCEPT ![r] = d] /\ d.saw = call[r].saw
                      /\ d.pc = "done" /\ UNCHANGED frame
    <3>1. PICK answer : call' = [call EXCEPT ![r] =
                                    [call[r] EXCEPT !.pc = "done", !.answer = answer]]
      BY <2>1, <2>4 DEF Answer, AnswerAny
    <3> DEFINE d == [call[r] EXCEPT !.pc = "done", !.answer = answer]
    <3>2. d.saw = call[r].saw /\ d.pc = "done"
      BY <2>1 DEF Idle
    <3>3. UNCHANGED frame
      BY <2>4 DEF Answer, AnswerAny
    <3> QED BY <3>1, <3>2, <3>3
  <2> QED BY <2>2, <2>3, <2>4
<1>3. call'[r] = c /\ \A q \in Requests \ {r} : call'[q] = call[q]
  BY <1>2 DEF AnswerInv, CallsOk
<1>4. /\ \A q \in Requests \ {r} : frame'[q] = frame[q]
      /\ frame'[r].scalar \in Nat
      /\ call'[r].pc = "called" /\ lang = "tengo" => frame'[r].scalar = scalar
  <2>1. /\ frame = [q \in Requests |-> frame[q]]
        /\ frame[r].scalar \in Nat /\ scalar \in Nat
    BY DEF AnswerInv, CallsOk, KeptInv, Saw
  <2>2. CASE UNCHANGED frame /\ c.pc = "done"
    BY <1>3, <2>1, <2>2
  <2>3. CASE UNCHANGED frame /\ lang # "tengo"
    BY <1>3, <2>1, <2>3
  <2>4. CASE frame' = [frame EXCEPT ![r] = [NoFrame EXCEPT !.scalar = scalar]]
    <3>1. [NoFrame EXCEPT !.scalar = scalar].scalar = scalar
      BY DEF NoFrame
    <3>2. frame'[r] = [NoFrame EXCEPT !.scalar = scalar]
      BY <2>1, <2>4
    <3>3. \A q \in Requests \ {r} : frame'[q] = frame[q]
      BY <2>1, <2>4
    <3> QED BY <2>1, <3>1, <3>2, <3>3
  <2> QED BY <1>2, <2>2, <2>3, <2>4
<1> QED BY <1>1, <1>2, <1>3, <1>4, StillKept DEF AnswerInv

\* The handler begins: it sees what all that ran have made of the scalar and the
\* counter, or has a copy of what the script made of it.
LEMMA EnterKeeps ==
  ASSUME AnswerInv, KeptInv, NEW r \in Requests, Enter(r)
  PROVE  KeptInv'
<1> DEFINE saw == [scalar |-> IF lang = "lua" THEN scalar ELSE frame[r].scalar,
                   shared |-> shared]
           c == [call[r] EXCEPT !.pc = "entered", !.saw = saw]
<1>1. /\ phase = "serving" /\ call[r].pc = "called" /\ call' = [call EXCEPT ![r] = c]
      /\ UNCHANGED <<lang, script, phase, scalar, shared, frame>>
      /\ raced' = (raced \/ \E q \in Requests : call[q].pc = "entered")
  BY DEF Enter, Globals, AnswerInv, CallsOk
<1>2. c.pc = "entered" /\ c.saw = saw
  BY DEF AnswerInv, CallsOk, Idle
<1>3. saw \in [scalar : Nat, shared : Nat] /\ saw # None /\ saw.shared = shared
      /\ saw.scalar = IF lang = "lua" THEN scalar ELSE frame[r].scalar
  BY NoneAssumption DEF KeptInv, Saw
<1> HIDE DEF c, saw
<1>4. call'[r] = c /\ \A q \in Requests \ {r} : call'[q] = call[q]
  BY <1>1 DEF AnswerInv, CallsOk
<1>5. ~raced' => ~raced /\ \A q \in Requests : call'[q].pc = "entered" => q = r
  BY <1>1, <1>4
<1>6. Ran' = Ran
  <2>1. r \notin Ran /\ r \notin Ran'
    BY <1>1, <1>2, <1>4 DEF KeptInv, Saw, Ran
  <2>2. \A q \in Requests \ {r} : q \in Ran' <=> q \in Ran
    BY <1>4 DEF Ran
  <2> QED BY <2>1, <2>2 DEF Ran
<1>7. AsLoaded' = AsLoaded
  BY <1>1 DEF AsLoaded
<1>8. Saw'
  <2>1. ASSUME NEW q \in Requests
        PROVE  /\ call'[q].saw = None \/ call'[q].saw \in [scalar : Nat, shared : Nat]
               /\ call'[q].pc \in {"idle", "called"} => call'[q].saw = None
               /\ call'[q].pc \in {"entered", "left"} => call'[q].saw # None
    <3>1. CASE q = r
      BY <1>2, <1>3, <1>4, <3>1
    <3>2. CASE q # r
      BY <1>4, <3>2 DEF KeptInv, Saw
    <3> QED BY <3>1, <3>2
  <2> QED BY <1>1, <2>1 DEF KeptInv, Saw
<1>9. AssignedSoFar' /\ OneEntered'
  BY <1>1, <1>5 DEF KeptInv, AssignedSoFar, OneEntered
<1>10. CopiesAreOfTheLoaded'
  <2> SUFFICES ASSUME lang = "tengo" PROVE CopiesAreOfTheLoaded'
    BY <1>1 DEF CopiesAreOfTheLoaded
  <2>1. /\ scalar = AsLoaded
        /\ \A q \in Requests :
            /\ call[q].pc \in {"called", "entered"} => frame[q].scalar = AsLoaded
            /\ call[q].saw # None => call[q].saw.scalar = AsLoaded
    BY <1>1 DEF KeptInv, CopiesAreOfTheLoaded
  <2>2. ASSUME NEW q \in Requests
        PROVE  /\ call'[q].pc \in {"called", "entered"} => frame[q].scalar = AsLoaded
               /\ call'[q].saw # None => call'[q].saw.scalar = AsLoaded
    <3>1. CASE q = r
      BY <1>1, <1>2, <1>3, <1>4, <2>1, <3>1
    <3>2. CASE q # r
      BY <1>4, <2>1, <3>2
    <3> QED BY <3>1, <3>2
  <2> QED BY <1>1, <1>7, <2>1, <2>2 DEF CopiesAreOfTheLoaded
<1>11. Counted'
  BY <1>1, <1>2, <1>3, <1>4, <1>5, <1>6, <1>7 DEF KeptInv, Counted
<1> QED BY <1>6, <1>8, <1>9, <1>10, <1>11 DEF KeptInv

\* The handler ends: one more that ran.
LEMMA LeaveKeeps ==
  ASSUME AnswerInv, KeptInv, NEW r \in Requests, Leave(r)
  PROVE  KeptInv'
<1> DEFINE c == [call[r] EXCEPT !.pc = "left"]
<1>1. /\ phase = "serving" /\ call[r].pc = "entered" /\ call' = [call EXCEPT ![r] = c]
      /\ UNCHANGED <<lang, script, phase, raced>>
      /\ scalar' = (IF lang = "lua" THEN call[r].saw.scalar + 1 ELSE scalar)
      /\ shared' = call[r].saw.shared + 1
  BY DEF Leave, Assigned, AnswerInv, CallsOk
<1>2. c.pc = "left" /\ c.saw = call[r].saw
  BY DEF AnswerInv, CallsOk, Idle
<1>3. /\ call[r].saw \in [scalar : Nat, shared : Nat] /\ call[r].saw # None
      /\ scalar \in Nat /\ shared \in Nat
  BY <1>1 DEF KeptInv, Saw
<1> HIDE DEF c
<1>4. call'[r] = c /\ \A q \in Requests \ {r} : call'[q] = call[q]
  BY <1>1 DEF AnswerInv, CallsOk
<1>5. \A q \in Requests : frame'[q].scalar = frame[q].scalar
  <2>1. /\ frame = [q \in Requests |-> frame[q]] /\ DOMAIN frame[r] = DOMAIN NoFrame
    BY DEF AnswerInv, CallsOk
  <2>2. \/ UNCHANGED frame
        \/ \E result : frame' = [frame EXCEPT ![r].result = result]
    BY DEF Leave, Globals
  <2>3. ASSUME NEW result, frame' = [frame EXCEPT ![r].result = result]
        PROVE  \A q \in Requests : frame'[q].scalar = frame[q].scalar
    <3>1. [frame[r] EXCEPT !.result = result].scalar = frame[r].scalar
      BY <2>1 DEF NoFrame
    <3>2. /\ frame'[r] = [frame[r] EXCEPT !.result = result]
          /\ \A q \in Requests \ {r} : frame'[q] = frame[q]
      BY <2>1, <2>3
    <3> QED BY <3>1, <3>2
  <2> QED BY <2>2, <2>3
<1>6. Ran' = Ran \cup {r} /\ r \notin Ran
  <2>1. r \notin Ran /\ r \in Ran'
    BY <1>1, <1>2, <1>3, <1>4 DEF Ran
  <2>2. \A q \in Requests \ {r} : q \in Ran' <=> q \in Ran
    BY <1>4 DEF Ran
  <2> QED BY <2>1, <2>2 DEF Ran
<1>7. IsFiniteSet(Ran') /\ Cardinality(Ran') = Cardinality(Ran) + 1
  BY <1>6, FS_AddElement DEF KeptInv
<1>8. AsLoaded' = AsLoaded
  BY <1>1 DEF AsLoaded
<1>9. Saw'
  <2>1. ASSUME NEW q \in Requests
        PROVE  /\ call'[q].saw = None \/ call'[q].saw \in [scalar : Nat, shared : Nat]
               /\ call'[q].pc \in {"idle", "called"} => call'[q].saw = None
               /\ call'[q].pc \in {"entered", "left"} => call'[q].saw # None
    <3>1. CASE q = r
      BY <1>2, <1>3, <1>4, <3>1
    <3>2. CASE q # r
      BY <1>4, <3>2 DEF KeptInv, Saw
    <3> QED BY <3>1, <3>2
  <2>2. scalar' \in Nat /\ shared' \in Nat
    BY <1>1, <1>3
  <2> QED BY <1>5, <2>1, <2>2 DEF KeptInv, Saw
<1>10. AssignedSoFar'
  BY <1>1 DEF KeptInv, AssignedSoFar
<1>11. ~raced => \A q \in Requests : call'[q].pc # "entered"
  BY <1>1, <1>2, <1>4 DEF KeptInv, OneEntered
<1>12. OneEntered'
  BY <1>1, <1>11 DEF OneEntered
<1>13. CopiesAreOfTheLoaded'
  <2> SUFFICES ASSUME lang = "tengo" PROVE CopiesAreOfTheLoaded'
    BY <1>1 DEF CopiesAreOfTheLoaded
  <2>1. /\ scalar = AsLoaded /\ scalar' = scalar
        /\ \A q \in Requests :
            /\ call[q].pc \in {"called", "entered"} => frame[q].scalar = AsLoaded
            /\ call[q].saw # None => call[q].saw.scalar = AsLoaded
    BY <1>1 DEF KeptInv, CopiesAreOfTheLoaded
  <2>2. ASSUME NEW q \in Requests
        PROVE  /\ call'[q].pc \in {"called", "entered"} => frame'[q].scalar = AsLoaded
               /\ call'[q].saw # None => call'[q].saw.scalar = AsLoaded
    <3>1. CASE q = r
      BY <1>2, <1>3, <1>4, <2>1, <3>1
    <3>2. CASE q # r
      BY <1>4, <1>5, <2>1, <3>2
    <3> QED BY <3>1, <3>2
  <2> QED BY <1>8, <2>1, <2>2 DEF CopiesAreOfTheLoaded
<1>14. Counted'
  <2> SUFFICES ASSUME ~raced PROVE Counted'
    BY <1>1 DEF Counted
  <2>1. PICK n : n = Cardinality(Ran) /\ n \in Nat /\ Cardinality(Ran') = n + 1
    BY <1>7, FS_CardinalityType DEF KeptInv
  <2>2. /\ AsLoaded \in Nat /\ call[r].saw.shared = n
        /\ lang = "lua" => call[r].saw.scalar = AsLoaded + n
    BY <1>1, <2>1 DEF KeptInv, Counted
  <2>3. shared' = n + 1 /\ (lang = "lua" => scalar' = AsLoaded + (n + 1))
    BY <1>1, <2>1, <2>2
  <2> QED BY <1>1, <1>8, <1>11, <2>1, <2>2, <2>3 DEF Counted
<1> QED BY <1>7, <1>9, <1>10, <1>12, <1>13, <1>14 DEF KeptInv

\* What handlers keep, for every script and any requests: the last value the
\* script assigned, one increment for each call that ran.
THEOREM CountsCorrect == Spec => []KeptInv
<1>1. Init => KeptInv
  <2> SUFFICES ASSUME Init PROVE KeptInv
    OBVIOUS
  <2>1. \A r \in Requests : call[r].pc = "idle" /\ call[r].saw = None /\ frame[r].scalar = 0
    BY DEF Init, Idle, NoFrame
  <2>2. Ran = {} /\ IsFiniteSet(Ran)
    BY <2>1, FS_EmptySet DEF Ran
  <2>3. Saw /\ OneEntered
    BY <2>1 DEF Init, Saw, OneEntered
  <2>4. AssignedSoFar
    <3>1. /\ script \in Scripts /\ at = 1 /\ scalar = 0 /\ shared = 0 /\ Len(script) \in Nat
      BY ScriptsAssumption DEF Init
    <3> QED BY <3>1 DEF AssignedSoFar
  <2> QED BY <2>2, <2>3, <2>4 DEF Init, KeptInv, CopiesAreOfTheLoaded, Counted
<1>2. AnswerInv /\ KeptInv /\ [Next]_vars => KeptInv'
  <2> SUFFICES ASSUME AnswerInv, KeptInv, [Next]_vars PROVE KeptInv'
    OBVIOUS
  <2>1. CASE Crash
    <3>1. /\ phase' = "crashed"
          /\ UNCHANGED <<lang, script, at, scalar, shared, raced, frame, call>>
      BY <2>1 DEF Crash
    <3>2. Ran' = Ran
      BY <3>1 DEF Ran
    <3> QED BY <3>1, <3>2
            DEF KeptInv, Saw, AssignedSoFar, OneEntered, CopiesAreOfTheLoaded, Counted
  <2>2. CASE UNCHANGED vars
    <3>1. Ran' = Ran /\ AsLoaded' = AsLoaded
      BY <2>2 DEF vars, Ran, AsLoaded
    <3> QED BY <2>2, <3>1
            DEF vars, KeptInv, Saw, AssignedSoFar, OneEntered, CopiesAreOfTheLoaded, Counted
  <2> QED
    BY <2>1, <2>2, LoadingKeeps, OutsideKeeps, EnterKeeps, LeaveKeeps DEF Next
<1> QED BY <1>1, <1>2, AnswersCorrect, PTL DEF Spec

\* A Tengo handler finds every scalar as the script left it, and Lua's scalars
\* and both languages' tables keep every increment unless calls overlapped.
THEOREM HandlersKeepCounts == Spec => []KeptBetweenCalls
<1>1. KeptInv => KeptBetweenCalls
  BY DEF KeptInv, CopiesAreOfTheLoaded, Counted, KeptBetweenCalls
<1> QED BY <1>1, CountsCorrect, PTL

-----------------------------------------------------------------------------
(* The request a handler sees *)

\* A handler of any route finds the fields of its request as they are documented:
\* the request's own are never those of a parameter or a module, and a parameter
\* is there unless a field or a module has its name.
THEOREM RequestsAreDocumented == Spec => []FieldsAreDocumented
<1>1. FieldsAreDocumented
  <2> SUFFICES ASSUME NEW op, NEW via, NEW params
               PROVE  LET view == View(op, via, params) IN
                      /\ view["path"] = "request" /\ view["operation"] = "request"
                      /\ op = "write" => view["data"] = "request"
                      /\ \A key \in params \ (Modules \cup RequestFields(op, via)) :
                            \A name \in ParamKeys(via, {key}) : view[name] = "param"
    BY DEF FieldsAreDocumented
  <2> DEFINE own == From(RequestFields(op, via), "request")
             given == From(ParamKeys(via, params), "param")
             modules == From(IF lang = "tengo" THEN Modules ELSE {}, "module")
             view == View(op, via, params)
  <2>1. ASSUME NEW x \in DOMAIN modules \cup DOMAIN own \cup DOMAIN given
        PROVE  view[x] = IF x \in DOMAIN modules THEN modules[x]
                         ELSE IF x \in DOMAIN own THEN own[x] ELSE given[x]
    BY DEF View, Merge, Over
  <2>2. /\ DOMAIN own = RequestFields(op, via) /\ DOMAIN given = ParamKeys(via, params)
        /\ DOMAIN modules \subseteq Modules
        /\ \A x \in DOMAIN own : own[x] = "request"
        /\ \A x \in DOMAIN given : given[x] = "param"
    BY DEF From
  <2>3. /\ "path" \in RequestFields(op, via) /\ "operation" \in RequestFields(op, via)
        /\ op = "write" => "data" \in RequestFields(op, via)
        /\ RequestFields(op, via) \subseteq {"path", "operation", "data", "offset"}
    BY DEF RequestFields
  <2>4. "path" \notin Modules /\ "operation" \notin Modules /\ "data" \notin Modules
        /\ "*" \notin Modules /\ "*1" \notin Modules /\ "*2" \notin Modules
    BY ModulesAssumption
  <2> HIDE DEF own, given, modules, view
  <2>5. ASSUME NEW key \in params \ (Modules \cup RequestFields(op, via)),
               NEW name \in ParamKeys(via, {key})
        PROVE  view[name] = "param"
    <3>1. name \in ParamKeys(via, params)
      BY DEF ParamKeys
    <3>2. name \in {key, "*", "*1", "*2"}
      BY DEF ParamKeys, MappedKey
    <3>3. name \notin Modules /\ name \notin RequestFields(op, via)
      BY <2>3, <2>4, <3>2
    <3> QED BY <2>1, <2>2, <3>1, <3>3
  <2> QED BY <2>1, <2>2, <2>3, <2>4, <2>5 DEF view
<1> QED BY <1>1, PTL
=============================================================================
