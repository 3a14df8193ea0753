------------------------------ MODULE Backends ------------------------------
(***************************************************************************)
(* The two script backends: how an executor runs the root script, and how  *)
(* the goroutines of the protocol servers call the handlers it registered  *)
(* (src/internal/lua/executor.go and registry.go,                          *)
(* src/internal/tengo/executor.go and registry.go).                        *)
(*                                                                         *)
(* A script is a sequence of statements: it assigns a scalar global, it    *)
(* registers a handler, or it fails.  Every handler increments the scalar  *)
(* and a counter in a table (a map in Tengo) that another global refers    *)
(* to, and then returns a value of the kind its statement names.           *)
(*                                                                         *)
(* Lua: one state and one stack for every handler, and no lock around it.  *)
(* Goroutines that are in it together race; from then on any answer is     *)
(* possible, and the Go runtime may kill the process (Crash).             *)
(* Tengo: a virtual machine per request on a copy of the globals; what a   *)
(* global refers to is shared.                                             *)
(***************************************************************************)
EXTENDS Naturals, Sequences, FiniteSets

CONSTANTS
    Requests,   \* the requests goroutines make
    Scripts,    \* the root scripts considered
    Modules,    \* the module names a Tengo handler finds in its request
    None        \* no value

ASSUME ScriptsAssumption ==
    \A s \in Scripts : /\ Len(s) \in Nat /\ DOMAIN s = 1 .. Len(s)
                       /\ \A i \in DOMAIN s : s[i].do \in {"assign", "route", "fail"}
\* No module has the name of a field that every request has, or of a wildcard
\* (moduleNames and customModuleNames, tengo/executor.go:39-42).
ASSUME ModulesAssumption ==
    Modules \cap {"path", "operation", "data", "*", "*1", "*2"} = {}
ASSUME NoneAssumption == None \notin [scalar : Nat, shared : Nat]

VARIABLES
    lang,       \* the backend chosen by the root script's extension
    script,     \* the root script
    phase,      \* "loading", "serving", "closed" or "crashed"
    at,         \* the next statement of the script
    handlers,   \* the statement that registered each operation's handler, or 0
    scalar,     \* the scalar global of the script
    shared,     \* the counter in the table a global refers to
    stack,      \* the values on the Lua state's stack
    raced,      \* goroutines have used the Lua state, or the shared map, at once
    frame,      \* the globals array of a Tengo call: the scalar and the result
    call        \* the call of each request

vars == <<lang, script, phase, at, handlers, scalar, shared, stack, raced, frame, call>>

Ops == {"read", "write", "readdir", "getattr"}
Nothing == [of |-> None, kind |-> "nil"]
NoFrame == [scalar |-> 0, result |-> Nothing]
Idle == [pc |-> "idle", op |-> None, via |-> None, saw |-> None, answer |-> None]

\* Requests whose goroutine is between the entry to Serve and its answer.
Inside == {r \in Requests : call[r].pc \in {"called", "entered", "left"}}

Init ==
    /\ lang \in {"lua", "tengo"}
    /\ script \in Scripts
    /\ phase = "loading" /\ at = 1
    /\ handlers = [op \in Ops |-> 0]
    /\ scalar = 0 /\ shared = 0
    /\ stack = <<>> /\ raced = FALSE
    /\ frame = [r \in Requests |-> NoFrame]
    /\ call = [r \in Requests |-> Idle]

-----------------------------------------------------------------------------
(* Loading *)

Statement == script[at]

Assign ==
    /\ phase = "loading" /\ at <= Len(script) /\ Statement.do = "assign"
    /\ scalar' = at /\ at' = at + 1
    /\ UNCHANGED <<lang, script, phase, handlers, shared, stack, raced, frame, call>>

\* app.read, app.write, app.readdir and app.getattr: the last registration of
\* a pattern is the one that is served.
Route ==
    /\ phase = "loading" /\ at <= Len(script) /\ Statement.do = "route"
    /\ handlers' = [handlers EXCEPT ![Statement.op] = at] /\ at' = at + 1
    /\ UNCHANGED <<lang, script, phase, scalar, shared, stack, raced, frame, call>>

\* The script raises an error: the state is closed and main gives up.
LoadFails ==
    /\ phase = "loading" /\ at <= Len(script) /\ Statement.do = "fail"
    /\ phase' = "closed"
    /\ UNCHANGED <<lang, script, at, handlers, scalar, shared, stack, raced, frame, call>>

Loaded ==
    /\ phase = "loading" /\ at > Len(script)
    /\ phase' = "serving"
    /\ UNCHANGED <<lang, script, at, handlers, scalar, shared, stack, raced, frame, call>>

-----------------------------------------------------------------------------
(* The request a handler sees: for each of its fields, where it is from *)

\* The keys FindHandler makes of a pattern's: those of globs are dropped, and
\* those of wildcards get the names scripts know.
MappedKey(key) ==
    CASE key = "_glob0"     -> {}
      [] key = "_wildcard0" -> {"*", "*1"}
      [] key = "_wildcard1" -> {"*2"}
      [] OTHER              -> {key}

ParamKeys(via, params) ==
    IF via = "serve" THEN params ELSE UNION {MappedKey(key) : key \in params}

RequestFields(op, via) ==
    {"path", "operation"} \cup (IF op = "write" THEN {"data"} ELSE {})
        \cup (IF via = "list" /\ lang = "lua" THEN {} ELSE {"offset"})

From(names, origin) == [name \in names |-> origin]

\* The fields of f, and those of g that f does not replace.
Over(f, g) ==
    [name \in DOMAIN f \cup DOMAIN g |-> IF name \in DOMAIN f THEN f[name] ELSE g[name]]

\* What a bug would make of it: the route's parameters come last.
MergeParamsLast(own, params, modules) == Over(params, Over(modules, own))

\* The request's own fields replace parameters of the same name, and modules
\* replace both.
Merge(own, params, modules) == Over(modules, Over(own, params))

View(op, via, params) ==
    Merge(From(RequestFields(op, via), "request"), From(ParamKeys(via, params), "param"),
          From(IF lang = "tengo" THEN Modules ELSE {}, "module"))

-----------------------------------------------------------------------------
(* Calling a handler *)

\* The requests servers and executors make: router.Serve, ExecuteHandler, and
\* ExecuteListHandler for directories.
Asks == [op : Ops, via : {"serve", "execute"}] \cup [op : {"readdir"}, via : {"list"}]

GlobalsShared(r) == CHOOSE q \in Requests : TRUE

\* The globals array a Tengo call runs on: a copy of its own.
Globals(r) == r

NoHandler(r, ask) ==
    /\ phase = "serving" /\ call[r].pc = "idle" /\ handlers[ask.op] = 0
    /\ call' = [call EXCEPT ![r] = [@ EXCEPT !.pc = "done", !.op = ask.op, !.via = ask.via,
                                             !.answer = [tag |-> "error", of |-> None]]]
    /\ UNCHANGED <<lang, script, phase, at, handlers, scalar, shared, stack, raced, frame>>

\* Serve builds the request and, in Tengo, copies the globals into an array
\* that has room for the handler, the request and the result.
Call(r, ask) ==
    /\ phase = "serving" /\ call[r].pc = "idle" /\ handlers[ask.op] # 0
    /\ call' = [call EXCEPT ![r] = [@ EXCEPT !.pc = "called", !.op = ask.op, !.via = ask.via]]
    /\ frame' = IF lang = "tengo"
                  THEN [frame EXCEPT ![Globals(r)] = [NoFrame EXCEPT !.scalar = scalar]]
                  ELSE frame
    /\ raced' = (raced \/ (lang = "lua" /\ Inside # {}))
    /\ UNCHANGED <<lang, script, phase, at, handlers, scalar, shared, stack>>

\* The handler reads what it will increment.
Enter(r) ==
    /\ phase = "serving" /\ call[r].pc = "called"
    /\ call' = [call EXCEPT ![r] =
            [@ EXCEPT !.pc = "entered",
                      !.saw = [scalar |-> IF lang = "lua" THEN scalar ELSE frame[Globals(r)].scalar,
                               shared |-> shared]]]
    /\ raced' = (raced \/ \E q \in Requests : call[q].pc = "entered")
    /\ UNCHANGED <<lang, script, phase, at, handlers, scalar, shared, stack, frame>>

Returns(r) == script[handlers[call[r].op]].returns

AssignedInPlace(r) == call[r].saw.scalar + 1

\* The script's global after the handler has assigned to it: only Lua's is
\* the one later calls see.
Assigned(r) == IF lang = "lua" THEN call[r].saw.scalar + 1 ELSE scalar

\* The handler increments, and ends with a value on the Lua stack or in its
\* Tengo call's array.  A handler that raises leaves the stack as it was.
Leave(r) ==
    LET result == [of |-> r, kind |-> Returns(r)] IN
    /\ phase = "serving" /\ call[r].pc = "entered"
    /\ scalar' = Assigned(r) /\ shared' = call[r].saw.shared + 1
    /\ call' = [call EXCEPT ![r].pc = "left"]
    /\ stack' = IF lang = "lua" /\ result.kind # "raises" THEN Append(stack, result) ELSE stack
    /\ frame' = IF lang = "tengo" THEN [frame EXCEPT ![Globals(r)].result = result] ELSE frame
    /\ UNCHANGED <<lang, script, phase, at, handlers, raced>>

Tagged(kind, data, empty) ==
    IF kind \in data THEN "data" ELSE IF kind \in empty THEN "empty" ELSE "error"

\* RouteHandler.Serve: strings and nil; tables where names or attributes are
\* asked for.  "failure" is the nil of a module function that failed.
LuaServed(op, kind) ==
    Tagged(kind, {"string"} \cup (IF op \in {"readdir", "getattr"} THEN {"table"} ELSE {}),
           {"nil", "failure"})

LuaExecuted(kind) == Tagged(kind, {"string"}, {"nil", "failure"})

LuaListed(kind) == Tagged(kind, {"string", "table"}, {"nil", "failure"})

\* Tengo formats whatever a handler returns, the error value of a module
\* function that failed included.
TengoServed(kind) == Tagged(kind, {"string", "table", "number", "failure"}, {"nil"})

Answered(r, kind) ==
    CASE lang = "tengo"          -> TengoServed(kind)
      [] call[r].via = "serve"   -> LuaServed(call[r].op, kind)
      [] call[r].via = "execute" -> LuaExecuted(kind)
      [] call[r].via = "list"    -> LuaListed(kind)

\* What is on the stack once the value is taken: Get(-1) and Pop(1).
Popped(s) == IF s = <<>> THEN s ELSE SubSeq(s, 1, Len(s) - 1)

LuaResult(r) ==
    IF Returns(r) = "raises" THEN [of |-> r, kind |-> "raises"]
    ELSE IF stack = <<>> THEN Nothing ELSE stack[Len(stack)]

\* Serve takes the handler's value and answers.
Answer(r) ==
    LET result == IF lang = "lua" THEN LuaResult(r) ELSE frame[Globals(r)].result IN
    /\ phase = "serving" /\ call[r].pc = "left" /\ (lang = "tengo" \/ ~raced)
    /\ call' = [call EXCEPT ![r] = [@ EXCEPT !.pc = "done",
                     !.answer = [tag |-> Answered(r, result.kind), of |-> result.of]]]
    /\ stack' = IF lang = "lua" /\ Returns(r) # "raises" THEN Popped(stack) ELSE stack
    /\ UNCHANGED <<lang, script, phase, at, handlers, scalar, shared, raced, frame>>

\* After goroutines raced in the Lua state: any answer.
AnswerAny(r) ==
    /\ phase = "serving" /\ call[r].pc = "left" /\ lang = "lua" /\ raced
    /\ \E tag \in {"data", "empty", "error"}, of \in Requests :
            call' = [call EXCEPT ![r] = [@ EXCEPT !.pc = "done",
                                                  !.answer = [tag |-> tag, of |-> of]]]
    /\ stack' = <<>>
    /\ UNCHANGED <<lang, script, phase, at, handlers, scalar, shared, raced, frame>>

\* The Go runtime stops a process in which two goroutines use a map at once,
\* one of them writing: Lua's state, or a Tengo map that handlers share.
Crash ==
    /\ phase = "serving"
    /\ IF lang = "lua" THEN Cardinality(Inside) > 1
                       ELSE Cardinality({r \in Requests : call[r].pc = "entered"}) > 1
    /\ phase' = "crashed"
    /\ UNCHANGED <<lang, script, at, handlers, scalar, shared, stack, raced, frame, call>>

Next ==
    \/ Assign \/ Route \/ LoadFails \/ Loaded \/ Crash
    \/ \E r \in Requests :
        \/ \E ask \in Asks : NoHandler(r, ask) \/ Call(r, ask)
        \/ Enter(r) \/ Leave(r) \/ Answer(r) \/ AnswerAny(r)

Spec == Init /\ [][Next]_vars

-----------------------------------------------------------------------------
(* Properties *)

\* A request is answered with what its own handler call returned: always in
\* Tengo, however calls overlap, and in Lua as long as goroutines have not
\* raced in the state (Serve, lua/registry.go:41-50, tengo/registry.go:115-136).
OwnAnswer ==
    \A r \in Requests :
        call[r].pc = "done" /\ handlers[call[r].op] # 0 /\ (lang = "tengo" \/ ~raced) =>
            call[r].answer.of = r

\* What makes it inductive: a Tengo call's result is in an array of its own; as
\* long as goroutines have not raced in the Lua state at most one is inside, and
\* its stack holds nothing but what that handler returned.
CallsOk ==
    /\ lang \in {"lua", "tengo"} /\ raced \in BOOLEAN
    /\ call = [r \in Requests |-> call[r]] /\ frame = [r \in Requests |-> frame[r]]
    /\ \A r \in Requests :
        /\ call[r].pc \in {"idle", "called", "entered", "left", "done"}
        /\ DOMAIN call[r] = DOMAIN Idle /\ DOMAIN frame[r] = DOMAIN NoFrame
IdleAtFirst == phase = "loading" => \A r \in Requests : call[r].pc = "idle"
HasHandler == \A r \in Inside : handlers[call[r].op] # 0
OwnFrame == lang = "tengo" =>
    \A r \in Requests : call[r].pc = "left" => frame[r].result.of = r
OneInside == lang = "lua" /\ ~raced => \A r, q \in Inside : r = q
OwnStack == lang = "lua" /\ ~raced =>
    /\ (\A r \in Inside : call[r].pc # "left") => stack = <<>>
    /\ \A r \in Inside : call[r].pc = "left" =>
        stack = IF Returns(r) = "raises" THEN <<>> ELSE <<[of |-> r, kind |-> Returns(r)]>>
AnswerInv ==
    CallsOk /\ IdleAtFirst /\ HasHandler /\ OwnFrame /\ OneInside /\ OwnStack /\ OwnAnswer

\* The last value the script itself gave the scalar.
AsLoaded ==
    LET assigns == {i \in DOMAIN script : script[i].do = "assign"} IN
    IF assigns = {} THEN 0 ELSE CHOOSE i \in assigns : \A j \in assigns : j <= i

\* Calls that have run their handler to its end.
Ran == {r \in Requests : call[r].saw # None /\ call[r].pc # "entered"}

\* What handlers keep between calls (examples/README.md:181-183): a Tengo
\* handler finds every scalar as the script left it at the end of its load,
\* even one assigned after the handler was registered, and Lua's scalars and
\* both languages' tables keep every increment unless calls overlapped.
KeptBetweenCalls ==
    phase = "serving" =>
        /\ lang = "tengo" =>
              \A r \in Requests : call[r].saw # None => call[r].saw.scalar = AsLoaded
        /\ lang = "lua" /\ ~raced => scalar = AsLoaded + Cardinality(Ran)
        /\ ~raced => shared = Cardinality(Ran)

\* Handlers find path and operation as the request has them, whatever names
\* the route gives its parameters, and each parameter under its name unless
\* that is the name of a field or a module (examples/README.md:123-127).
FieldsAreDocumented ==
    \A r \in Requests : call[r].pc \in {"called", "entered", "left"} =>
        LET params == script[handlers[call[r].op]].params
            view   == View(call[r].op, call[r].via, params)
        IN  /\ view["path"] = "request" /\ view["operation"] = "request"
            /\ call[r].op = "write" => view["data"] = "request"
            /\ \A key \in params \ (Modules \cup RequestFields(call[r].op, call[r].via)) :
                    \A name \in ParamKeys(call[r].via, {key}) : view[name] = "param"

\* What makes the first of these two inductive.  The script's scalar is the last
\* value it was assigned; then a Tengo call's copy is of that one, and as long as
\* calls have not overlapped a handler that has begun saw every increment.
Saw ==
    /\ scalar \in Nat /\ shared \in Nat /\ \A r \in Requests : frame[r].scalar \in Nat
    /\ \A r \in Requests :
        /\ call[r].saw = None \/ call[r].saw \in [scalar : Nat, shared : Nat]
        /\ call[r].pc \in {"idle", "called"} => call[r].saw = None
        /\ call[r].pc \in {"entered", "left"} => call[r].saw # None
AssignedSoFar ==
    /\ script \in Scripts
    /\ phase = "loading" =>
        /\ at \in 1 .. Len(script) + 1 /\ scalar \in 0 .. at - 1 /\ shared = 0
        /\ scalar # 0 => script[scalar].do = "assign"
        /\ \A i \in 1 .. at - 1 : script[i].do = "assign" => i <= scalar
OneEntered ==
    ~raced => \A r, q \in Requests : call[r].pc = "entered" /\ call[q].pc = "entered" => r = q
CopiesAreOfTheLoaded ==
    phase = "serving" /\ lang = "tengo" =>
        /\ scalar = AsLoaded
        /\ \A r \in Requests :
            /\ call[r].pc \in {"called", "entered"} => frame[r].scalar = AsLoaded
            /\ call[r].saw # None => call[r].saw.scalar = AsLoaded
Counted ==
    phase = "serving" /\ ~raced =>
        LET n == Cardinality(Ran) IN
        /\ AsLoaded \in Nat /\ shared = n /\ (lang = "lua" => scalar = AsLoaded + n)
        /\ \A r \in Requests : call[r].pc = "entered" =>
            call[r].saw.shared = n /\ (lang = "lua" => call[r].saw.scalar = AsLoaded + n)
KeptInv ==
    Saw /\ AssignedSoFar /\ OneEntered /\ CopiesAreOfTheLoaded /\ IsFiniteSet(Ran) /\ Counted
=============================================================================
