----------------------------- MODULE MCBackends -----------------------------
(* Three requests against four scripts: handlers of every operation, every  *)
(* kind of result, globals assigned before and after the registration.      *)
EXTENDS Backends, TLC

H(op, params, returns) == [do |-> "route", op |-> op, params |-> params, returns |-> returns]
Set == [do |-> "assign"]

MCScripts ==
    { << Set, H("read", {"id", "path"}, "string"), H("readdir", {"_wildcard0", "_glob0"}, "table"), Set >>,
      << H("write", {"id", "data", "fs"}, "raises"), Set, H("getattr", {"_wildcard1"}, "table"),
         H("readdir", {}, "failure") >>,
      << H("read", {}, "raises"), Set, H("read", {"operation"}, "number"), H("readdir", {"id"}, "nil") >>,
      << Set, H("read", {"id"}, "string"), [do |-> "fail"] >> }

Symmetric == Permutations(Requests)
=============================================================================
