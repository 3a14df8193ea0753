CONSTANTS
  c1 = c1
  c2 = c2
  Clients <- MCClients
  Names = {"a", "b"}
  Literals = {"a"}
  Matched = {}
  Listable = {"b"}
  ReadHandled = {"b"}
  Answers = {0, 1}
SPECIFICATION Spec
SYMMETRY Symm
CHECK_DEADLOCK FALSE
INVARIANTS ReadsLastAnswer AgreesWithScript
