SPECIFICATION Spec
CONSTANTS
    Requests = {r1, r2, r3}
    Scripts <- MCScripts
    Modules = {"fs"}
    None = None
SYMMETRY Symmetric
INVARIANTS
    OwnAnswer
    KeptBetweenCalls
    FieldsAreDocumented
CHECK_DEADLOCK FALSE
