SPECIFICATION Spec
CONSTANTS
    c1 = c1
    c2 = c2
    Callers = {c1, c2}
    Calls <- MCBoth
    Disks <- MCDisks
    Names <- MCNames
    Texts = {"x", "y", "new", "more", "zeros"}
    Sizes <- MCSizes
    MaxDepth = 3
PROPERTIES KeepsWhatItFound CopiesWhole RemovedAreCounted
CHECK_DEADLOCK FALSE
