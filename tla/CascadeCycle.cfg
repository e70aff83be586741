\* A dependency table with a cycle.
SPECIFICATION Spec
CONSTANTS
    c1 = c1
    c2 = c2
    c3 = c3
    Child <- Triple
    Loop = {"l1"}
    Request = {"r1"}
    Dep <- Cycle
    GitLab = {}
    Manual <- One
    Faults = {"refuse"}
    MaxLock = 7
    MaxCrashes = 1
INVARIANTS
    CycleMergesNothing
\* A Meta PR with an outcome may be left alone for good.
CHECK_DEADLOCK FALSE
