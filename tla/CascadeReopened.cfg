\* A run takes the lock of a Meta PR that is merged.
SPECIFICATION Spec
CONSTANTS
    c1 = c1
    c2 = c2
    c3 = c3
    Child <- Pair
    Loop = {"l1"}
    Request = {"r1"}
    Dep <- Chain
    GitLab = {}
    Manual = {}
    Faults = {}
    MaxLock = 5
    MaxCrashes = 0
PROPERTIES
    MergedIsFinal
\* A Meta PR with an outcome may be left alone for good.
CHECK_DEADLOCK FALSE
