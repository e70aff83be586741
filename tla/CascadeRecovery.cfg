\* A run dies; the reconciliation loop takes the cascade over.
SPECIFICATION FairSpec
CONSTANTS
    c1 = c1
    c2 = c2
    c3 = c3
    Child <- Pair
    Loop = {"l1"}
    Request = {"r1"}
    Dep <- Chain
    GitLab = {}
    Manual = {}
    Faults = {"refuse", "align"}
    MaxLock = 5
    MaxCrashes = 1
PROPERTIES
    CascadeSettles
\* A Meta PR with an outcome may be left alone for good.
CHECK_DEADLOCK FALSE
