\* One server: its reconciliation loop races the goroutine of a retry request.
SPECIFICATION Spec
CONSTANTS
    c1 = c1
    c2 = c2
    c3 = c3
    Child <- Pair
    Loop = {"l1"}
    Request = {"r1"}
    Dep <- Chain
    GitLab = {}
    Manual = {}
    Faults = {"refuse", "lost"}
    MaxLock = 7
    MaxCrashes = 1
INVARIANTS
    TypeOK
    RootAfterChildren
    RecordsAreTrue
    CascadeInv
PROPERTIES
    OutcomeLeftByLockOnly
    AlignedBeforeRoot
    DependencyOrder
    ImplementsContract
\* A Meta PR with an outcome may be left alone for good.
CHECK_DEADLOCK FALSE
