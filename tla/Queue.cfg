SPECIFICATION FairQueueSpec
CONSTANTS
    a = a
    b = b
    Child = {a}
    Loop = {"c1"}
    Request = {"r1"}
    Dep <- NoDeps
    GitLab = {}
    Manual = {a}
    Faults = {}
    MaxLock = 5
    MaxCrashes = 1
    Message = {"m1", "p"}
    Poison = {"p"}
    None = None
    BatchSize = 2
    MaxReceives = 2
INVARIANTS
    DeliverySafe
    DeletedWhenDone
PROPERTIES
    MessageServed
CHECK_DEADLOCK FALSE
