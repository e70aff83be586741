SPECIFICATION ServerSpec
CONSTANTS
    c1 = c1
    c2 = c2
    Child <- One
    Loop = {"l1"}
    Request = {"h1"}
    Dep = {}
    GitLab = {}
    Manual <- One
    Faults = {"refuse", "db", "align"}
    MaxLock = 3
    MaxCrashes = 1
    Tracked <- One
    Serve = {"branch", "settings", "retry", "reviewed"}
    Missed = {"h1"}
    Policies <- AutoAndFiles
    Fickle = {"files"}
    RootOnGitLab = FALSE
INVARIANTS
    ServerInv
PROPERTIES
    RootAfterSnapshot
\* Nobody has to ask anything of the server.
CHECK_DEADLOCK FALSE
