SPECIFICATION FairServerSpec
CONSTANTS
    c1 = c1
    c2 = c2
    Child <- Two
    Loop = {}
    Request = {"h1", "h2"}
    Dep = {}
    GitLab = {}
    Manual <- Two
    Faults = {}
    MaxLock = 4
    MaxCrashes = 0
    Tracked = {}
    Serve = {"rootByHand"}
    Missed = {}
    Policies <- AutoOnly
    Fickle = {}
    RootOnGitLab = FALSE


PROPERTIES
    
    TriggerAfterMerges
    
\* Nobody has to ask anything of the server.
CHECK_DEADLOCK FALSE
