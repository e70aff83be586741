SPECIFICATION Spec
CONSTANTS
    lib = lib
    app = app
    Sub <- OneSub
    Root = root
    Terminal = {"t1"}
    Commands = {"checkout", "commit", "push", "sync", "rebase", "create-pr"}
    Killable = {"checkout", "commit", "sync"}
    Staged = {TRUE, FALSE}
    Faults = {"refused", "hook", "conflict", "tool"}
    Detached <- OneSub
    Hooks = TRUE
    MaxCommit = 1
PROPERTIES
    
    CheckoutTogether
\* Nobody has to run a command.
CHECK_DEADLOCK FALSE
