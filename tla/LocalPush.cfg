SPECIFICATION Spec
CONSTANTS
    lib = lib
    app = app
    Sub <- TwoSubs
    Root = root
    Terminal = {"t1"}
    Commands = {"checkout", "commit", "push"}
    Killable = {"commit", "push"}
    Staged = {FALSE}
    Faults = {"refused", "hook"}
    Detached = {}
    Hooks = FALSE
    MaxCommit = 1
SYMMETRY Alike
INVARIANTS
    PinsPublished
\* Nobody has to run a command.
CHECK_DEADLOCK FALSE
