SPECIFICATION ClientsSpec
CONSTANTS
    s1 = s1
    s2 = s2
    u1 = u1
    u2 = u2
    w1 = w1
    w2 = w2
    Sub = {s1, s2}
    Updater = {u1, u2}
    ByName = {}
    ByFullName = {s1}
    PointerFaults = {"gitmodules", "commit", "write"}
    MaxPush = 1
    MaxMain = 2
    Writer = {w1, w2}
    CommentPage = 9
    CommentFaults = {"list", "write", "delete"}
    MaxChange = 1
    MaxCalls = 3
    MaxComment = 4
    Required = {"ci", "lint"}
    Check = {"ci", "lint"}
    ReviewPage = 1
    FilePage = 2
    RulesFaults = {"reviews", "runs", "statuses", "files"}
    MaxReview = 2
    MaxFile = 2
    Server = {"p1", "p2"}
    Caller = {"c1", "c2", "c3"}
    Home <- ServerEach
    Lifetime = 5
    Margin = 1
    Recached = 4
    Horizon = 8
INVARIANTS
    NothingLost
    
    
    AsksWithoutToken
PROPERTIES
    PinsNeverGoBack
    OkMeansAligned
    OneAfterCall
    PeopleKeepTheirs
\* Nobody has to call a client.
CHECK_DEADLOCK FALSE
