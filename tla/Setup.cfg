SPECIFICATION AllSpec
CONSTANTS
    m1 = m1
    m2 = m2
    s1 = s1
    ann = ann
    bob = bob
    ra = ra
    root = root
    api = api
    web = web
    Setting = {"auto-merge", "require-root-approval"}
    Value = {"true", "false"}
    Inserted <- NewRow
    Unset <- UnsetValues
    Provider = {"github", "gitlab"}
    GitHub = "github"
    StaticToken = StaticToken
    UserToken = UserToken
    NoToken = NoToken
    Configs = {"g1"}
    Inits = {"i1", "i2"}
    Webhooks = {"w1"}
    Command = {"set", "unset", "token", "unset-token", "provider"}
    Meta = {m1, m2}
    Submodules <- Shared
    OnGitLab = {m2}
    App = {}
    ServerSecret = ServerSecret
    RandomSecret = RandomSecret
    SetupWebhook = TRUE
    Json = {TRUE, FALSE}
    SetupFaults = TRUE
    MaxHooks = 2
    User = {ann, bob}
    GitLabRepo = {ra}
    Owner <- OwnRepos
    DefaultUser = bob
    Goroutine = {"c1", "c2"}
    Personal = Personal
    NoGrant = NoGrant
    MaxGrant = 3
    RoutedRepo <- Family
    TrackedSets <- RootOrAll
    SubNamed <- Subs
    GitLab = {api}
    SubmoduleOf <- Pairs
INVARIANTS
    
    
    SettingsKept
    InstallationKnown
    HooksAccepted
    InitDone
    GrantKept
\* Nobody has to run a command.
CHECK_DEADLOCK FALSE
