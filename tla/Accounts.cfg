SPECIFICATION AccountsSpec
CONSTANTS
    Browsers = {home}
    Nobody = nobody
    Slots = {1, 2}
    MaxTokens = 3
    MaxFaults = 1
    Roles = {admin, user, team}
    NoRole = none
    Admin = admin
    Default = user
    Everything = all
    ManageUsers = users_manage
    ManageRoles = roles_manage
    AnyUser = users_any
    Covering <- WildCards
    Bundles = {{all}, {users_any}}
    Users = {ann, bob}
    Postgres = TRUE
    Handlers = {left, right}
    MaxEdits = 2
SYMMETRY Symmetry
INVARIANTS
    TypesOK
    OneLivePerLogin
    EndedForGood
    ResolveIsReach
PROPERTIES
    ThrownOutForCause
    NothingBeyondOwn
CHECK_DEADLOCK FALSE
