SPECIFICATION RolesSpec
CONSTANTS
    admin = admin
    user = user
    team = team
    users_manage = users_manage
    users_any = users_any
    roles_manage = roles_manage
    all = all
    Roles = {admin, user, team}
    NoRole = none
    Admin = admin
    Default = user
    Everything = all
    ManageUsers = users_manage
    ManageRoles = roles_manage
    Covering <- WildCards
    Bundles <- SmallBundles
    Users = {ann, bob}
    Postgres = FALSE
    Handlers = {left, right}
    MaxEdits = 2
PROPERTIES
    OneFirstAdmin
CHECK_DEADLOCK FALSE
