---------------------------------- MODULE Roles ----------------------------------
(***************************************************************************)
(* Roles, what they lend to each other through parent_role_id, who may     *)
(* assign or edit them (app/services/permission.py, api/routes/users.py),  *)
(* and the first registration, which makes an administrator (auth.py).     *)
(*                                                                         *)
(* A handler reads and checks in one step and commits in another; the      *)
(* database enforces its foreign keys and unique names at the commit.      *)
(***************************************************************************)
EXTENDS FiniteSets, Naturals

CONSTANTS Roles, NoRole,
          Admin, Default,  \* the seeded system roles "admin" and "user"
          Everything,      \* the permission "*:*"
          ManageUsers, ManageRoles,  \* "user:manage" and "role:manage"
          Covering,        \* what matches them: "*:*", "user:*", "*:manage" ...
          Bundles,         \* the sets of permissions roles are given
          Users,
          Postgres,        \* BOOLEAN: registrations take the advisory lock
          Handlers,        \* bound: requests under way at once
          MaxEdits         \* bound: roles created, edited and deleted

ASSUME RolesAssumption ==
    /\ IsFiniteSet(Roles) /\ IsFiniteSet(Handlers)
    /\ Admin \in Roles /\ Default \in Roles \ {Admin} /\ NoRole \notin Roles
    /\ {Everything} \in Bundles
    /\ Cardinality({Everything, ManageUsers, ManageRoles}) = 3
    /\ \A p \in {ManageUsers, ManageRoles} : {p, Everything} \subseteq Covering[p]
    /\ Postgres \in BOOLEAN
    /\ MaxEdits \in Nat

VARIABLES known,    \* the roles that have a row
          parent,   \* [Roles -> Roles \cup {NoRole}]: parent_role_id
          grants,   \* [Roles -> SUBSET permissions]: role_permissions
          enabled,  \* [Roles -> BOOLEAN]: is_active
          users,    \* the users that have a row
          role,     \* [Users -> Roles \cup {NoRole}]: role_id
          on,       \* [Users -> BOOLEAN]: is_active
          pending,  \* [Handlers -> Pending]: what a handler read, to be committed
          edits

roleVars == <<known, parent, grants, enabled>>
userVars == <<users, role, on>>
rightsVars == <<roleVars, userVars, pending, edits>>

System == {Admin, Default}
Permissions == UNION Bundles
NothingPending == [kind |-> "idle"]

(* Changes to a role, one field each; those that change nothing are left   *)
(* out.                                                                    *)
Change == [field : {"parent"}, parent : Roles \cup {NoRole}]
          \cup [field : {"enabled"}, enabled : BOOLEAN]
          \cup [field : {"grants"}, grants : Bundles]

Pending ==
    {NothingPending}
    \cup [kind : {"register"}, user : Users, first : BOOLEAN, locked : BOOLEAN]
    \cup [kind : {"assign"}, user : Users, role : Roles, limit : SUBSET Permissions]
    \cup [kind : {"status"}, user : Users, to : BOOLEAN]
    \cup [kind : {"create"}, role : Roles, parent : Roles \cup {NoRole}, grants : Bundles]
    \cup [kind : {"update"}, role : Roles, change : Change, old : SUBSET Permissions]
    \cup [kind : {"delete"}, role : Roles]

(* The administrator of a fresh install is seeded, if it has a password    *)
(* configured; otherwise there is nobody yet.                              *)
Bootstrap(seeded) ==
    /\ users = seeded
    /\ role = [u \in Users |-> IF u \in seeded THEN Admin ELSE NoRole]
    /\ on = [u \in Users |-> u \in seeded]

RolesInit ==
    /\ known = System
    /\ parent = [r \in Roles |-> NoRole]
    /\ \E seeded \in Bundles \ {{Everything}} :
          grants = [r \in Roles |-> CASE r = Admin -> {Everything}
                                     [] r = Default -> seeded
                                     [] OTHER -> {}]
    /\ enabled = [r \in Roles |-> r \in System]
    /\ Bootstrap({}) \/ \E u \in Users : Bootstrap({u})
    /\ pending = [s \in Handlers |-> NothingPending]
    /\ edits = 0
--------------------------------------------------------------------------------
(* Mutant: an inactive ancestor is skipped over, not the end of the walk.  *)
ContributesAlways(r, seen) == r \notin seen

Contributes(r, seen) == enabled[r] /\ r \notin seen

(* The loop of resolve_role_permissions and of the guard below, hop by hop  *)
(* along the foreign key.                                                  *)
Walk[seen \in SUBSET Roles] ==
    [r \in Roles \cup {NoRole} |->
        IF r # NoRole /\ Contributes(r, seen) THEN Walk[seen \cup {r}][parent[r]]
        ELSE seen]

Chain(start) == Walk[{}][start]

Resolve(r) == UNION {grants[q] : q \in Chain(r)}

(* has_permission: the permission itself, or a wildcard that matches it.   *)
Holds(S, p) == S \cap Covering[p] # {}

(* Mutant: the guard looks at the role's own permissions only.             *)
GuardedOwn(start) == {start}

(* The guard of update_user_role walks on its own: the role itself counts  *)
(* even when it is inactive.                                               *)
Guarded(start) == Walk[{start}][parent[start]]

(* get_current_user and require_permission.                                *)
Held(u) == Resolve(role[u])
May(u, p) == u \in users /\ on[u] /\ Holds(Held(u), p)
--------------------------------------------------------------------------------
(* Handlers read ...                                                       *)

Ask(s, request) ==
    /\ pending[s] = NothingPending
    /\ pending' = [pending EXCEPT ![s] = request]
    /\ UNCHANGED <<roleVars, userVars, edits>>

LockHeld == \E s \in Handlers : pending[s].kind = "register" /\ pending[s].locked

Registration(u, locked) ==
    [kind |-> "register", user |-> u, first |-> users = {}, locked |-> locked]

(* register: on PostgreSQL the lock is held from the count to the commit.  *)
AskRegister(s, u) ==
    /\ u \notin users
    /\ Postgres => ~LockHeld
    /\ Ask(s, Registration(u, Postgres))

(* _find_or_create_sso_user counts too, without the lock.                  *)
AskSso(s, u) ==
    /\ u \notin users
    /\ Ask(s, Registration(u, FALSE))

AskAssign(s, actor, u, r) ==
    /\ May(actor, ManageUsers) /\ actor # u
    /\ u \in users /\ r \in known
    /\ \/ Holds(Held(actor), ManageRoles)
       \/ UNION {grants[q] : q \in Guarded(r)} \subseteq Held(actor)
    /\ Ask(s, [kind |-> "assign", user |-> u, role |-> r,
               limit |-> IF Holds(Held(actor), ManageRoles) THEN Permissions
                         ELSE Held(actor)])

AskStatus(s, actor, u) ==
    /\ May(actor, ManageUsers) /\ actor # u
    /\ u \in users
    /\ Ask(s, [kind |-> "status", user |-> u, to |-> ~on[u]])

(* MaxEdits: every edit under way will have its number.                    *)
Editing == {s \in Handlers : pending[s].kind \in {"create", "update", "delete"}}

MayEdit(actor) ==
    /\ May(actor, ManageRoles)
    /\ edits + Cardinality(Editing) < MaxEdits

AskCreate(s, actor, r) ==
    /\ MayEdit(actor)
    /\ r \notin known
    /\ \E p \in known \cup {NoRole}, g \in Bundles :
          Ask(s, [kind |-> "create", role |-> r, parent |-> p, grants |-> g])

AskUpdate(s, actor, r) ==
    /\ MayEdit(actor)
    /\ r \in known
    /\ \E c \in Change :
          /\ c.field = "parent" => c.parent \notin {r, parent[r]} /\ c.parent \in known \cup {NoRole}
          /\ c.field = "enabled" => r \notin System /\ c.enabled # enabled[r]
          /\ c.field = "grants" => c.grants # grants[r]
          /\ Ask(s, [kind |-> "update", role |-> r, change |-> c, old |-> grants[r]])

AskDelete(s, actor, r) ==
    /\ MayEdit(actor)
    /\ r \in known \ System
    /\ \A u \in users : role[u] # r
    /\ Ask(s, [kind |-> "delete", role |-> r])
--------------------------------------------------------------------------------
(* ... and commit.                                                         *)

Done(s) == pending' = [pending EXCEPT ![s] = NothingPending]

(* The roles changed: what an assignment checked may not be so any more,   *)
(* and its limit (which only NothingBeyondOwn reads) is lifted.            *)
DoneEditing(s) ==
    /\ edits' = edits + 1
    /\ pending' = [q \in Handlers |->
                      IF q = s THEN NothingPending
                      ELSE IF pending[q].kind = "assign"
                      THEN [pending[q] EXCEPT !.limit = Permissions] ELSE pending[q]]

Reject(s) == Done(s) /\ UNCHANGED <<roleVars, userVars, edits>>

(* create_user: the username is unique.                                    *)
CommitRegister(s) ==
    /\ pending[s].kind = "register"
    /\ LET u == pending[s].user IN
       IF u \in users THEN Reject(s)
       ELSE /\ users' = users \cup {u}
            /\ role' = [role EXCEPT ![u] = IF pending[s].first THEN Admin ELSE Default]
            /\ on' = [on EXCEPT ![u] = pending[s].first]
            /\ Done(s)
            /\ UNCHANGED <<roleVars, edits>>

(* Mutant: the role is not looked at again, nor by the database.           *)
CommitAssignUnchecked(s) ==
    /\ pending[s].kind = "assign"
    /\ role' = [role EXCEPT ![pending[s].user] = pending[s].role]
    /\ Done(s)
    /\ UNCHANGED <<roleVars, users, on, edits>>

CommitAssign(s) ==
    /\ pending[s].kind = "assign"
    /\ IF pending[s].role \notin known THEN Reject(s)
       ELSE /\ role' = [role EXCEPT ![pending[s].user] = pending[s].role]
            /\ Done(s)
            /\ UNCHANGED <<roleVars, users, on, edits>>

CommitStatus(s) ==
    /\ pending[s].kind = "status"
    /\ on' = [on EXCEPT ![pending[s].user] = pending[s].to]
    /\ Done(s)
    /\ UNCHANGED <<roleVars, users, role, edits>>

CommitCreate(s) ==
    /\ pending[s].kind = "create"
    /\ LET r == pending[s].role IN
       IF r \in known \/ pending[s].parent \notin known \cup {NoRole} THEN Reject(s)
       ELSE /\ known' = known \cup {r}
            /\ parent' = [parent EXCEPT ![r] = pending[s].parent]
            /\ grants' = [grants EXCEPT ![r] = pending[s].grants]
            /\ enabled' = [enabled EXCEPT ![r] = TRUE]
            /\ DoneEditing(s)
            /\ UNCHANGED userVars

(* The links of permissions to delete must be there, those to add must not. *)
Fits(s) ==
    LET old == pending[s].old  new == pending[s].change.grants IN
    /\ (old \ new) \subseteq grants[pending[s].role]
    /\ (new \ old) \cap grants[pending[s].role] = {}

CommitUpdate(s) ==
    /\ pending[s].kind = "update"
    /\ LET r == pending[s].role  c == pending[s].change IN
       IF \/ r \notin known
          \/ c.field = "parent" /\ c.parent \notin known \cup {NoRole}
          \/ c.field = "grants" /\ ~Fits(s)
       THEN Reject(s)
       ELSE /\ parent' = IF c.field = "parent" THEN [parent EXCEPT ![r] = c.parent] ELSE parent
            /\ enabled' = IF c.field = "enabled" THEN [enabled EXCEPT ![r] = c.enabled] ELSE enabled
            /\ grants' = IF c.field = "grants"
                         THEN [grants EXCEPT ![r] = (@ \ (pending[s].old \ c.grants)) \cup c.grants]
                         ELSE grants
            /\ DoneEditing(s)
            /\ UNCHANGED <<known, userVars>>

(* ON DELETE SET NULL, for children and for users assigned in between.     *)
CommitDelete(s) ==
    /\ pending[s].kind = "delete"
    /\ LET r == pending[s].role
           without(f) == [x \in DOMAIN f |-> IF f[x] = r THEN NoRole ELSE f[x]]
       IN IF r \notin known THEN Reject(s)
          ELSE /\ known' = known \ {r}
               /\ parent' = [without(parent) EXCEPT ![r] = NoRole]
               /\ grants' = [grants EXCEPT ![r] = {}]
               /\ enabled' = [enabled EXCEPT ![r] = FALSE]
               /\ role' = without(role)
               /\ DoneEditing(s)
               /\ UNCHANGED <<users, on>>

CommitPending(s) ==
    \/ CommitRegister(s) \/ CommitAssign(s) \/ CommitStatus(s)
    \/ CommitCreate(s) \/ CommitUpdate(s) \/ CommitDelete(s)

RolesNext ==
    \E s \in Handlers :
       \/ \E u \in Users : AskRegister(s, u) \/ AskSso(s, u)
       \/ \E actor \in users :
             \/ \E u \in Users : AskStatus(s, actor, u)
                                 \/ \E r \in Roles : AskAssign(s, actor, u, r)
             \/ \E r \in Roles : AskCreate(s, actor, r) \/ AskUpdate(s, actor, r)
                                 \/ AskDelete(s, actor, r)
       \/ CommitPending(s)

RolesSpec == RolesInit /\ [][RolesNext]_rightsVars
--------------------------------------------------------------------------------
(* Types, and no reference to a role that has no row.                      *)
RolesTypeOK ==
    /\ known \subseteq Roles /\ System \subseteq known
    /\ parent \in [Roles -> known \cup {NoRole}]
    /\ grants \in [Roles -> SUBSET Permissions]
    /\ enabled \in [Roles -> BOOLEAN]
    /\ users \subseteq Users
    /\ role \in [Users -> known \cup {NoRole}]
    /\ on \in [Users -> BOOLEAN]
    /\ pending \in [Handlers -> Pending]
    /\ edits \in 0..MaxEdits

(* What the hop-by-hop walk collects is what the docstring of              *)
(* resolve_role_permissions says, whatever chain the edits have built,     *)
(* loops included: r's own permissions and those of every active ancestor  *)
(* no inactive role lies before.                                           *)
ResolveIsReach ==
    \A r \in known :
        LET Closed(S) ==
                /\ enabled[r] => r \in S
                /\ \A q \in S : parent[q] # NoRole /\ enabled[parent[q]] => parent[q] \in S
        IN Chain(r) = {q \in Roles : \A S \in SUBSET Roles : Closed(S) => q \in S}

(* users.py:179-182: whoever may not manage roles hands out nothing beyond *)
(* what they hold: when the assignment is committed, the new role resolves *)
(* to no permission its giver lacked, however deep the chain, unless       *)
(* somebody edited a role in the meantime.                                 *)
NothingBeyondOwn ==
    [][\A s \in Handlers :
          pending[s].kind = "assign" /\ pending'[s] = NothingPending
          => Resolve(pending[s].role) \subseteq pending[s].limit]_rightsVars

(* auth.py:101-105: of any number of registrations on a fresh install, one *)
(* is the first, on SQLite without the lock as well: nobody comes in as    *)
(* the first when there are users already.                                 *)
OneFirstAdmin ==
    [][\A s \in Handlers :
          /\ pending[s].kind = "register" /\ pending[s].first
          /\ users' # users /\ pending'[s] = NothingPending
          => users = {}]_rightsVars
================================================================================
