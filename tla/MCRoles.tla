--------------------------------- MODULE MCRoles ---------------------------------
(* The two seeded roles and one that is created, two users.                *)
EXTENDS Roles

CONSTANTS admin, user, team, users_manage, users_any, roles_manage, all

(* Whoever manages users does so by the wildcard "user:*".                 *)
SmallBundles == {{all}, {users_any}}
WildCards == [p \in {users_manage, roles_manage} |->
                 {p, all} \cup {q \in {users_any} : p = users_manage}]
================================================================================
