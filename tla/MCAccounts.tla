-------------------------------- MODULE MCAccounts --------------------------------
(* Who is signed in (Sessions) and who may do what (Roles), side by side:  *)
(* the two share no row, and the initial state chooses which one moves.    *)
EXTENDS Sessions, Roles, TLC

(* "user:*", by which users are managed here.                              *)
CONSTANT AnyUser

WildCards == [p \in {ManageUsers, ManageRoles} |->
                 {p, Everything} \cup {q \in {AnyUser} : p = ManageUsers}]

VARIABLE part

accountVars == <<part, vars, rightsVars>>

AccountsInit ==
    /\ part \in {"sessions", "roles"}
    /\ Init /\ RolesInit
    /\ part = "sessions" => users = {}

AccountsNext ==
    /\ UNCHANGED part
    /\ \/ part = "sessions" /\ Next /\ UNCHANGED rightsVars
       \/ part = "roles" /\ RolesNext /\ UNCHANGED vars

AccountsSpec == AccountsInit /\ [][AccountsNext]_accountVars

Symmetry == Permutations(Users) \cup Permutations(Handlers)

TypesOK == TypeOK /\ RolesTypeOK
================================================================================
