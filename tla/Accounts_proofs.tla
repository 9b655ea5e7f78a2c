---------------------------- MODULE Accounts_proofs ----------------------------
(***************************************************************************)
(* Proofs about roles and permissions (Roles): types and references, that  *)
(* the hop-by-hop walk collects what the docstring says, and that nobody   *)
(* hands out more than they hold, for every set of roles, permissions,     *)
(* users and requests; and the accounts as a whole (MCAccounts), sessions  *)
(* and rights side by side.                                                *)
(*                                                                         *)
(* Walk recurses over growing sets of roles.  That its equation has a      *)
(* solution is shown without induction over data: the sets of roles are    *)
(* finite, so every property of them that fails at some set fails at a     *)
(* maximal one.                                                            *)
(***************************************************************************)
EXTENDS MCAccounts, Sessions_proofs, FiniteSetTheorems, TLAPS

(* The walk: its equation has one solution, which is what it computes.     *)

LEMMA MaximalSet ==
  ASSUME NEW T, T \subseteq SUBSET Roles, T # {}
  PROVE  \E s \in T : \A q \in T : s \subseteq q => q = s
<1> DEFINE C == {Roles \ s : s \in T}
<1>1. IsWellFoundedOn(StrictSubsetOrdering(Roles), SUBSET Roles)
  <2>1. IsFiniteSet(Roles)
    BY RolesAssumption
  <2>2. FiniteSubsetsOf(Roles) = SUBSET Roles
    BY <2>1, FS_FiniteSubsetsOfFinite
  <2>3. IsWellFoundedOn(StrictSubsetOrdering(Roles), FiniteSubsetsOf(Roles))
    BY FS_StrictSubsetOrderingWellFounded
  <2> QED BY <2>2, <2>3, Zenon
<1>2. C \subseteq SUBSET Roles /\ C # {}
  <2>1. \A c \in C : c \in SUBSET Roles
    OBVIOUS
  <2>2. PICK s : s \in T
    OBVIOUS
  <2>3. Roles \ s \in C
    BY <2>2
  <2> QED BY <2>1, <2>3
<1>3. PICK c \in C : \A d \in C : <<d, c>> \notin StrictSubsetOrdering(Roles)
  <2> HIDE DEF C
  <2> QED BY <1>1, <1>2, WFMin
<1>4. PICK s \in T : c = Roles \ s
  OBVIOUS
<1>5. ASSUME NEW q \in T, s \subseteq q
      PROVE  q = s
  <2>1. Roles \ q \in C
    OBVIOUS
  <2>2. <<Roles \ q, c>> \notin StrictSubsetOrdering(Roles)
    BY <1>3, <2>1
  <2>3. Roles \ q \subseteq c /\ Roles \ q \in SUBSET Roles /\ c \in SUBSET Roles
    BY <1>4, <1>5
  <2>4. Roles \ q = c
    BY <2>2, <2>3 DEF StrictSubsetOrdering
  <2> QED BY <2>4, <1>4, <1>5
<1> QED BY <1>5

(* One hop of the loop, with w for what the hops after it collect.         *)
Hop(w, seen) ==
    [r \in Roles \cup {NoRole} |->
        IF r # NoRole /\ Contributes(r, seen) THEN w[seen \cup {r}][parent[r]]
        ELSE seen]

(* The sets of roles a walk that has seen s goes on to.                    *)
Above(s) == {q \in SUBSET Roles : s \subseteq q}
(* A walk that is right from s on.                                         *)
Solves(w, s) == w = [seen \in Above(s) |-> Hop(w, seen)]

LEMMA WalkIsChosen == Walk = CHOOSE w : w = [seen \in SUBSET Roles |-> Hop(w, seen)]
BY DEF Walk, Hop

LEMMA HopLooksAbove ==
  ASSUME NEW w, NEW v, NEW seen \in SUBSET Roles,
         \A q \in Above(seen) : q # seen => w[q] = v[q]
  PROVE  Hop(w, seen) = Hop(v, seen)
<1>1. ASSUME NEW r \in Roles \cup {NoRole}, r # NoRole, Contributes(r, seen)
      PROVE  w[seen \cup {r}] = v[seen \cup {r}]
  <2>1. seen \cup {r} \in Above(seen) /\ seen \cup {r} # seen
    BY <1>1 DEF Above, Contributes
  <2> QED BY <2>1
<1> QED BY <1>1 DEF Hop

LEMMA OneSolution ==
  ASSUME NEW w, NEW v, NEW s \in SUBSET Roles, NEW t \in SUBSET Roles,
         Solves(w, s), Solves(v, t),
         NEW seen \in Above(s) \cap Above(t)
  PROVE  w[seen] = v[seen]
<1> DEFINE Differ == {q \in Above(s) \cap Above(t) : w[q] # v[q]}
<1>1. SUFFICES ASSUME Differ # {}
               PROVE  FALSE
  OBVIOUS
<1>2. Differ \subseteq SUBSET Roles
  BY DEF Above
<1>3. PICK m \in Differ : \A q \in Differ : m \subseteq q => q = m
  <2> HIDE DEF Differ
  <2> QED BY <1>1, <1>2, MaximalSet
<1>4. m \in SUBSET Roles /\ m \in Above(s) /\ m \in Above(t)
  BY DEF Above
<1>5. \A q \in Above(m) : q # m => w[q] = v[q]
  BY <1>3, <1>4 DEF Above
<1>6. Hop(w, m) = Hop(v, m)
  BY <1>4, <1>5, HopLooksAbove
<1>7. w[m] = Hop(w, m) /\ v[m] = Hop(v, m)
  BY <1>4 DEF Solves
<1> QED BY <1>6, <1>7

LEMMA SolutionExists ==
  ASSUME NEW s \in SUBSET Roles
  PROVE  \E w : Solves(w, s)
<1> DEFINE Without == {q \in SUBSET Roles : ~\E w : Solves(w, q)}
<1>1. SUFFICES ASSUME Without # {}
               PROVE  FALSE
  OBVIOUS
<1>2. PICK m \in Without : \A q \in Without : m \subseteq q => q = m
  <2>1. Without \subseteq SUBSET Roles
    OBVIOUS
  <2> HIDE DEF Without
  <2> QED BY <1>1, <2>1, MaximalSet
<1> DEFINE sol(q) == CHOOSE w : Solves(w, q)
           later == [q \in Above(m) |-> IF q = m THEN {} ELSE sol(q)[q]]
           w == [q \in Above(m) |-> Hop(later, q)]
<1>3. ASSUME NEW q \in Above(m), q # m
      PROVE  Solves(sol(q), q) /\ sol(q)[q] = Hop(sol(q), q)
  <2>1. q \in SUBSET Roles /\ q \notin Without
    BY <1>2, <1>3 DEF Above
  <2>2. Solves(sol(q), q)
    BY <2>1
  <2>3. q \in Above(q)
    BY <2>1 DEF Above
  <2> HIDE DEF sol
  <2> QED BY <2>2, <2>3 DEF Solves
<1>4. ASSUME NEW q \in Above(m), q # m
      PROVE  Hop(later, q) = sol(q)[q]
  <2>1. q \in SUBSET Roles
    BY DEF Above
  <2>2. ASSUME NEW p \in Above(q), p # q
        PROVE  later[p] = sol(q)[p]
    <3>1. p \in Above(m) /\ p # m /\ p \in SUBSET Roles /\ p \in Above(p)
      BY <1>4, <2>1, <2>2 DEF Above
    <3>2. later[p] = sol(p)[p]
      BY <3>1
    <3>3. Solves(sol(p), p) /\ Solves(sol(q), q)
      BY <1>3, <1>4, <3>1
    <3> HIDE DEF sol
    <3>4. sol(p)[p] = sol(q)[p]
      BY <2>1, <2>2, <3>1, <3>3, OneSolution
    <3> QED BY <3>2, <3>4
  <2> HIDE DEF later, sol
  <2>3. Hop(later, q) = Hop(sol(q), q)
    BY <2>1, <2>2, HopLooksAbove
  <2> QED BY <1>3, <1>4, <2>3
<1>5. ASSUME NEW q \in Above(m)
      PROVE  Hop(later, q) = Hop(w, q)
  <2>1. q \in SUBSET Roles
    BY DEF Above
  <2>2. ASSUME NEW p \in Above(q), p # q
        PROVE  later[p] = w[p]
    <3>1. p \in Above(m) /\ p # m
      BY <2>1, <2>2, <1>5 DEF Above
    <3>2. later[p] = sol(p)[p]
      BY <3>1
    <3>3. w[p] = Hop(later, p)
      BY <3>1
    <3> HIDE DEF later, w, sol
    <3> QED BY <1>4, <3>1, <3>2, <3>3
  <2> HIDE DEF later, w
  <2> QED BY <2>1, <2>2, HopLooksAbove
<1>6. Solves(w, m)
  <2> HIDE DEF later
  <2> QED BY <1>5 DEF Solves
<1>7. \E x : Solves(x, m)
  <2> HIDE DEF w
  <2> QED BY <1>6
<1> QED BY <1>2, <1>7

(* The recursion is well-founded: each hop adds a role that is not yet in.  *)
WalkSolves == Walk = [seen \in SUBSET Roles |-> Hop(Walk, seen)]

LEMMA WalkEquation == WalkSolves
<1>1. Above({}) = SUBSET Roles
  BY DEF Above
<1>2. PICK w : Solves(w, {})
  BY SolutionExists
<1>3. w = [s \in SUBSET Roles |-> Hop(w, s)]
  BY <1>1, <1>2 DEF Solves
<1> QED BY <1>3, WalkIsChosen DEF WalkSolves

LEMMA WalkStep ==
  ASSUME NEW seen \in SUBSET Roles, NEW r \in Roles \cup {NoRole}
  PROVE  Walk[seen][r] =
           IF r # NoRole /\ Contributes(r, seen) THEN Walk[seen \cup {r}][parent[r]]
           ELSE seen
<1>1. Walk[seen] = Hop(Walk, seen)
  BY WalkEquation DEF WalkSolves
<1> QED BY <1>1 DEF Hop

(* A set of roles with every active ancestor an active role leads to.      *)
ClosedUp(S) == \A q \in S : parent[q] # NoRole /\ enabled[parent[q]] => parent[q] \in S

(* What one call of the walk does, whatever it has seen before.            *)
Walks(seen, r) ==
    LET found == Walk[seen][r] IN
    /\ seen \subseteq found /\ found \subseteq Roles
    /\ r # NoRole /\ enabled[r] => r \in found
    /\ \A q \in found \ seen :
          parent[q] # NoRole /\ enabled[parent[q]] => parent[q] \in found
    /\ \A S \in SUBSET Roles :
          ClosedUp(S) /\ seen \subseteq S /\ (r # NoRole /\ enabled[r] => r \in S)
          => found \subseteq S

(* A parent is a role or none: all that the walk needs to know.            *)
Rooted == parent \in [Roles -> Roles \cup {NoRole}]
(* The walk is right wherever it starts and whatever it has seen.          *)
AllWalk == \A seen \in SUBSET Roles, r \in Roles \cup {NoRole} : Walks(seen, r)

LEMMA WalkCollects == Rooted => AllWalk
<1> DEFINE Fails == {seen \in SUBSET Roles : ~\A r \in Roles \cup {NoRole} : Walks(seen, r)}
<1>1. SUFFICES ASSUME Rooted, Fails # {}
               PROVE  FALSE
  BY DEF AllWalk
<1>2. PICK seen \in Fails : \A q \in Fails : seen \subseteq q => q = seen
  <2>1. Fails \subseteq SUBSET Roles
    OBVIOUS
  <2> HIDE DEF Fails
  <2> QED BY <1>1, <2>1, MaximalSet
<1>3. seen \in SUBSET Roles
  OBVIOUS
<1>4. PICK r \in Roles \cup {NoRole} : ~Walks(seen, r)
  OBVIOUS
<1>5. CASE r # NoRole /\ Contributes(r, seen)
  <2>1. r \in Roles /\ r \notin seen /\ enabled[r]
    BY <1>5 DEF Contributes
  <2>2. seen \cup {r} \in SUBSET Roles /\ seen \cup {r} # seen
    BY <1>3, <2>1
  <2>3. seen \cup {r} \notin Fails
    BY <1>2, <2>2
  <2>4. parent[r] \in Roles \cup {NoRole}
    BY <1>1, <2>1 DEF Rooted
  <2>5. Walks(seen \cup {r}, parent[r])
    BY <2>2, <2>3, <2>4
  <2>6. Walk[seen][r] = Walk[seen \cup {r}][parent[r]]
    BY <1>3, <1>5, WalkStep
  <2> HIDE DEF Fails
  <2> DEFINE found == Walk[seen \cup {r}][parent[r]]
  <2>7. /\ seen \cup {r} \subseteq found /\ found \subseteq Roles
        /\ parent[r] # NoRole /\ enabled[parent[r]] => parent[r] \in found
        /\ \A q \in found \ (seen \cup {r}) :
              parent[q] # NoRole /\ enabled[parent[q]] => parent[q] \in found
        /\ \A S \in SUBSET Roles :
              ClosedUp(S) /\ seen \cup {r} \subseteq S
              /\ (parent[r] # NoRole /\ enabled[parent[r]] => parent[r] \in S)
              => found \subseteq S
    BY <2>5 DEF Walks
  <2>8. Walk[seen][r] = found
    BY <2>6
  <2> HIDE DEF found
  <2>9. seen \subseteq found /\ r \in found
    BY <2>7
  <2>10. ASSUME NEW q \in found \ seen, parent[q] # NoRole, enabled[parent[q]]
         PROVE  parent[q] \in found
    BY <2>7, <2>10
  <2>11. ASSUME NEW S \in SUBSET Roles, ClosedUp(S), seen \subseteq S,
                r # NoRole /\ enabled[r] => r \in S
         PROVE  found \subseteq S
    <3>1. r \in S
      BY <1>5, <2>1, <2>11
    <3>2. parent[r] # NoRole /\ enabled[parent[r]] => parent[r] \in S
      BY <3>1, <2>11 DEF ClosedUp
    <3> QED BY <2>7, <2>11, <3>1, <3>2
  <2>12. Walks(seen, r)
    BY <2>7, <2>8, <2>9, <2>10, <2>11 DEF Walks
  <2> QED BY <1>4, <2>12
<1>6. CASE ~(r # NoRole /\ Contributes(r, seen))
  <2>1. Walk[seen][r] = seen
    BY <1>3, <1>6, WalkStep
  <2>2. r # NoRole /\ enabled[r] => r \in seen
    BY <1>6 DEF Contributes
  <2>3. Walks(seen, r)
    BY <1>3, <2>1, <2>2 DEF Walks
  <2> QED BY <1>4, <2>3
<1> QED BY <1>5, <1>6

(* resolve_role_permissions collects what its docstring says, for every    *)
(* chain, loops included.                                                  *)
LEMMA ChainIsReach == Rooted /\ known \subseteq Roles => ResolveIsReach
<1> SUFFICES ASSUME Rooted, known \subseteq Roles, NEW r \in known
             PROVE  Chain(r) = {q \in Roles : \A S \in SUBSET Roles :
                       /\ enabled[r] => r \in S
                       /\ \A p \in S : parent[p] # NoRole /\ enabled[parent[p]]
                                       => parent[p] \in S
                       => q \in S}
  BY DEF ResolveIsReach
<1> DEFINE HoldsReach(S) == /\ enabled[r] => r \in S
                        /\ \A p \in S : parent[p] # NoRole /\ enabled[parent[p]]
                                        => parent[p] \in S
<1>1. r \in Roles /\ r # NoRole
  BY RolesAssumption
<1>2. Walks({}, r)
  BY <1>1, WalkCollects DEF AllWalk
<1>3. Chain(r) \subseteq Roles /\ HoldsReach(Chain(r))
  BY <1>1, <1>2 DEF Walks, Chain
<1>4. ASSUME NEW S \in SUBSET Roles, HoldsReach(S)
      PROVE  Chain(r) \subseteq S
  BY <1>2, <1>4 DEF Walks, Chain, ClosedUp
<1> HIDE DEF HoldsReach
<1>5. Chain(r) = {q \in Roles : \A S \in SUBSET Roles : HoldsReach(S) => q \in S}
  BY <1>3, <1>4
<1> QED BY <1>5 DEF HoldsReach

(* The guard of update_user_role looks at no less than the assigned role    *)
(* will resolve to.                                                        *)
LEMMA GuardCoversChain ==
  ASSUME Rooted, NEW r \in Roles
  PROVE  Chain(r) \subseteq Guarded(r) /\ Guarded(r) \subseteq Roles
<1>1. parent[r] \in Roles \cup {NoRole} /\ r # NoRole /\ {r} \in SUBSET Roles
  BY RolesAssumption DEF Rooted
<1>2. Walks({r}, parent[r])
  BY <1>1, WalkCollects DEF AllWalk
<1>3. Chain(r) = IF Contributes(r, {}) THEN Walk[{r}][parent[r]] ELSE {}
  <2>1. Chain(r) = IF r # NoRole /\ Contributes(r, {}) THEN Walk[{} \cup {r}][parent[r]] ELSE {}
    BY WalkStep DEF Chain
  <2>2. {} \cup {r} = {r}
    OBVIOUS
  <2> QED BY <1>1, <2>1, <2>2
<1> QED BY <1>2, <1>3 DEF Guarded, Walks

(* A role resolves to permissions, and to nothing else.                    *)
LEMMA ResolvedArePermissions ==
  ASSUME Rooted, grants \in [Roles -> SUBSET Permissions],
         NEW r \in Roles \cup {NoRole}
  PROVE  Resolve(r) \subseteq Permissions
<1>1. Walks({}, r)
  BY WalkCollects DEF AllWalk
<1>2. Chain(r) \subseteq Roles
  BY <1>1 DEF Walks, Chain
<1> QED BY <1>2 DEF Resolve

(* The walk depends on the rows of roles only.                             *)
LEMMA WalkUnchanged == UNCHANGED roleVars => Walk' = Walk
<1>1. WalkSolves /\ WalkSolves'
  BY WalkEquation, PTL
<1>2. SUFFICES ASSUME UNCHANGED roleVars
               PROVE  Walk' = Walk
  OBVIOUS
<1>3. Above({}) = SUBSET Roles
  BY DEF Above
<1> DEFINE new == Walk'
<1>4. new = [seen \in SUBSET Roles |-> Hop(new, seen)]
  BY <1>1, <1>2 DEF WalkSolves, Hop, Contributes, roleVars
<1> HIDE DEF new
<1>5. Solves(new, {}) /\ Solves(Walk, {})
  BY <1>1, <1>3, <1>4 DEF Solves, WalkSolves
<1>6. \A seen \in SUBSET Roles : new[seen] = Walk[seen]
  BY <1>3, <1>5, OneSolution
<1>7. new = Walk
  BY <1>1, <1>4, <1>6 DEF WalkSolves
<1> QED BY <1>7 DEF new

--------------------------------------------------------------------------------
(* The invariant: types, the limit of edits, and what an assignment under  *)
(* way has checked.                                                        *)

(* Edits made and edits under way stay within MaxEdits.                    *)
EditsFit == edits + Cardinality(Editing) <= MaxEdits

(* What an assignment under way may hand out is within its giver's limit,  *)
(* or somebody has edited a role since it was checked.                     *)
Limited ==
    \A s \in Handlers :
        pending[s].kind = "assign" => Resolve(pending[s].role) \subseteq pending[s].limit

(* Only roles that were created are deleted.                               *)
SeededStay ==
    \A s \in Handlers : pending[s].kind = "delete" => pending[s].role \notin System

(* The inductive invariant of RolesSpec.                                   *)
RolesInv == RolesTypeOK /\ EditsFit /\ Limited /\ SeededStay

(* The requests that will change a role.                                   *)
EditKinds == {"create", "update", "delete"}

(* What a handler has read, by its kind.                                   *)
LEMMA PendingShape ==
  ASSUME NEW p \in Pending
  PROVE  /\ p.kind \in {"idle", "register", "assign", "status"} \cup EditKinds
         /\ p.kind = "idle" => p = NothingPending
         /\ p.kind = "register" => p.user \in Users /\ p.first \in BOOLEAN
         /\ p.kind = "assign" => p.user \in Users /\ p.role \in Roles
                                 /\ p.limit \in SUBSET Permissions
         /\ p.kind = "status" => p.user \in Users /\ p.to \in BOOLEAN
         /\ p.kind = "create" => p.role \in Roles /\ p.parent \in Roles \cup {NoRole}
                                 /\ p.grants \in Bundles
         /\ p.kind = "update" => p.role \in Roles /\ p.change \in Change
                                 /\ p.old \in SUBSET Permissions
         /\ p.kind = "delete" => p.role \in Roles
BY DEF Pending, NothingPending, EditKinds

LEMMA ChangeShape ==
  ASSUME NEW c \in Change
  PROVE  /\ c.field = "parent" => c.parent \in Roles \cup {NoRole}
         /\ c.field = "enabled" => c.enabled \in BOOLEAN
         /\ c.field = "grants" => c.grants \in Bundles
BY DEF Change

(* DoneEditing changes nothing else of an assignment under way.            *)
LEMMA LimitLifted ==
  ASSUME NEW p \in Pending, p.kind = "assign"
  PROVE  /\ [p EXCEPT !.limit = Permissions] \in Pending
         /\ [p EXCEPT !.limit = Permissions].kind = "assign"
         /\ [p EXCEPT !.limit = Permissions].limit = Permissions
         /\ [p EXCEPT !.limit = Permissions].role = p.role
BY DEF Pending, NothingPending

(* Handlers that edit, before and after a step.                            *)
LEMMA EditingFinite == IsFiniteSet(Editing) /\ Cardinality(Editing) \in Nat
<1>1. IsFiniteSet(Handlers) /\ Editing \in SUBSET Handlers
  BY RolesAssumption DEF Editing
<1>2. IsFiniteSet(Editing)
  BY <1>1, FS_Subset
<1> QED BY <1>2, FS_CardinalityType

(* A request keeps types and limits; one that edits fits below the bound.  *)
LEMMA AskKeeps ==
  ASSUME RolesTypeOK, EditsFit, SeededStay, NEW s \in Handlers, NEW request \in Pending,
         Ask(s, request),
         request.kind = "delete" => request.role \notin System,
         request.kind \in EditKinds => edits + Cardinality(Editing) < MaxEdits
  PROVE  RolesTypeOK' /\ EditsFit' /\ SeededStay'
<1>1. pending' = [pending EXCEPT ![s] = request] /\ pending \in [Handlers -> Pending]
  BY DEF Ask, RolesTypeOK
<1>0. SeededStay'
  BY <1>1 DEF SeededStay
<1>2. UNCHANGED <<roleVars, userVars, edits>>
  BY DEF Ask
<1>3. pending' \in [Handlers -> Pending]
  BY <1>1
<1>4. RolesTypeOK'
  BY <1>2, <1>3 DEF RolesTypeOK, roleVars, userVars
<1>5. pending[s].kind = "idle"
  BY DEF Ask, NothingPending
<1>6. CASE request.kind \in EditKinds
  <2>1. Editing' = Editing \cup {s}
    BY <1>1, <1>6 DEF Editing, EditKinds
  <2>2. s \notin Editing
    BY <1>5 DEF Editing
  <2>3. Cardinality(Editing \cup {s}) = Cardinality(Editing) + 1
    BY <2>2, EditingFinite, FS_AddElement
  <2>4. edits \in Nat /\ MaxEdits \in Nat
    BY RolesAssumption DEF RolesTypeOK
  <2> QED BY <1>0, <1>2, <1>4, <1>6, <2>1, <2>3, <2>4, EditingFinite DEF EditsFit
<1>7. CASE request.kind \notin EditKinds
  <2>1. Editing' = Editing
    BY <1>1, <1>5, <1>7 DEF Editing, EditKinds
  <2> QED BY <1>0, <1>2, <1>4, <2>1 DEF EditsFit
<1> QED BY <1>6, <1>7

LEMMA AskKeepsLimited ==
  ASSUME RolesTypeOK, Limited, NEW s \in Handlers, NEW request \in Pending,
         Ask(s, request),
         request.kind = "assign" => Resolve(request.role) \subseteq request.limit
  PROVE  Limited'
<1>1. pending' = [pending EXCEPT ![s] = request] /\ pending \in [Handlers -> Pending]
  BY DEF Ask, RolesTypeOK
<1>2. Walk' = Walk /\ grants' = grants
  BY WalkUnchanged DEF Ask, roleVars
<1>3. \A r : Resolve(r)' = Resolve(r)
  BY <1>2 DEF Resolve, Chain
<1> QED BY <1>1, <1>3 DEF Limited

(* The seeded roles have no request and no parent.                         *)
LEMMA RolesInvInit == RolesInit => RolesInv
<1> SUFFICES ASSUME RolesInit
             PROVE  RolesInv
  OBVIOUS
<1>1. NothingPending \in Pending /\ NothingPending.kind = "idle"
  BY DEF Pending, NothingPending
<1>2. /\ System \subseteq Roles /\ MaxEdits \in Nat
      /\ \A b \in Bundles : b \subseteq Permissions
      /\ {Everything} \in Bundles
  BY RolesAssumption DEF System, Permissions
<1>3. grants \in [Roles -> SUBSET Permissions]
  BY <1>2 DEF RolesInit
<1>4. pending \in [Handlers -> Pending] /\ \A s \in Handlers : pending[s].kind = "idle"
  BY <1>1 DEF RolesInit
<1>4a. /\ users \subseteq Users /\ on \in [Users -> BOOLEAN]
       /\ role \in [Users -> {Admin, NoRole}]
  <2>1. PICK seeded \in SUBSET Users : Bootstrap(seeded)
    <3>1. Bootstrap({}) \/ \E u \in Users : Bootstrap({u})
      BY DEF RolesInit
    <3>2. \A u \in Users : {u} \in SUBSET Users
      OBVIOUS
    <3> QED BY <3>1, <3>2
  <2> QED BY <2>1 DEF Bootstrap
<1>5. RolesTypeOK
  BY <1>2, <1>3, <1>4, <1>4a DEF RolesInit, RolesTypeOK, System
<1>6. Editing = {}
  BY <1>4 DEF Editing
<1>7. EditsFit
  BY <1>2, <1>6, FS_EmptySet DEF EditsFit, RolesInit
<1>8. Limited /\ SeededStay
  BY <1>4 DEF Limited, SeededStay
<1> QED BY <1>5, <1>7, <1>8 DEF RolesInv

LEMMA TypedRoles ==
  ASSUME RolesTypeOK
  PROVE  /\ Rooted /\ grants \in [Roles -> SUBSET Permissions]
         /\ \A u \in users : Held(u) \subseteq Permissions
<1>1. Rooted /\ grants \in [Roles -> SUBSET Permissions]
  BY DEF RolesTypeOK, Rooted
<1>2. \A u \in users : role[u] \in Roles \cup {NoRole}
  BY DEF RolesTypeOK
<1> QED BY <1>1, <1>2, ResolvedArePermissions DEF Held

(* The guard of update_user_role is what Limited remembers.                *)
LEMMA AskAssignKeeps ==
  ASSUME RolesInv, NEW s \in Handlers, NEW actor \in users, NEW u \in Users, NEW r \in Roles,
         AskAssign(s, actor, u, r)
  PROVE  RolesInv'
<1> DEFINE limit == IF Holds(Held(actor), ManageRoles) THEN Permissions ELSE Held(actor)
           request == [kind |-> "assign", user |-> u, role |-> r, limit |-> limit]
<1>1. Rooted /\ grants \in [Roles -> SUBSET Permissions] /\ Held(actor) \subseteq Permissions
  BY TypedRoles DEF RolesInv
<1>2. Ask(s, request)
  BY DEF AskAssign
<1>3. request \in Pending
  BY <1>1 DEF Pending
<1>4. Resolve(r) \subseteq limit
  <2>1. CASE Holds(Held(actor), ManageRoles)
    BY <2>1, <1>1, ResolvedArePermissions
  <2>2. CASE ~Holds(Held(actor), ManageRoles)
    <3>1. UNION {grants[q] : q \in Guarded(r)} \subseteq Held(actor)
      BY <2>2 DEF AskAssign
    <3>2. Chain(r) \subseteq Guarded(r)
      BY <1>1, GuardCoversChain
    <3> QED BY <2>2, <3>1, <3>2 DEF Resolve
  <2> QED BY <2>1, <2>2
<1>5. /\ request.kind = "assign" /\ request.kind \notin EditKinds /\ request.kind # "delete"
      /\ Resolve(request.role) \subseteq request.limit
  BY <1>4 DEF EditKinds
<1> HIDE DEF request
<1> QED BY <1>2, <1>3, <1>5, AskKeeps, AskKeepsLimited DEF RolesInv

LEMMA OtherAskKeeps ==
  ASSUME RolesInv, NEW s \in Handlers, NEW request \in Pending, Ask(s, request),
         \/ request.kind \notin EditKinds \cup {"assign"}
         \/ request.kind \in EditKinds /\ edits + Cardinality(Editing) < MaxEdits,
         request.kind = "delete" => request.role \notin System
  PROVE  RolesInv'
<1>1. request.kind # "assign"
  BY DEF EditKinds
<1> QED BY <1>1, AskKeeps, AskKeepsLimited DEF RolesInv

LEMMA AskOthersKeeps ==
  ASSUME RolesInv, NEW s \in Handlers
  PROVE  /\ \A u \in Users : AskRegister(s, u) \/ AskSso(s, u) => RolesInv'
         /\ \A actor \in users, u \in Users : AskStatus(s, actor, u) => RolesInv'
         /\ \A actor \in users, r \in Roles :
               AskCreate(s, actor, r) \/ AskUpdate(s, actor, r) \/ AskDelete(s, actor, r)
               => RolesInv'
<1>1. ASSUME NEW u \in Users, NEW locked \in BOOLEAN, Ask(s, Registration(u, locked))
      PROVE  RolesInv'
  <2>1. /\ Registration(u, locked) \in Pending
        /\ Registration(u, locked).kind \notin EditKinds \cup {"assign"}
        /\ Registration(u, locked).kind # "delete"
    BY DEF Registration, Pending, EditKinds
  <2> QED BY <1>1, <2>1, OtherAskKeeps
<1>2. ASSUME NEW u \in Users, AskRegister(s, u) \/ AskSso(s, u)
      PROVE  RolesInv'
  <2>1. Postgres \in BOOLEAN
    BY RolesAssumption
  <2> QED BY <1>1, <1>2, <2>1 DEF AskRegister, AskSso
<1>3. ASSUME NEW actor \in users, NEW u \in Users, AskStatus(s, actor, u)
      PROVE  RolesInv'
  <2> DEFINE request == [kind |-> "status", user |-> u, to |-> ~on[u]]
  <2>1. on[u] \in BOOLEAN
    BY DEF RolesInv, RolesTypeOK
  <2>2. /\ request \in Pending /\ request.kind \notin EditKinds \cup {"assign"}
        /\ request.kind # "delete"
    BY <2>1 DEF Pending, EditKinds
  <2>3. Ask(s, request)
    BY <1>3 DEF AskStatus
  <2> HIDE DEF request
  <2> QED BY <2>2, <2>3, OtherAskKeeps
<1>4. ASSUME NEW actor \in users, NEW r \in Roles, AskCreate(s, actor, r)
      PROVE  RolesInv'
  <2>1. PICK p \in known \cup {NoRole}, g \in Bundles :
           Ask(s, [kind |-> "create", role |-> r, parent |-> p, grants |-> g])
    BY <1>4 DEF AskCreate
  <2> DEFINE request == [kind |-> "create", role |-> r, parent |-> p, grants |-> g]
  <2>2. p \in Roles \cup {NoRole}
    BY DEF RolesInv, RolesTypeOK
  <2>3. request \in Pending /\ request.kind \in EditKinds \ {"delete"}
    BY <2>2 DEF Pending, EditKinds
  <2>4. Ask(s, request) /\ edits + Cardinality(Editing) < MaxEdits
    BY <1>4, <2>1 DEF AskCreate, MayEdit
  <2> HIDE DEF request
  <2> QED BY <2>3, <2>4, OtherAskKeeps
<1>5. ASSUME NEW actor \in users, NEW r \in Roles, AskUpdate(s, actor, r)
      PROVE  RolesInv'
  <2>1. PICK c \in Change :
           Ask(s, [kind |-> "update", role |-> r, change |-> c, old |-> grants[r]])
    BY <1>5 DEF AskUpdate
  <2> DEFINE request == [kind |-> "update", role |-> r, change |-> c, old |-> grants[r]]
  <2>2. grants[r] \in SUBSET Permissions
    BY DEF RolesInv, RolesTypeOK
  <2>3. request \in Pending /\ request.kind \in EditKinds \ {"delete"}
    BY <2>2 DEF Pending, EditKinds
  <2>4. Ask(s, request) /\ edits + Cardinality(Editing) < MaxEdits
    BY <1>5, <2>1 DEF AskUpdate, MayEdit
  <2> HIDE DEF request
  <2> QED BY <2>3, <2>4, OtherAskKeeps
<1>6. ASSUME NEW actor \in users, NEW r \in Roles, AskDelete(s, actor, r)
      PROVE  RolesInv'
  <2> DEFINE request == [kind |-> "delete", role |-> r]
  <2>1. request \in Pending /\ request.kind \in EditKinds /\ request.role \notin System
    BY <1>6 DEF AskDelete, Pending, EditKinds
  <2>2. Ask(s, request) /\ edits + Cardinality(Editing) < MaxEdits
    BY <1>6 DEF AskDelete, MayEdit
  <2> HIDE DEF request
  <2> QED BY <2>1, <2>2, OtherAskKeeps
<1> QED BY <1>2, <1>3, <1>4, <1>5, <1>6

(* A commit that leaves the roles alone.                                   *)
(* A commit that edits no role.                                            *)
LEMMA DoneKeeps ==
  ASSUME RolesInv, NEW s \in Handlers, Done(s), UNCHANGED <<roleVars, edits>>
  PROVE  /\ pending' \in [Handlers -> Pending]
         /\ EditsFit' /\ Limited' /\ SeededStay'
<1>1. NothingPending \in Pending /\ NothingPending.kind = "idle"
  BY DEF Pending, NothingPending
<1>2. pending' = [pending EXCEPT ![s] = NothingPending] /\ pending \in [Handlers -> Pending]
  BY DEF Done, RolesInv, RolesTypeOK
<1>3. pending' \in [Handlers -> Pending]
  BY <1>1, <1>2
<1>4. Editing' = Editing \ {s}
  BY <1>1, <1>2 DEF Editing
<1>5. Cardinality(Editing \ {s}) \in Nat /\ Cardinality(Editing \ {s}) <= Cardinality(Editing)
  BY EditingFinite, FS_RemoveElement, FS_CardinalityType
<1>6. edits \in Nat /\ MaxEdits \in Nat /\ edits' = edits
  BY RolesAssumption DEF RolesInv, RolesTypeOK
<1>7. EditsFit'
  BY <1>4, <1>5, <1>6, EditingFinite DEF EditsFit, RolesInv
<1>8. Walk' = Walk /\ grants' = grants
  BY WalkUnchanged DEF roleVars
<1>9. \A r : Resolve(r)' = Resolve(r)
  BY <1>8 DEF Resolve, Chain
<1>10. Limited'
  BY <1>1, <1>2, <1>9 DEF Limited, RolesInv
<1>11. SeededStay'
  BY <1>1, <1>2 DEF SeededStay, RolesInv
<1> QED BY <1>3, <1>7, <1>10, <1>11

(* A commit that edits a role.                                             *)
LEMMA DoneEditingKeeps ==
  ASSUME RolesInv, NEW s \in Handlers, s \in Editing, DoneEditing(s)
  PROVE  /\ pending' \in [Handlers -> Pending]
         /\ EditsFit' /\ SeededStay' /\ edits' \in 0..MaxEdits
         /\ \A q \in Handlers : pending'[q].kind = "assign" =>
               /\ pending'[q].limit = Permissions
               /\ pending'[q].role \in Roles
<1>1. NothingPending \in Pending /\ NothingPending.kind = "idle"
  BY DEF Pending, NothingPending
<1>2. pending \in [Handlers -> Pending] /\ edits \in Nat /\ MaxEdits \in Nat
  BY RolesAssumption DEF RolesInv, RolesTypeOK
<1>3. ASSUME NEW q \in Handlers
      PROVE  /\ pending'[q] \in Pending
             /\ pending'[q].kind = IF q = s THEN "idle" ELSE pending[q].kind
             /\ pending'[q].kind = "delete" => pending'[q].role \notin System
             /\ pending'[q].kind = "assign" =>
                   pending'[q].limit = Permissions /\ pending'[q].role \in Roles
  <2>1. CASE q = s
    <3>1. pending'[q] = NothingPending
      BY <2>1 DEF DoneEditing
    <3> QED BY <1>1, <2>1, <3>1
  <2>2. CASE q # s /\ pending[q].kind = "assign"
    <3>1. pending'[q] = [pending[q] EXCEPT !.limit = Permissions]
      BY <2>2 DEF DoneEditing
    <3>2. pending[q] \in Pending
      BY <1>2
    <3>3. pending[q].role \in Roles
      BY <2>2, <3>2, PendingShape
    <3> QED BY <2>2, <3>1, <3>2, <3>3, LimitLifted
  <2>3. CASE q # s /\ pending[q].kind # "assign"
    <3>1. pending'[q] = pending[q]
      BY <2>3 DEF DoneEditing
    <3> QED BY <1>2, <2>3, <3>1 DEF RolesInv, SeededStay
  <2> QED BY <2>1, <2>2, <2>3
<1>4. pending' \in [Handlers -> Pending]
  <2>1. pending' = [q \in Handlers |-> pending'[q]]
    BY DEF DoneEditing
  <2> QED BY <1>3, <2>1
<1>5. Editing' = Editing \ {s}
  BY <1>3 DEF Editing
<1>6. Cardinality(Editing \ {s}) = Cardinality(Editing) - 1
  BY EditingFinite, FS_RemoveElement
<1>7. Cardinality(Editing \ {s}) \in Nat
  BY EditingFinite, FS_RemoveElement, FS_CardinalityType
<1>8. EditsFit' /\ edits' \in 0..MaxEdits
  <2>1. edits' = edits + 1
    BY DEF DoneEditing
  <2>2. edits + Cardinality(Editing) <= MaxEdits
    BY DEF RolesInv, EditsFit
  <2> QED BY <1>2, <1>5, <1>6, <1>7, <2>1, <2>2, EditingFinite DEF EditsFit
<1>9. SeededStay'
  BY <1>3 DEF SeededStay
<1> QED BY <1>3, <1>4, <1>8, <1>9

--------------------------------------------------------------------------------
(* Every commit keeps it.                                                  *)

(* Registrations, assignments and changes of status edit no role.          *)
LEMMA CommitOfUsersKeeps ==
  ASSUME RolesInv, NEW s \in Handlers,
         CommitRegister(s) \/ CommitAssign(s) \/ CommitStatus(s)
  PROVE  RolesInv'
<1> DEFINE p == pending[s]
<1>1. RolesTypeOK /\ p \in Pending
  BY DEF RolesInv, RolesTypeOK
<1>2. UNCHANGED <<roleVars, edits>> /\ Done(s)
  BY DEF CommitRegister, CommitAssign, CommitStatus, Reject
<1>3. pending' \in [Handlers -> Pending] /\ EditsFit' /\ Limited' /\ SeededStay'
  BY <1>2, DoneKeeps
<1>4. users' \subseteq Users /\ role' \in [Users -> known \cup {NoRole}] /\ on' \in [Users -> BOOLEAN]
  <2>1. CASE CommitRegister(s)
    <3>1. p.user \in Users /\ p.first \in BOOLEAN
      BY <1>1, <2>1, PendingShape DEF CommitRegister
    <3>2. {Admin, Default} \subseteq known
      BY <1>1 DEF RolesTypeOK, System
    <3> HIDE DEF p
    <3>3. \/ UNCHANGED userVars
          \/ /\ users' = users \cup {p.user}
             /\ role' = [role EXCEPT ![p.user] = IF p.first THEN Admin ELSE Default]
             /\ on' = [on EXCEPT ![p.user] = p.first]
      BY <2>1 DEF CommitRegister, Reject, p
    <3> QED BY <1>1, <3>1, <3>2, <3>3 DEF RolesTypeOK, userVars
  <2>2. CASE CommitAssign(s)
    <3>1. \/ UNCHANGED userVars
          \/ /\ p.role \in known
             /\ role' = [role EXCEPT ![p.user] = p.role] /\ UNCHANGED <<users, on>>
      BY <2>2 DEF CommitAssign, Reject
    <3> QED BY <1>1, <3>1 DEF RolesTypeOK, userVars
  <2>3. CASE CommitStatus(s)
    <3>1. p.to \in BOOLEAN
      BY <1>1, <2>3, PendingShape DEF CommitStatus
    <3>2. on' = [on EXCEPT ![p.user] = p.to] /\ UNCHANGED <<users, role>>
      BY <2>3 DEF CommitStatus
    <3> HIDE DEF p
    <3> QED BY <1>1, <3>1, <3>2 DEF RolesTypeOK
  <2> QED BY <2>1, <2>2, <2>3
<1>5. RolesTypeOK'
  BY <1>1, <1>2, <1>3, <1>4 DEF RolesTypeOK, roleVars
<1> QED BY <1>3, <1>5 DEF RolesInv

(* The database refuses: only the request ends.                            *)
LEMMA RejectKeeps ==
  ASSUME RolesInv, NEW s \in Handlers, Reject(s)
  PROVE  RolesInv'
<1>1. UNCHANGED <<roleVars, userVars, edits>> /\ Done(s)
  BY DEF Reject
<1>2. pending' \in [Handlers -> Pending] /\ EditsFit' /\ Limited' /\ SeededStay'
  BY <1>1, DoneKeeps
<1>3. RolesTypeOK'
  BY <1>1, <1>2 DEF RolesInv, RolesTypeOK, roleVars, userVars
<1> QED BY <1>2, <1>3 DEF RolesInv

(* The rest of an edit's proof once its new tables are known to be typed.  *)
LEMMA EditKeeps ==
  ASSUME RolesInv, NEW s \in Handlers, s \in Editing, DoneEditing(s),
         /\ known' \subseteq Roles /\ System \subseteq known'
         /\ parent' \in [Roles -> known' \cup {NoRole}]
         /\ grants' \in [Roles -> SUBSET Permissions]
         /\ enabled' \in [Roles -> BOOLEAN]
         /\ role' \in [Users -> known' \cup {NoRole}],
         UNCHANGED <<users, on>>
  PROVE  RolesInv'
<1>1. /\ pending' \in [Handlers -> Pending] /\ EditsFit' /\ SeededStay'
      /\ edits' \in 0..MaxEdits
      /\ \A q \in Handlers : pending'[q].kind = "assign" =>
            pending'[q].limit = Permissions /\ pending'[q].role \in Roles
  BY DoneEditingKeeps
<1>2. RolesTypeOK'
  BY <1>1 DEF RolesInv, RolesTypeOK
<1>3. Rooted' /\ grants' \in [Roles -> SUBSET Permissions]
  BY DEF Rooted
<1>4. AllWalk'
  <2>1. (Rooted => AllWalk)'
    BY WalkCollects, PTL
  <2> QED BY <1>3, <2>1
<1>5. ASSUME NEW r \in Roles
      PROVE  Resolve(r)' \subseteq Permissions
  <2>1. Walks({}, r)'
    BY <1>4 DEF AllWalk
  <2>2. Chain(r)' \subseteq Roles
    BY <2>1 DEF Walks, Chain
  <2> QED BY <1>3, <2>2 DEF Resolve
<1>6. Limited'
  BY <1>1, <1>5 DEF Limited
<1> QED BY <1>1, <1>2, <1>6 DEF RolesInv

LEMMA CommitCreateKeeps ==
  ASSUME RolesInv, NEW s \in Handlers, CommitCreate(s)
  PROVE  RolesInv'
<1> DEFINE p == pending[s]
           r == p.role
<1>1. RolesTypeOK /\ p \in Pending /\ p.kind = "create"
  BY DEF RolesInv, RolesTypeOK, CommitCreate
<1>2. r \in Roles /\ p.grants \in SUBSET Permissions /\ s \in Editing
  <2>1. p.role \in Roles /\ p.grants \in Bundles
    BY <1>1, PendingShape
  <2> QED BY <1>1, <2>1 DEF Permissions, Editing
<1>3. CASE r \in known \/ p.parent \notin known \cup {NoRole}
  <2>1. Reject(s)
    BY <1>3 DEF CommitCreate
  <2> QED BY <2>1, RejectKeeps
<1>4. CASE ~(r \in known \/ p.parent \notin known \cup {NoRole})
  <2> HIDE DEF p, r
  <2>1. /\ known' = known \cup {r}
        /\ parent' = [parent EXCEPT ![r] = p.parent]
        /\ grants' = [grants EXCEPT ![r] = p.grants]
        /\ enabled' = [enabled EXCEPT ![r] = TRUE]
        /\ DoneEditing(s) /\ UNCHANGED userVars
    BY <1>4 DEF CommitCreate, p, r
  <2>2. /\ known' \subseteq Roles /\ System \subseteq known'
        /\ parent' \in [Roles -> known' \cup {NoRole}]
        /\ grants' \in [Roles -> SUBSET Permissions]
        /\ enabled' \in [Roles -> BOOLEAN]
        /\ role' \in [Users -> known' \cup {NoRole}]
    BY <1>1, <1>2, <1>4, <2>1 DEF RolesTypeOK, userVars
  <2> QED BY <1>2, <2>1, <2>2, EditKeeps DEF userVars
<1> QED BY <1>3, <1>4

LEMMA CommitUpdateKeeps ==
  ASSUME RolesInv, NEW s \in Handlers, CommitUpdate(s)
  PROVE  RolesInv'
<1> DEFINE p == pending[s]
           r == p.role
           c == p.change
           refused == \/ r \notin known
                      \/ c.field = "parent" /\ c.parent \notin known \cup {NoRole}
                      \/ c.field = "grants" /\ ~Fits(s)
<1>1. RolesTypeOK /\ p \in Pending /\ p.kind = "update"
  BY DEF RolesInv, RolesTypeOK, CommitUpdate
<1>2. r \in Roles /\ c \in Change /\ p.old \in SUBSET Permissions /\ s \in Editing
  BY <1>1, PendingShape DEF Editing
<1>3. CASE refused
  <2>1. Reject(s)
    BY <1>3 DEF CommitUpdate
  <2> QED BY <2>1, RejectKeeps
<1>4. CASE ~refused
  <2>1. c.field = "grants" => c.grants \in SUBSET Permissions
    BY <1>2, ChangeShape DEF Permissions
  <2>2. c.field = "enabled" => c.enabled \in BOOLEAN
    BY <1>2, ChangeShape
  <2> DEFINE given == (grants[r] \ (p.old \ c.grants)) \cup c.grants
  <2>3. /\ parent' = IF c.field = "parent" THEN [parent EXCEPT ![r] = c.parent] ELSE parent
        /\ enabled' = IF c.field = "enabled" THEN [enabled EXCEPT ![r] = c.enabled] ELSE enabled
        /\ grants' = IF c.field = "grants" THEN [grants EXCEPT ![r] = given] ELSE grants
        /\ DoneEditing(s) /\ UNCHANGED <<known, userVars>>
    BY <1>4 DEF CommitUpdate
  <2>4. c.field = "parent" => c.parent \in known \cup {NoRole}
    BY <1>4
  <2>5. c.field = "grants" => given \in SUBSET Permissions
    BY <1>1, <1>2, <2>1 DEF RolesTypeOK
  <2> HIDE DEF p, r, c, given, refused
  <2>6. /\ parent' \in [Roles -> known \cup {NoRole}]
        /\ enabled' \in [Roles -> BOOLEAN]
    BY <1>1, <2>2, <2>3, <2>4 DEF RolesTypeOK
  <2>7. grants' \in [Roles -> SUBSET Permissions]
    BY <1>1, <2>3, <2>5 DEF RolesTypeOK
  <2> QED BY <1>1, <1>2, <2>3, <2>6, <2>7, EditKeeps DEF RolesTypeOK, userVars
<1> QED BY <1>3, <1>4

LEMMA CommitDeleteKeeps ==
  ASSUME RolesInv, NEW s \in Handlers, CommitDelete(s)
  PROVE  RolesInv'
<1> DEFINE p == pending[s]
           r == p.role
           without(f) == [x \in DOMAIN f |-> IF f[x] = r THEN NoRole ELSE f[x]]
<1>1. RolesTypeOK /\ p \in Pending /\ p.kind = "delete"
  BY DEF RolesInv, RolesTypeOK, CommitDelete
<1>2. r \in Roles /\ s \in Editing /\ r \notin System
  BY <1>1, PendingShape DEF Editing, RolesInv, SeededStay
<1>3. CASE r \notin known
  <2>1. Reject(s)
    BY <1>3 DEF CommitDelete
  <2> QED BY <2>1, RejectKeeps
<1>4. CASE r \in known
  <2>1. /\ known' = known \ {r}
        /\ parent' = [without(parent) EXCEPT ![r] = NoRole]
        /\ grants' = [grants EXCEPT ![r] = {}]
        /\ enabled' = [enabled EXCEPT ![r] = FALSE]
        /\ role' = without(role)
        /\ DoneEditing(s) /\ UNCHANGED <<users, on>>
    BY <1>4 DEF CommitDelete
  <2> HIDE DEF p, r
  <2>2. /\ parent' \in [Roles -> known' \cup {NoRole}]
        /\ role' \in [Users -> known' \cup {NoRole}]
    BY <1>1, <1>2, <2>1 DEF RolesTypeOK
  <2>3. /\ grants' \in [Roles -> SUBSET Permissions]
        /\ enabled' \in [Roles -> BOOLEAN]
    BY <1>1, <1>2, <2>1 DEF RolesTypeOK
  <2>4. known' \subseteq Roles /\ System \subseteq known'
    BY <1>1, <1>2, <2>1 DEF RolesTypeOK
  <2> QED BY <1>2, <2>1, <2>2, <2>3, <2>4, EditKeeps
<1> QED BY <1>3, <1>4

LEMMA RolesInvStep == RolesInv /\ [RolesNext]_rightsVars => RolesInv'
<1> SUFFICES ASSUME RolesInv, [RolesNext]_rightsVars
             PROVE  RolesInv'
  OBVIOUS
<1>1. ASSUME NEW s \in Handlers, NEW u \in Users, AskRegister(s, u) \/ AskSso(s, u)
      PROVE  RolesInv'
  BY <1>1, AskOthersKeeps
<1>2. ASSUME NEW s \in Handlers, NEW actor \in users, NEW u \in Users, AskStatus(s, actor, u)
      PROVE  RolesInv'
  BY <1>2, AskOthersKeeps
<1>3. ASSUME NEW s \in Handlers, NEW actor \in users, NEW u \in Users, NEW r \in Roles,
             AskAssign(s, actor, u, r)
      PROVE  RolesInv'
  BY <1>3, AskAssignKeeps
<1>4. ASSUME NEW s \in Handlers, NEW actor \in users, NEW r \in Roles,
             AskCreate(s, actor, r) \/ AskUpdate(s, actor, r) \/ AskDelete(s, actor, r)
      PROVE  RolesInv'
  BY <1>4, AskOthersKeeps
<1>5. ASSUME NEW s \in Handlers, CommitPending(s)
      PROVE  RolesInv'
  BY <1>5, CommitOfUsersKeeps, CommitCreateKeeps, CommitUpdateKeeps, CommitDeleteKeeps
     DEF CommitPending
<1>6. CASE UNCHANGED rightsVars
  <2>1. UNCHANGED <<known, parent, grants, enabled, users, role, on, pending, edits>>
    BY <1>6 DEF rightsVars, roleVars, userVars
  <2>2. Walk' = Walk
    BY <2>1, WalkUnchanged DEF roleVars
  <2>3. \A r : Resolve(r)' = Resolve(r)
    BY <2>1, <2>2 DEF Resolve, Chain
  <2>4. Editing' = Editing
    BY <2>1 DEF Editing
  <2> QED BY <2>1, <2>3, <2>4 DEF RolesInv, RolesTypeOK, EditsFit, Limited, SeededStay
<1> QED BY <1>1, <1>2, <1>3, <1>4, <1>5, <1>6 DEF RolesNext

(* No reference to a role without a row, and never more edits than the      *)
(* bound: the types of every reachable state.                              *)
THEOREM RolesTyped == RolesSpec => []RolesTypeOK
<1>1. RolesInv => RolesTypeOK
  BY DEF RolesInv
<1> QED BY <1>1, RolesInvInit, RolesInvStep, PTL DEF RolesSpec

(* permission.py, resolve_role_permissions: what the walk collects is the  *)
(* role's own permissions and those of every active ancestor that no       *)
(* inactive role lies before, in every state the edits can reach, loops of *)
(* parents included.                                                       *)
THEOREM RolesResolveToTheirReach == RolesSpec => []ResolveIsReach
<1>1. RolesInv => ResolveIsReach
  BY ChainIsReach DEF RolesInv, RolesTypeOK, Rooted
<1> QED BY <1>1, RolesInvInit, RolesInvStep, PTL DEF RolesSpec

(* One step's worth of NothingBeyondOwn.                                   *)
WithinLimit ==
    \A s \in Handlers :
        pending[s].kind = "assign" /\ pending'[s] = NothingPending
        => Resolve(pending[s].role) \subseteq pending[s].limit

(* users.py:179-182: an assignment that commits hands out nothing its      *)
(* giver lacked when it was checked, unless a role was edited in between,  *)
(* for every depth of the chain and any requests beside it.                *)
THEOREM NobodyLendsMoreThanTheyHold == RolesSpec => NothingBeyondOwn
<1>1. RolesInv => WithinLimit
  BY DEF RolesInv, Limited, WithinLimit
<1>2. RolesSpec => [][WithinLimit]_rightsVars
  BY <1>1, RolesInvInit, RolesInvStep, PTL DEF RolesSpec
<1> QED BY <1>2 DEF NothingBeyondOwn, WithinLimit

--------------------------------------------------------------------------------
(* The lock of the first registration.                                     *)

(* The deployment whose lock matters: PostgreSQL, and nobody signs in for   *)
(* the first time through SSO.                                             *)
FirstSsoSignIn == \E s \in Handlers, u \in Users : AskSso(s, u)
PasswordSpec == RolesInit /\ [][RolesNext /\ ~FirstSsoSignIn]_rightsVars

Registering == {s \in Handlers : pending[s].kind = "register"}

(* Whoever is registering holds the lock, is alone, and has counted right.  *)
LockInv ==
    \A s \in Registering :
        /\ pending[s].locked
        /\ pending[s].first => users = {}
        /\ Registering = {s}

(* What keeps it: no new registration, and no new user.                    *)
LEMMA LockKept ==
  ASSUME LockInv, users' = users, Registering' \subseteq Registering,
         \A s \in Registering' : pending'[s] = pending[s]
  PROVE  LockInv'
BY DEF LockInv

LEMMA AskKeepsLock ==
  ASSUME RolesTypeOK, LockInv, NEW s \in Handlers, NEW request, Ask(s, request),
         request.kind # "register"
  PROVE  LockInv'
<1>1. pending' = [pending EXCEPT ![s] = request] /\ pending \in [Handlers -> Pending]
  BY DEF Ask, RolesTypeOK
<1>2. users' = users
  BY DEF Ask, userVars
<1>3. \A q \in Registering' : q \in Registering /\ pending'[q] = pending[q]
  BY <1>1 DEF Registering
<1> QED BY <1>2, <1>3, LockKept

(* A registration begins when nobody holds the lock.                       *)
LEMMA RegisterKeepsLock ==
  ASSUME RolesTypeOK, LockInv, Postgres, NEW s \in Handlers, NEW u \in Users,
         AskRegister(s, u)
  PROVE  LockInv'
<1>1. pending' = [pending EXCEPT ![s] = Registration(u, Postgres)]
      /\ pending \in [Handlers -> Pending]
  BY DEF AskRegister, Ask, RolesTypeOK
<1>2. users' = users
  BY DEF AskRegister, Ask, userVars
<1>3. Registering = {}
  BY DEF AskRegister, LockHeld, LockInv, Registering
<1>4. Registering' = {s}
  BY <1>1, <1>3 DEF Registering, Registration
<1>5. pending'[s].locked /\ pending'[s].first = (users = {})
  BY <1>1 DEF Registration
<1> QED BY <1>2, <1>4, <1>5 DEF LockInv

(* The one that commits is the only one, so that none is left.              *)
LEMMA CommitKeepsLock ==
  ASSUME RolesTypeOK, LockInv, NEW s \in Handlers, CommitPending(s)
  PROVE  LockInv'
<1>1. pending \in [Handlers -> Pending] /\ NothingPending.kind = "idle"
  BY DEF RolesTypeOK, NothingPending
<1>2. Done(s) \/ DoneEditing(s)
  BY DEF CommitPending, CommitRegister, CommitAssign, CommitStatus, CommitCreate,
         CommitUpdate, CommitDelete, Reject
<1>3. ASSUME NEW q \in Registering'
      PROVE  q \in Registering \ {s} /\ pending'[q] = pending[q]
  <2>1. CASE Done(s)
    BY <1>1, <2>1 DEF Done, Registering
  <2>2. CASE DoneEditing(s)
    <3>1. q \in Handlers /\ pending'[q].kind = "register"
      BY DEF Registering
    <3>2. q # s
      BY <1>1, <2>2, <3>1 DEF DoneEditing
    <3>3. pending[q].kind # "assign"
      <4>1. SUFFICES ASSUME pending[q].kind = "assign" PROVE FALSE
        OBVIOUS
      <4>2. pending'[q] = [pending[q] EXCEPT !.limit = Permissions]
        BY <2>2, <3>1, <3>2, <4>1 DEF DoneEditing
      <4>3. pending[q] \in Pending
        BY <1>1, <3>1
      <4> QED BY <3>1, <4>1, <4>2, <4>3, LimitLifted
    <3>4. pending'[q] = pending[q]
      BY <2>2, <3>1, <3>2, <3>3 DEF DoneEditing
    <3> QED BY <3>1, <3>2, <3>4 DEF Registering
  <2> QED BY <1>2, <2>1, <2>2
<1>4. CASE s \in Registering
  <2>1. Registering' = {}
    BY <1>3, <1>4 DEF LockInv
  <2> QED BY <2>1 DEF LockInv
<1>5. CASE s \notin Registering
  <2>1. users' = users
    BY <1>5 DEF CommitPending, CommitRegister, CommitAssign, CommitStatus, CommitCreate,
                CommitUpdate, CommitDelete, Reject, userVars, Registering
  <2> QED BY <1>3, <2>1, LockKept
<1> QED BY <1>4, <1>5

LEMMA LockInvStep ==
  ASSUME RolesTypeOK, LockInv, Postgres, [RolesNext /\ ~FirstSsoSignIn]_rightsVars
  PROVE  LockInv'
<1>1. ASSUME NEW s \in Handlers, NEW u \in Users, AskRegister(s, u)
      PROVE  LockInv'
  BY <1>1, RegisterKeepsLock
<1>2. ASSUME NEW s \in Handlers, NEW actor \in users, NEW u \in Users,
             \/ AskStatus(s, actor, u)
             \/ \E r \in Roles : AskAssign(s, actor, u, r)
      PROVE  LockInv'
  <2>1. CASE AskStatus(s, actor, u)
    <3>1. PICK request : /\ request = [kind |-> "status", user |-> u, to |-> ~on[u]]
                         /\ Ask(s, request)
      BY <2>1 DEF AskStatus
    <3> QED BY <3>1, AskKeepsLock
  <2>2. ASSUME NEW r \in Roles, AskAssign(s, actor, u, r)
        PROVE  LockInv'
    <3>1. PICK limit : Ask(s, [kind |-> "assign", user |-> u, role |-> r, limit |-> limit])
      BY <2>2 DEF AskAssign
    <3> QED BY <3>1, AskKeepsLock
  <2> QED BY <1>2, <2>1, <2>2
<1>3. ASSUME NEW s \in Handlers, NEW actor \in users, NEW r \in Roles,
             AskCreate(s, actor, r) \/ AskUpdate(s, actor, r) \/ AskDelete(s, actor, r)
      PROVE  LockInv'
  <2>1. CASE AskCreate(s, actor, r)
    <3>1. PICK p, g : Ask(s, [kind |-> "create", role |-> r, parent |-> p, grants |-> g])
      BY <2>1 DEF AskCreate
    <3> QED BY <3>1, AskKeepsLock
  <2>2. CASE AskUpdate(s, actor, r)
    <3>1. PICK c : Ask(s, [kind |-> "update", role |-> r, change |-> c, old |-> grants[r]])
      BY <2>2 DEF AskUpdate
    <3> QED BY <3>1, AskKeepsLock
  <2>3. CASE AskDelete(s, actor, r)
    <3>1. Ask(s, [kind |-> "delete", role |-> r])
      BY <2>3 DEF AskDelete
    <3> QED BY <3>1, AskKeepsLock
  <2> QED BY <1>3, <2>1, <2>2, <2>3
<1>4. ASSUME NEW s \in Handlers, CommitPending(s)
      PROVE  LockInv'
  BY <1>4, CommitKeepsLock
<1>5. CASE UNCHANGED rightsVars
  BY <1>5 DEF rightsVars, userVars, LockInv, Registering
<1> QED BY <1>1, <1>2, <1>3, <1>4, <1>5 DEF RolesNext, FirstSsoSignIn

(* One step's worth of OneFirstAdmin.                                      *)
FirstOfAll ==
    \A s \in Handlers :
        /\ pending[s].kind = "register" /\ pending[s].first
        /\ users' # users /\ pending'[s] = NothingPending
        => users = {}

(* auth.py:101-105: the lock does what the comment says where it is taken.  *)
(* On PostgreSQL, as long as nobody first signs in through SSO, at most one *)
(* registration of a fresh install makes an administrator: nobody comes in *)
(* as the first when there are users already.  Run FirstAdmin shows that   *)
(* without the lock (on SQLite) that is not so.                            *)
THEOREM LockMakesOneFirstAdmin == Postgres /\ PasswordSpec => OneFirstAdmin
<1> SUFFICES ASSUME Postgres
             PROVE  PasswordSpec => OneFirstAdmin
  OBVIOUS
<1>1. RolesInit => LockInv
  BY DEF RolesInit, LockInv, Registering, NothingPending
<1>2. [RolesNext /\ ~FirstSsoSignIn]_rightsVars => [RolesNext]_rightsVars
  OBVIOUS
<1>3. RolesInv /\ LockInv /\ [RolesNext /\ ~FirstSsoSignIn]_rightsVars => LockInv'
  BY LockInvStep DEF RolesInv
<1>4. LockInv => FirstOfAll
  BY DEF LockInv, Registering, FirstOfAll
<1>5. PasswordSpec => [][FirstOfAll]_rightsVars
  BY <1>1, <1>2, <1>3, <1>4, RolesInvInit, RolesInvStep, PTL DEF PasswordSpec
<1> QED BY <1>5 DEF OneFirstAdmin, FirstOfAll
--------------------------------------------------------------------------------
(* Sessions and rights side by side: each keeps its invariant, whichever   *)
(* one moves.                                                              *)
AccountsInv == TightInv /\ RolesInv

LEMMA AccountsInvInit == AccountsInit => AccountsInv
BY TightInvInit, RolesInvInit DEF AccountsInit, AccountsInv

LEMMA AccountsParts ==
  ASSUME [AccountsNext]_accountVars
  PROVE  [Next]_vars /\ [RolesNext]_rightsVars
BY DEF AccountsNext, accountVars

LEMMA AccountsInvNext == AccountsInv /\ [AccountsNext]_accountVars => AccountsInv'
BY AccountsParts, TightInvNext, RolesInvStep DEF AccountsInv

(* Tokens, requests, roles and users keep their types, and no reference    *)
(* leads to a role without a row.                                          *)
THEOREM AccountsTyped == AccountsSpec => []TypesOK
<1>1. AccountsInv => TypesOK
  BY DEF AccountsInv, TightInv, SessionsInv, Basics, RolesInv, TypesOK
<1> QED BY <1>1, AccountsInvInit, AccountsInvNext, PTL DEF AccountsSpec

(* Accounts are made of the two parts: what is proved of each is true of   *)
(* the two together.                                                       *)
THEOREM AccountsImplementParts == AccountsSpec => Spec /\ RolesSpec
<1>1. AccountsInit => Init /\ RolesInit
  BY DEF AccountsInit
<1>2. [AccountsNext]_accountVars => [Next]_vars /\ [RolesNext]_rightsVars
  BY AccountsParts
<1> QED BY <1>1, <1>2, PTL DEF AccountsSpec, Spec, RolesSpec
================================================================================
