------------------------------- MODULE UserAdmin -------------------------------
(***************************************************************************)
(* User administration (usermgr/service.py) with local authentication      *)
(* (auth/router.py, core/auth.py).  An administrator may delete, demote    *)
(* and deactivate users; each of these first asks _is_last_admin, and then *)
(* changes the row and commits.  A request is let in by the role claim of  *)
(* its token, which says what the role was at the login or the refresh     *)
(* that issued it; a new token does not end the old ones.                  *)
(***************************************************************************)
EXTENDS Integers, FiniteSets

CONSTANTS
    Users,     \* user ids
    Admin,     \* the administrator the installation begins with
    Handlers   \* concurrent requests to the protected operations

ASSUME AdminAssumption == Admin \in Users /\ IsFiniteSet(Users)

VARIABLES
    role,     \* ArgusUser.role_id; "none" before the row is, "gone" after it
    active,   \* ArgusUser.status = 'active'
    claims,   \* the role claims of each user's valid access tokens
    request,  \* what each handler has checked and is about to do
    raced     \* history: two such requests that unmake administrators overlapped

accounts == <<role, active>>
vars == <<accounts, claims, request, raced>>
-----------------------------------------------------------------------------
Operations == {"delete", "demote", "deactivate"}
Unmaking == {"delete", "demote"}
IdleRequest == [op |-> "none", user |-> Admin]
Roles == {"user", "admin"}

TypeOK ==
    /\ role \in [Users -> Roles \cup {"none", "gone"}]
    /\ active \in [Users -> BOOLEAN]
    /\ claims \in [Users -> SUBSET Roles]
    /\ request \in [Handlers -> [op : Operations \cup {"none"}, user : Users]]
    /\ raced \in BOOLEAN

Init ==
    /\ role = [u \in Users |-> IF u = Admin THEN "admin" ELSE "none"]
    /\ active = [u \in Users |-> u = Admin]
    /\ claims = [u \in Users |-> {}]
    /\ request = [h \in Handlers |-> IdleRequest]
    /\ raced = FALSE

Existing == {u \in Users : role[u] \in Roles}
Admins == {u \in Users : role[u] = "admin"}
AdminAsks == \E w \in Users : "admin" \in claims[w]

\* Mutant: off by one in the count of the administrators.
IsLastAdminOffByOne(u) == Cardinality(Admins) < 1 /\ u \in Admins
\* _is_last_admin: whether an administrator is active is not asked.
IsLastAdmin(u) == Cardinality(Admins) <= 1 /\ u \in Admins
-----------------------------------------------------------------------------
(* The protected operations, in two steps. *)

\* The last administrator is refused with 400, an unknown user with 404.  What the
\* row says already is not written again.
Check(h, op, u) ==
    /\ request[h].op = "none"
    /\ AdminAsks
    /\ u \in Existing
    /\ ~IsLastAdmin(u)
    /\ op = "demote" => role[u] = "admin"
    /\ op = "deactivate" => active[u]
    /\ request' = [request EXCEPT ![h] = [op |-> op, user |-> u]]
    /\ raced' = (raced \/ (op \in Unmaking /\ \E g \in Handlers : request[g].op \in Unmaking))
    /\ UNCHANGED <<accounts, claims>>

\* Mutant: a failed commit is taken for done, the row written anew.
ApplyUpsert(h) ==
    LET u == request[h].user IN
    /\ request[h].op # "none"
    /\ role' = [role EXCEPT ![u] = IF request[h].op = "delete" THEN "gone" ELSE "user"]
    /\ active' = [active EXCEPT ![u] = request[h].op = "demote"]
    /\ request' = [request EXCEPT ![h] = IdleRequest]
    /\ UNCHANGED <<claims, raced>>

\* The row is changed and committed; a row another request has deleted by now
\* makes the commit fail.
Apply(h) ==
    LET u == request[h].user
        Is(op) == request[h].op = op
    IN
    /\ ~Is("none")
    /\ role' = [role EXCEPT ![u] = IF @ = "gone" \/ Is("delete") THEN "gone"
                                   ELSE IF Is("demote") THEN "user" ELSE @]
    /\ active' = [active EXCEPT ![u] = @ /\ Is("demote")]
    /\ request' = [request EXCEPT ![h] = IdleRequest]
    /\ UNCHANGED <<claims, raced>>
-----------------------------------------------------------------------------
(* The other operations of an administrator. *)

AddUser(u, r) ==
    /\ AdminAsks
    /\ role[u] = "none"
    /\ role' = [role EXCEPT ![u] = r]
    /\ active' = [active EXCEPT ![u] = TRUE]
    /\ UNCHANGED <<claims, request, raced>>

Promote(u) ==
    /\ AdminAsks
    /\ role[u] = "user"
    /\ role' = [role EXCEPT ![u] = "admin"]
    /\ UNCHANGED <<active, claims, request, raced>>

Activate(u) ==
    /\ AdminAsks
    /\ u \in Existing
    /\ active' = [active EXCEPT ![u] = TRUE]
    /\ UNCHANGED <<role, claims, request, raced>>
-----------------------------------------------------------------------------
(* The users' sessions. *)

\* A token with the claim the row makes.
Issue(u) == claims' = [claims EXCEPT ![u] = @ \cup {role[u]}]

Login(u) ==
    /\ u \in Existing /\ active[u]
    /\ Issue(u)
    /\ UNCHANGED <<accounts, request, raced>>

\* _refresh_local reads role and status anew; else 401.  A refresh token outlives
\* the access tokens: what it does without one, Login does as well.
Refresh(u) ==
    /\ claims[u] # {}
    /\ u \in Existing /\ active[u]
    /\ Issue(u)
    /\ UNCHANGED <<accounts, request, raced>>

\* An access token expires.
Expire(u, r) ==
    /\ claims' = [claims EXCEPT ![u] = @ \ {r}]
    /\ UNCHANGED <<accounts, request, raced>>

Next ==
    \/ \E h \in Handlers :
          \/ \E op \in Operations, u \in Users : Check(h, op, u)
          \/ Apply(h)
    \/ \E u \in Users :
          \/ \E r \in Roles : AddUser(u, r)
          \/ Promote(u) \/ Activate(u)
          \/ Login(u) \/ Refresh(u)
          \/ \E r \in Roles : Expire(u, r)

Spec == Init /\ [][Next]_vars
-----------------------------------------------------------------------------
\* usermgr/service.py:43, the rule keeps the system from having no administrator:
\* whatever else happens between the check of a request and its commit.
AdminRemains == Admins # {}

\* The rule keeps its word as long as no two requests that delete or demote overlap
\* between their check and their commit, whatever logins, promotions, activations
\* and deactivations happen beside them.
AdminRemainsUnlessRaced == raced \/ Admins # {}

\* A deleted user does not come back: no commit of a request that was checked
\* before the deletion, and no refresh of a token, brings the account back.
DeletedStaysGone ==
    [][\A u \in Users : role[u] = "gone" =>
          role'[u] = "gone" /\ ~active'[u] /\ claims'[u] \subseteq claims[u]]_vars
================================================================================
