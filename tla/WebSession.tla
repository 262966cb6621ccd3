------------------------------ MODULE WebSession ------------------------------
(***************************************************************************)
(* The session of one browser tab (apps/web/features/auth): the token pair *)
(* kept in sessionStorage, the user and access token kept in React state,  *)
(* the refresh timer, the asynchronous operations that write all of them,  *)
(* and the routes the guards let the tab show.                             *)
(*                                                                         *)
(* The browser runs one callback at a time, so a step is what runs between *)
(* two awaits.  An operation that waits for the server is a record of      *)
(* "jobs"; the token it carries is the one it read before it waited.  The  *)
(* server may answer any request or refuse it.                             *)
(***************************************************************************)
EXTENDS Naturals, FiniteSets

CONSTANTS
    Users,      \* the accounts people sign in with
    MaxTokens,  \* how many token pairs the server issues
    MaxJobs,    \* how many operations, the refreshes apart, wait for the server at once
    None        \* null

ASSUME NoneIsNobody == None \notin Users /\ None \notin [who : Users, must : BOOLEAN]
ASSUME Bounds == MaxTokens \in Nat /\ MaxJobs \in Nat
ASSUME NoneIsNoToken == None \notin 1..MaxTokens

VARIABLES
    owner,       \* owner[t]: the account of token pair t; its domain is what was issued
    life,        \* life[t]: how far expires_at is: "long", "short" or "over"
    mustChange,  \* the accounts whose password is still the initial one (server)
    page,        \* the route shown: "login", "change" or "dash"
    loading,     \* isLoading: the stored session is still being restored
    user,        \* the signed-in user the screen shows, as fetchMe answered
    access,      \* accessToken, the React state
    stored,      \* the token pair in sessionStorage
    timer,       \* the token pair whose refresh is scheduled
    perms,       \* whose permissions the dashboard loaded
    jobs,        \* the operations that wait for the server
    crossed,     \* history: a session ended or began under a pending writer or timer
    half         \* history: a sign-in or password change stored its tokens and then failed

tokenVars == <<owner, life>>
vars == <<owner, life, mustChange, page, loading, user, access, stored, timer,
          perms, jobs, crossed, half>>

Tokens == 1..MaxTokens
Issued == DOMAIN owner
Lives == {"long", "short", "over"}
Pages == {"login", "change", "dash"}
UserInfo == [who : Users, must : BOOLEAN]
Ops == {"init_refresh", "init_me", "login", "login_me", "refresh", "logout",
        "change", "change_me", "avatar", "perms"}
Job == [op : Ops, who : Users, tok : Tokens \cup {None}]

\* The operations whose answer writes the tokens or the user.
Writers == Ops \ {"logout", "perms"}
Pending(js, ops) == {j \in js : j.op \in ops}
Room == Cardinality(Pending(jobs, Ops \ {"refresh"})) < MaxJobs

\* The user record /me answers for token t.
Me(t) == [who |-> owner[t], must |-> owner[t] \in mustChange]

\* A pair is refreshed a minute before it expires; one closer than that gets
\* no timer, and the timer of the pair before it is gone in either case.
scheduleRefresh(t, l) == IF l = "long" THEN t ELSE None

\* Mutant: the dashboard forgets the accounts that must change their password.
AuthGuardUnchanged(u, ld) == IF ~ld /\ u = None THEN "login" ELSE "dash"

(***************************************************************************)
(* The guards run after every render: whatever the state became, the tab   *)
(* ends on the route they allow.                                           *)
(***************************************************************************)
AuthGuard(u, ld) ==
    CASE ld -> "dash"
      [] ~ld /\ u = None -> "login"
      [] ~ld /\ u # None -> IF u.must THEN "change" ELSE "dash"

ChangePageGuard(u, ld) ==
    CASE ld -> "change"
      [] ~ld /\ u = None -> "login"
      [] ~ld /\ u # None -> IF u.must THEN "change" ELSE "dash"

LoginPageGuard(u) ==
    CASE u = None -> "login"
      [] u # None -> IF u.must THEN "change" ELSE "dash"

Route(pg, u, ld) ==
    CASE pg = "dash" -> AuthGuard(u, ld)
      [] pg = "change" -> ChangePageGuard(u, ld)
      [] pg = "login" -> LoginPageGuard(u)

\* The dashboard's children are rendered: permissions load when they mount and
\* are dropped when they unmount.
Mounted(pg, u, ld) == pg = "dash" /\ ~ld /\ u # None /\ ~u.must

\* The step ends with state (u, ld, st) and the operations js waiting: redirect,
\* and mount or unmount the dashboard.
Render(pg, u, ld, st, js) ==
    LET to == Route(pg, u, ld)
        wasUp == Mounted(page, user, loading)
        up == Mounted(to, u, ld)
        kept == IF up THEN js ELSE js \ Pending(js, {"perms"})
        load == IF up /\ ~wasUp /\ st # None
                THEN {[op |-> "perms", who |-> owner[st], tok |-> st]} ELSE {}
    IN  /\ page' = to /\ user' = u /\ loading' = ld /\ stored' = st
        /\ jobs' = kept \cup load
        /\ perms' = IF up /\ wasUp THEN perms ELSE None

(***************************************************************************)
(* Tokens.  The server issues a pair for an account; time passes.          *)
(***************************************************************************)
Issue(u, l, t) ==
    /\ t = Cardinality(Issued) + 1 /\ t \in Tokens
    /\ owner' = [x \in Issued \cup {t} |-> IF x = t THEN u ELSE owner[x]]
    /\ life' = [x \in Issued \cup {t} |-> IF x = t THEN l ELSE life[x]]

Age(t) ==
    /\ life[t] # "over"
    /\ life' = [life EXCEPT ![t] = IF life[t] = "long" THEN "short" ELSE "over"]
    /\ UNCHANGED <<owner, mustChange, page, loading, user, access, stored, timer,
                   perms, jobs, crossed, half>>

(***************************************************************************)
(* Loading the page: React state is new, the stored pair survives.         *)
(***************************************************************************)
InitJobs(st) ==
    IF st = None THEN {}
    ELSE {[op |-> IF life[st] = "over" THEN "init_refresh" ELSE "init_me",
           who |-> owner[st], tok |-> st]}

Load(pg) ==
    /\ access' = None /\ timer' = None /\ user' = None /\ perms' = None
    /\ crossed' = FALSE /\ half' = FALSE
    /\ loading' = (stored # None)
    /\ jobs' = InitJobs(stored)
    /\ page' = Route(pg, None, stored # None)
    /\ UNCHANGED <<tokenVars, mustChange, stored>>

\* The person reloads the tab.
Reload == Load(page)

\* authFetch met a refused token, or an account that must change its password,
\* and leaves for the page that deals with it: a full navigation.
Unauthorized == page # "login" /\ ~loading /\ Load("login")
PasswordGate ==
    /\ page = "dash" /\ stored # None /\ owner[stored] \in mustChange
    /\ Load("change")

(***************************************************************************)
(* Restoring the stored session on mount.                                  *)
(***************************************************************************)
\* The stored pair had expired: it is exchanged, saved, and the user asked for.
RestoreRefreshed(j) ==
    /\ j.op = "init_refresh"
    /\ \E t \in Tokens, l \in {"long", "short"} :
        /\ Issue(j.who, l, t)
        /\ stored' = t
        /\ jobs' = (jobs \ {j}) \cup {[op |-> "init_me", who |-> j.who, tok |-> t]}
    /\ UNCHANGED <<mustChange, page, loading, user, access, timer, perms, crossed, half>>

Restored(j) ==
    /\ j.op = "init_me"
    /\ access' = j.tok
    /\ timer' = scheduleRefresh(j.tok, life[j.tok])
    /\ Render(page, Me(j.tok), FALSE, stored, jobs \ {j})
    /\ UNCHANGED <<tokenVars, mustChange, crossed, half>>

\* Mutant: a pair that cannot be restored stays in storage.
RestoreFailedKeepsTokens(j) ==
    /\ j.op \in {"init_refresh", "init_me"}
    /\ crossed' = (crossed \/ Pending(jobs \ {j}, Writers) # {} \/ user # None)
    /\ Render(page, user, FALSE, stored, jobs \ {j})
    /\ UNCHANGED <<tokenVars, mustChange, access, timer, half>>

RestoreFailed(j) ==
    /\ j.op \in {"init_refresh", "init_me"}
    /\ crossed' = (crossed \/ Pending(jobs \ {j}, Writers) # {} \/ user # None)
    /\ Render(page, user, FALSE, None, jobs \ {j})
    /\ UNCHANGED <<tokenVars, mustChange, access, timer, half>>

(***************************************************************************)
(* Signing in.                                                             *)
(***************************************************************************)
login(u) ==
    /\ page = "login" /\ Room
    /\ Pending(jobs, {"login", "login_me"}) = {}
    /\ crossed' = (crossed \/ Pending(jobs, Writers) # {})
    /\ jobs' = jobs \cup {[op |-> "login", who |-> u, tok |-> None]}
    /\ UNCHANGED <<tokenVars, mustChange, page, loading, user, access, stored, timer,
                   perms, half>>

LoginRefused(j) ==
    /\ j.op = "login"
    /\ jobs' = jobs \ {j}
    /\ UNCHANGED <<tokenVars, mustChange, page, loading, user, access, stored, timer,
                   perms, crossed, half>>

\* establishSession: the new pair is saved before the user is known ...
EstablishSaved(j) ==
    /\ j.op \in {"login", "change"}
    /\ \E t \in Tokens, l \in {"long", "short"} :
        /\ Issue(j.who, l, t)
        /\ stored' = t
        /\ jobs' = (jobs \ {j}) \cup
             {[op |-> IF j.op = "login" THEN "login_me" ELSE "change_me",
               who |-> j.who, tok |-> t]}
    /\ mustChange' = IF j.op = "change" THEN mustChange \ {j.who} ELSE mustChange
    /\ UNCHANGED <<page, loading, user, access, timer, perms, crossed, half>>

\* Mutant: a new session schedules no refresh.
EstablishedUnscheduled(j) ==
    /\ j.op \in {"login_me", "change_me"}
    /\ access' = j.tok
    /\ timer' = None
    /\ Render(page, Me(j.tok), loading, stored, jobs \ {j})
    /\ half' = FALSE
    /\ UNCHANGED <<tokenVars, mustChange, crossed>>

\* ... then the user, the access token and the timer are set together,
Established(j) ==
    /\ j.op \in {"login_me", "change_me"}
    /\ access' = j.tok
    /\ timer' = scheduleRefresh(j.tok, life[j.tok])
    /\ Render(page, Me(j.tok), loading, stored, jobs \ {j})
    /\ half' = FALSE
    /\ UNCHANGED <<tokenVars, mustChange, crossed>>

\* ... unless /me fails: the form shows the error, the pair stays in storage.
EstablishFailed(j) ==
    /\ j.op \in {"login_me", "change_me"}
    /\ jobs' = jobs \ {j}
    /\ half' = TRUE
    /\ UNCHANGED <<tokenVars, mustChange, page, loading, user, access, stored, timer,
                   perms, crossed>>

(***************************************************************************)
(* The timer: exchange the stored pair, whichever it is by now.            *)
(***************************************************************************)
RefreshDue ==
    /\ timer # None /\ life[timer] # "long"
    /\ timer' = None
    /\ jobs' = IF stored = None THEN jobs
               ELSE jobs \cup {[op |-> "refresh", who |-> owner[stored], tok |-> stored]}
    /\ UNCHANGED <<tokenVars, mustChange, page, loading, user, access, stored, perms,
                   crossed, half>>

\* Mutant: the refreshed pair is not scheduled again.
RefreshedOnce(j) ==
    /\ j.op = "refresh"
    /\ \E t \in Tokens, l \in {"long", "short"} :
        /\ Issue(j.who, l, t)
        /\ stored' = t /\ access' = t
        /\ timer' = None
    /\ jobs' = jobs \ {j}
    /\ UNCHANGED <<mustChange, page, loading, user, perms, crossed, half>>

Refreshed(j) ==
    /\ j.op = "refresh"
    /\ \E t \in Tokens, l \in {"long", "short"} :
        /\ Issue(j.who, l, t)
        /\ stored' = t /\ access' = t
        /\ timer' = scheduleRefresh(t, l)
    /\ jobs' = jobs \ {j}
    /\ UNCHANGED <<mustChange, page, loading, user, perms, crossed, half>>

\* Mutant: a failed refresh drops the tokens and leaves the user on the screen.
RefreshFailedKeepsUser(j) ==
    /\ j.op = "refresh"
    /\ access' = None
    /\ crossed' = (crossed \/ Pending(jobs \ {j}, Writers) # {} \/ timer # None)
    /\ half' = FALSE
    /\ Render(page, user, loading, None, jobs \ {j})
    /\ UNCHANGED <<tokenVars, mustChange, timer>>

RefreshFailed(j) ==
    /\ j.op = "refresh"
    /\ access' = None
    /\ crossed' = (crossed \/ Pending(jobs \ {j}, Writers) # {} \/ timer # None)
    /\ half' = FALSE
    /\ Render(page, None, loading, None, jobs \ {j})
    /\ UNCHANGED <<tokenVars, mustChange, timer>>

(***************************************************************************)
(* Signing out, from the sidebar or from the change-password page.         *)
(***************************************************************************)
SignedOut(js) ==
    /\ access' = None /\ timer' = None /\ half' = FALSE
    /\ crossed' = (crossed \/ Pending(js, Writers) # {})
    /\ Render(page, None, loading, None, js)
    /\ UNCHANGED <<tokenVars, mustChange>>

logout ==
    /\ user # None /\ page # "login" /\ Room
    /\ \/ stored = None /\ SignedOut(jobs)
       \/ /\ stored # None /\ Pending(jobs, {"logout"}) = {}
          /\ jobs' = jobs \cup {[op |-> "logout", who |-> user.who, tok |-> stored]}
          /\ UNCHANGED <<tokenVars, mustChange, page, loading, user, access, stored, timer,
                         perms, crossed, half>>

\* The server's answer to the sign-out does not matter.
LoggedOut(j) == j.op = "logout" /\ SignedOut(jobs \ {j})

(***************************************************************************)
(* The other writers of the user and the tokens.                           *)
(***************************************************************************)
changePassword ==
    /\ page = "change" /\ user # None /\ access # None /\ Room
    /\ Pending(jobs, {"change", "change_me"}) = {}
    /\ jobs' = jobs \cup {[op |-> "change", who |-> owner[access], tok |-> access]}
    /\ UNCHANGED <<tokenVars, mustChange, page, loading, user, access, stored, timer,
                   perms, crossed, half>>

setAvatar ==
    /\ Mounted(page, user, loading) /\ access # None /\ Room
    /\ Pending(jobs, {"avatar"}) = {}
    /\ jobs' = jobs \cup {[op |-> "avatar", who |-> owner[access], tok |-> access]}
    /\ UNCHANGED <<tokenVars, mustChange, page, loading, user, access, stored, timer,
                   perms, crossed, half>>

Refused(j) ==
    /\ j.op \in {"change", "avatar"}
    /\ jobs' = jobs \ {j}
    /\ UNCHANGED <<tokenVars, mustChange, page, loading, user, access, stored, timer,
                   perms, crossed, half>>

AvatarSet(j) ==
    /\ j.op = "avatar"
    /\ Render(page, Me(j.tok), loading, stored, jobs \ {j})
    /\ UNCHANGED <<tokenVars, mustChange, access, timer, crossed, half>>

\* GET /permissions/me; a failure denies nothing, which is nobody's list.
PermissionsLoaded(j) ==
    /\ j.op = "perms"
    /\ perms' \in {j.who, None}
    /\ jobs' = jobs \ {j}
    /\ UNCHANGED <<tokenVars, mustChange, page, loading, user, access, stored, timer,
                   crossed, half>>

(***************************************************************************)
(* The specification.                                                      *)
(***************************************************************************)
Init ==
    /\ owner = <<>> /\ life = <<>>
    /\ mustChange \in SUBSET Users
    /\ page = "login" /\ loading = FALSE
    /\ user = None /\ access = None /\ stored = None /\ timer = None /\ perms = None
    /\ jobs = {} /\ crossed = FALSE /\ half = FALSE

Answer(j) ==
    \/ RestoreRefreshed(j) \/ Restored(j) \/ RestoreFailed(j)
    \/ LoginRefused(j) \/ EstablishSaved(j) \/ Established(j) \/ EstablishFailed(j)
    \/ Refreshed(j) \/ RefreshFailed(j) \/ LoggedOut(j)
    \/ Refused(j) \/ AvatarSet(j) \/ PermissionsLoaded(j)

Next ==
    \/ \E t \in Issued : Age(t)
    \/ Reload \/ Unauthorized \/ PasswordGate
    \/ \E u \in Users : login(u)
    \/ RefreshDue \/ logout \/ changePassword \/ setAvatar
    \/ \E j \in jobs : Answer(j)

\* Time passes, the browser runs a due timer, and the server answers a
\* refresh or the connection fails; nobody has to sign in, sign out or reload.
Fairness ==
    /\ \A t \in Tokens : WF_vars(t \in Issued /\ Age(t))
    /\ WF_vars(RefreshDue)
    /\ WF_vars(\E j \in jobs : j.op = "refresh" /\ Answer(j))

Spec == Init /\ [][Next]_vars /\ Fairness

(***************************************************************************)
(* Properties.                                                             *)
(***************************************************************************)
TypeOK ==
    /\ Issued = 1..Cardinality(Issued) /\ Issued \subseteq Tokens
    /\ owner \in [Issued -> Users] /\ life \in [Issued -> Lives]
    /\ mustChange \subseteq Users
    /\ page \in Pages /\ loading \in BOOLEAN
    /\ user \in UserInfo \cup {None}
    /\ {access, stored, timer} \subseteq Issued \cup {None}
    /\ perms \in Users \cup {None}
    /\ jobs \subseteq Job
    /\ \A j \in jobs : j.tok \in Issued \cup {None}
    /\ crossed \in BOOLEAN /\ half \in BOOLEAN

\* Requests are signed with the stored pair, the screen shows the user of React
\* state: they are the same account, in every interleaving of refresh, restore,
\* sign-in and sign-out that does not end or begin a session under a pending writer.
OneIdentity ==
    ~crossed =>
        /\ user # None => stored # None /\ access # None
                          /\ owner[stored] = user.who /\ owner[access] = user.who
        /\ perms # None => user # None /\ perms = user.who

\* Once nothing is pending, a tab that shows nobody keeps no token pair: only a
\* sign-in that failed half way, or a crossed session, leaves one behind.
SignedOutIsSignedOut ==
    ~crossed /\ ~half /\ jobs = {} /\ ~loading /\ user = None => stored = None

\* The dashboard never shows to an account that the server, when last asked,
\* said must change its password; nor to nobody.
DashboardIsGuarded ==
    page = "dash" /\ ~loading => user # None /\ ~user.must

\* A signed-in tab whose access token has more than a minute left has its refresh
\* scheduled or under way.
KeptAlive ==
    ~crossed /\ user # None /\ access # None /\ life[access] = "long"
        => timer # None \/ Pending(jobs, {"refresh"}) # {}

\* A signed-in tab does not sit on a token until it expires: the token is
\* replaced, or the tab is signed out.
TokenIsRenewed ==
    \A t \in Tokens :
        (~crossed /\ user # None /\ access = t /\ life[t] = "long")
            ~> (crossed \/ user = None \/ access # t)
=============================================================================
