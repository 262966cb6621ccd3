--------------------------- MODULE WebSessionProofs ---------------------------
(* Theorems about WebSession, for any accounts and any number of tokens. *)
EXTENDS WebSession, FiniteSetTheorems, TLAPS

(***************************************************************************)
(* The inductive invariant: besides its types, that every operation but    *)
(* signing in and out carries a pair of its account; that the login page   *)
(* shows nobody and permissions belong to a dashboard that is up; and,     *)
(* unless sessions crossed, that a tab is in one of two phases.            *)
(***************************************************************************)
JobsOwnTheirTokens ==
    \A j \in jobs : j.op \notin {"login", "logout"} => j.tok \in Issued /\ owner[j.tok] = j.who
LoginShowsNobody == page = "login" => user = None
PermsNeedDashboard ==
    perms # None \/ Pending(jobs, {"perms"}) # {} => Mounted(page, user, loading)

\* Nobody: one operation at most is on its way to show somebody, and the stored
\* pair is the one it brought.
Nobody ==
    /\ access = None /\ timer = None
    /\ \A i, j \in Pending(jobs, Writers) : i = j
    /\ \A j \in Pending(jobs, Writers) :
         /\ j.op \in {"init_refresh", "init_me", "login", "login_me"}
         /\ j.op # "login" => stored = j.tok

\* Somebody: every pair and every pending operation is that account's.
Somebody(u) ==
    /\ stored # None /\ owner[stored] = u
    /\ access # None /\ owner[access] = u
    /\ \A j \in Pending(jobs, Writers) :
         j.op \in {"refresh", "change", "change_me", "avatar"} /\ j.who = u
    /\ perms # None => perms = u
    /\ \A j \in Pending(jobs, {"perms"}) : j.who = u

OnePhase == IF user = None THEN Nobody ELSE Somebody(user.who)

\* What the guards leave on the screen.
Screens == LoginShowsNobody /\ PermsNeedDashboard /\ DashboardIsGuarded

Sound == TypeOK /\ JobsOwnTheirTokens /\ Screens
Inv == Sound /\ (crossed \/ OnePhase)

(***************************************************************************)
(* Pairs are numbered as they are issued.                                  *)
(***************************************************************************)
\* A new pair is the account's it was issued for, and the others' stay as they are.
LEMMA Issuing ==
  ASSUME TypeOK, NEW u \in Users, NEW l \in {"long", "short"}, NEW t \in Tokens, Issue(u, l, t)
  PROVE  /\ t \notin Issued /\ Issued' = Issued \cup {t}
         /\ Issued' = 1..Cardinality(Issued') /\ Issued' \subseteq Tokens
         /\ owner' \in [Issued' -> Users] /\ life' \in [Issued' -> Lives]
         /\ owner'[t] = u /\ \A x \in Issued : owner'[x] = owner[x]
<1> DEFINE n == Cardinality(Issued)
<1>1. IsFiniteSet(Issued) /\ n \in Nat
  <2>1. IsFiniteSet(1..MaxTokens)
    BY Bounds, FS_Interval
  <2>2. IsFiniteSet(Issued)
    BY <2>1, FS_Subset DEF TypeOK, Tokens
  <2> QED
    BY <2>2, FS_CardinalityType
<1>2. Issued = 1..n /\ t = n + 1
  BY DEF TypeOK, Issue
<1>3. Issued' = Issued \cup {t}
  BY DEF Issue, Issued
<1>4. Issued' = 1..(n + 1)
  BY <1>1, <1>2, <1>3
<1>5. Cardinality(1..(n + 1)) = n + 1
  BY <1>1, FS_Interval
<1>6. t \notin Issued
  BY <1>1, <1>2
<1>7. /\ owner' \in [Issued' -> Users] /\ life' \in [Issued' -> Lives]
      /\ owner'[t] = u /\ \A x \in Issued : owner'[x] = owner[x]
  BY <1>3, <1>6 DEF TypeOK, Issue, Lives
<1>8. Issued' = 1..Cardinality(Issued')
  BY <1>4, <1>5
<1>9. Issued' \subseteq Tokens
  BY <1>3 DEF TypeOK
<1> QED
  BY <1>3, <1>6, <1>7, <1>8, <1>9

(***************************************************************************)
(* Rendering.                                                              *)
(***************************************************************************)
\* Whatever is to be shown, the guards end on a page that may show it, and the
\* operations waiting are those of before, but for the permissions'.
LEMMA Rendering ==
  ASSUME TypeOK, NEW u \in UserInfo \cup {None}, NEW ld \in BOOLEAN, NEW st \in Issued \cup {None},
         NEW js, js \subseteq jobs, Render(page, u, ld, st, js)
  PROVE  /\ page' \in Pages /\ user' = u /\ loading' = ld /\ stored' = st
         /\ jobs' \subseteq Job /\ \A j \in jobs' : j.tok \in Issued \cup {None}
         /\ perms' \in {perms, None}
         /\ Pending(jobs', Writers) = Pending(js, Writers)
         /\ \A j \in jobs' : j \in js \/ (j.op = "perms" /\ st # None /\ j.tok = st /\ j.who = owner[st])
         /\ page' = "login" => u = None
         /\ page' = "dash" /\ ~ld => u # None /\ ~u.must
         /\ perms' # None \/ Pending(jobs', {"perms"}) # {} => Mounted(page', u, ld)
<1> DEFINE to == Route(page, u, ld)
           up == Mounted(to, u, ld)
           kept == IF up THEN js ELSE js \ Pending(js, {"perms"})
           load == IF up /\ ~Mounted(page, user, loading) /\ st # None
                   THEN {[op |-> "perms", who |-> owner[st], tok |-> st]} ELSE {}
<1>1. /\ page' = to /\ user' = u /\ loading' = ld /\ stored' = st
      /\ jobs' = kept \cup load
      /\ perms' = IF up /\ Mounted(page, user, loading) THEN perms ELSE None
  BY DEF Render
<1>2. to \in Pages /\ (to = "login" => u = None) /\ (to = "dash" /\ ~ld => u # None /\ ~u.must)
  BY DEF TypeOK, Pages, UserInfo, Route, AuthGuard, ChangePageGuard, LoginPageGuard
<1>3. jobs' \subseteq Job /\ \A j \in jobs' : j.tok \in Issued \cup {None}
  <2>1. st # None => owner[st] \in Users /\ st \in Tokens
    BY DEF TypeOK
  <2>2. load \subseteq Job /\ \A j \in load : j.tok \in Issued \cup {None}
    BY <2>1 DEF Job, Ops
  <2>3. kept \subseteq js
    BY DEF Pending
  <2> QED
    BY <1>1, <2>2, <2>3 DEF TypeOK
<1>4. Pending(jobs', Writers) = Pending(js, Writers)
  BY <1>1 DEF Pending, Writers, Ops
<1>5. \A j \in jobs' : j \in js \/ (j.op = "perms" /\ st # None /\ j.tok = st /\ j.who = owner[st])
  BY <1>1 DEF Pending
<1>6. perms' # None \/ Pending(jobs', {"perms"}) # {} => up
  BY <1>1 DEF Pending
<1> QED
  BY <1>1, <1>2, <1>3, <1>4, <1>5, <1>6

(***************************************************************************)
(* Types.                                                                  *)
(***************************************************************************)
\* The accounts of a pair are accounts: /me answers with a user.
LEMMA MeIsUser == ASSUME TypeOK, NEW t \in Issued PROVE Me(t) \in UserInfo
  BY DEF TypeOK, Me, UserInfo

\* A step that renders keeps the state sound if what it sets is well typed.
LEMMA SoundRendered ==
  ASSUME Sound, NEW u \in UserInfo \cup {None}, NEW ld \in BOOLEAN, NEW st \in Issued \cup {None},
         NEW js, js \subseteq jobs, Render(page, u, ld, st, js),
         UNCHANGED tokenVars, UNCHANGED mustChange,
         access' \in Issued \cup {None}, timer' \in Issued \cup {None},
         crossed' \in BOOLEAN, half' \in BOOLEAN
  PROVE  Sound'
<1>1. /\ page' \in Pages /\ user' = u /\ loading' = ld /\ stored' = st
      /\ jobs' \subseteq Job /\ \A j \in jobs' : j.tok \in Issued \cup {None}
      /\ perms' \in {perms, None}
      /\ \A j \in jobs' : j \in js \/ (j.op = "perms" /\ st # None /\ j.tok = st /\ j.who = owner[st])
      /\ page' = "login" => u = None
      /\ page' = "dash" /\ ~ld => u # None /\ ~u.must
      /\ perms' # None \/ Pending(jobs', {"perms"}) # {} => Mounted(page', u, ld)
  BY Rendering DEF Sound, Render
<1>2. TypeOK'
  BY <1>1 DEF Sound, TypeOK, tokenVars, Issued
<1>3. JobsOwnTheirTokens'
  BY <1>1 DEF Sound, JobsOwnTheirTokens, tokenVars, Issued
<1>4. Screens'
  BY <1>1 DEF Screens, LoginShowsNobody, PermsNeedDashboard, DashboardIsGuarded
<1> QED
  BY <1>2, <1>3, <1>4 DEF Sound

\* Between renderings no step touches the screen, or adds to the permissions.
LEMMA ScreensKept ==
  ASSUME Screens, UNCHANGED <<page, loading, user>>,
         perms' = perms \/ Pending(jobs, {"perms"}) # {},
         Pending(jobs', {"perms"}) \subseteq Pending(jobs, {"perms"})
  PROVE  Screens'
BY DEF Screens, LoginShowsNobody, PermsNeedDashboard, DashboardIsGuarded, Mounted

\* Every step of the tab keeps it sound.
LEMMA SoundNext == Sound /\ [Next]_vars => Sound'
<1> SUFFICES ASSUME Sound, [Next]_vars PROVE Sound'
  OBVIOUS
<1>1. CASE UNCHANGED vars
  <2>1. TypeOK'
    BY <1>1 DEF Sound, TypeOK, vars, tokenVars, Issued
  <2>2. JobsOwnTheirTokens' /\ Screens'
    BY <1>1 DEF Sound, JobsOwnTheirTokens, Screens, LoginShowsNobody, PermsNeedDashboard,
      DashboardIsGuarded, vars, tokenVars, Issued
  <2> QED
    BY <2>1, <2>2 DEF Sound
<1>2. ASSUME NEW t \in Issued, Age(t) PROVE Sound'
  <2>1. TypeOK' /\ JobsOwnTheirTokens'
    BY <1>2 DEF Age, Sound, TypeOK, JobsOwnTheirTokens, Issued, Lives
  <2> QED
    BY <1>2, <2>1, ScreensKept DEF Age, Sound
<1>3. ASSUME NEW pg \in Pages, Load(pg) PROVE Sound'
  <2>1. /\ InitJobs(stored) \subseteq Job
        /\ \A j \in InitJobs(stored) : j.tok \in Issued /\ j.who = owner[j.tok] /\ j.op # "perms"
    BY DEF Sound, TypeOK, InitJobs, Job, Ops
  <2>2. /\ Route(pg, None, stored # None) \in Pages
        /\ Route(pg, None, stored # None) = "dash" => stored # None
    BY DEF Pages, Route, AuthGuard, ChangePageGuard, LoginPageGuard
  <2>3. TypeOK' /\ JobsOwnTheirTokens'
    BY <1>3, <2>1, <2>2 DEF Load, tokenVars, Sound, TypeOK, JobsOwnTheirTokens, Issued
  <2>4. Screens'
    BY <1>3, <2>1, <2>2
    DEF Load, Screens, LoginShowsNobody, PermsNeedDashboard, DashboardIsGuarded, Pending
  <2> QED
    BY <2>3, <2>4 DEF Sound
<1>4. ASSUME NEW u \in Users, login(u) PROVE Sound'
  <2>1. TypeOK' /\ JobsOwnTheirTokens'
    BY <1>4 DEF login, tokenVars, Sound, TypeOK, JobsOwnTheirTokens, Issued, Job, Ops
  <2>2. Pending(jobs', {"perms"}) \subseteq Pending(jobs, {"perms"})
    BY <1>4 DEF login, Pending
  <2> QED
    BY <1>4, <2>1, <2>2, ScreensKept DEF login, Sound
<1>5. CASE RefreshDue
  <2>1. TypeOK' /\ JobsOwnTheirTokens'
    BY <1>5 DEF RefreshDue, tokenVars, Sound, TypeOK, JobsOwnTheirTokens, Issued, Job, Ops
  <2>2. Pending(jobs', {"perms"}) \subseteq Pending(jobs, {"perms"})
    BY <1>5 DEF RefreshDue, Pending
  <2> QED
    BY <1>5, <2>1, <2>2, ScreensKept DEF RefreshDue, Sound
<1>6. ASSUME NEW js, js \subseteq jobs, SignedOut(js) PROVE Sound'
  <2>1. Render(page, None, loading, None, js)
    BY <1>6 DEF SignedOut
  <2>2. /\ UNCHANGED tokenVars /\ UNCHANGED mustChange
        /\ access' \in Issued \cup {None} /\ timer' \in Issued \cup {None}
        /\ crossed' \in BOOLEAN /\ half' \in BOOLEAN /\ loading \in BOOLEAN
    BY <1>6 DEF SignedOut, Sound, TypeOK
  <2> QED
    BY <1>6, <2>1, <2>2, SoundRendered DEF Render
<1>7. CASE logout
  <2>1. CASE stored = None
    BY <1>6, <1>7, <2>1 DEF logout
  <2>2. CASE stored # None
    <3>1. TypeOK' /\ JobsOwnTheirTokens'
      BY <1>7, <2>2 DEF logout, tokenVars, Sound, TypeOK, JobsOwnTheirTokens, Issued, Job, Ops, UserInfo
    <3>2. Pending(jobs', {"perms"}) \subseteq Pending(jobs, {"perms"})
      BY <1>7, <2>2 DEF logout, Pending
    <3> QED
      BY <1>7, <2>2, <3>1, <3>2, ScreensKept DEF logout, Sound
  <2> QED
    BY <2>1, <2>2
<1>8. CASE changePassword \/ setAvatar
  <2>1. TypeOK' /\ JobsOwnTheirTokens'
    BY <1>8 DEF changePassword, setAvatar, tokenVars, Sound, TypeOK, JobsOwnTheirTokens, Issued, Job, Ops
  <2>2. Pending(jobs', {"perms"}) \subseteq Pending(jobs, {"perms"})
    BY <1>8 DEF changePassword, setAvatar, Pending
  <2> QED
    BY <1>8, <2>1, <2>2, ScreensKept DEF changePassword, setAvatar, Sound
<1>9. ASSUME NEW j \in jobs, Answer(j) PROVE Sound'
  <2> DEFINE rest == jobs \ {j}
  <2>1. rest \subseteq jobs /\ j \in Job /\ j.who \in Users /\ j.tok \in Issued \cup {None}
    BY DEF Sound, TypeOK, Job
  <2>2. ASSUME NEW t \in Tokens, NEW l \in {"long", "short"}, Issue(j.who, l, t)
        PROVE  /\ Issued' = Issued \cup {t}
               /\ Issued' = 1..Cardinality(Issued') /\ Issued' \subseteq Tokens
               /\ owner' \in [Issued' -> Users] /\ life' \in [Issued' -> Lives]
               /\ owner'[t] = j.who /\ \A x \in Issued : owner'[x] = owner[x]
    BY <2>1, <2>2, Issuing DEF Sound
  <2>3. CASE RestoreRefreshed(j)
    <3>1. TypeOK'
      BY <2>1, <2>2, <2>3 DEF RestoreRefreshed, Sound, TypeOK, Job, Ops
    <3>2. JobsOwnTheirTokens'
      BY <2>1, <2>2, <2>3 DEF RestoreRefreshed, Sound, JobsOwnTheirTokens
    <3>3. Pending(jobs', {"perms"}) \subseteq Pending(jobs, {"perms"})
      BY <2>3 DEF RestoreRefreshed, Pending
    <3> QED
      BY <2>3, <3>1, <3>2, <3>3, ScreensKept DEF RestoreRefreshed, Sound
  <2>4. CASE Restored(j)
    <3>1. j.tok \in Issued /\ Me(j.tok) \in UserInfo
      BY <2>1, <2>4, MeIsUser DEF Restored, Sound, JobsOwnTheirTokens
    <3>2. Render(page, Me(j.tok), FALSE, stored, rest)
      BY <2>4 DEF Restored
    <3>3. /\ UNCHANGED tokenVars /\ UNCHANGED mustChange
          /\ access' \in Issued \cup {None} /\ timer' \in Issued \cup {None}
          /\ crossed' \in BOOLEAN /\ half' \in BOOLEAN
          /\ stored \in Issued \cup {None}
      BY <2>4, <3>1 DEF Restored, scheduleRefresh, Sound, TypeOK
    <3> HIDE DEF rest
    <3> QED
      BY <2>1, <3>1, <3>2, <3>3, SoundRendered DEF Render
  <2>5. CASE RestoreFailed(j)
    <3>1. Render(page, user, FALSE, None, rest)
      BY <2>5 DEF RestoreFailed
    <3>2. /\ UNCHANGED tokenVars /\ UNCHANGED mustChange
          /\ access' \in Issued \cup {None} /\ timer' \in Issued \cup {None}
          /\ crossed' \in BOOLEAN /\ half' \in BOOLEAN
          /\ user \in UserInfo \cup {None}
      BY <2>5 DEF RestoreFailed, Sound, TypeOK
    <3> HIDE DEF rest
    <3> QED
      BY <2>1, <3>1, <3>2, SoundRendered DEF Render
  <2>6. CASE LoginRefused(j) \/ EstablishFailed(j) \/ Refused(j)
    <3>1. TypeOK' /\ JobsOwnTheirTokens'
      BY <2>6 DEF LoginRefused, EstablishFailed, Refused, tokenVars, Sound, TypeOK, JobsOwnTheirTokens, Issued
    <3>2. Pending(jobs', {"perms"}) \subseteq Pending(jobs, {"perms"})
      BY <2>6 DEF LoginRefused, EstablishFailed, Refused, Pending
    <3> QED
      BY <2>6, <3>1, <3>2, ScreensKept DEF LoginRefused, EstablishFailed, Refused, Sound
  <2>7. CASE EstablishSaved(j)
    <3>1. TypeOK'
      BY <2>1, <2>2, <2>7 DEF EstablishSaved, Sound, TypeOK, Job, Ops
    <3>2. JobsOwnTheirTokens'
      BY <2>1, <2>2, <2>7 DEF EstablishSaved, Sound, JobsOwnTheirTokens
    <3>3. Pending(jobs', {"perms"}) \subseteq Pending(jobs, {"perms"})
      BY <2>7 DEF EstablishSaved, Pending
    <3> QED
      BY <2>7, <3>1, <3>2, <3>3, ScreensKept DEF EstablishSaved, Sound
  <2>8. CASE Established(j)
    <3>1. j.tok \in Issued /\ Me(j.tok) \in UserInfo
      BY <2>1, <2>8, MeIsUser DEF Established, Sound, JobsOwnTheirTokens
    <3>2. Render(page, Me(j.tok), loading, stored, rest)
      BY <2>8 DEF Established
    <3>3. /\ UNCHANGED tokenVars /\ UNCHANGED mustChange
          /\ access' \in Issued \cup {None} /\ timer' \in Issued \cup {None}
          /\ crossed' \in BOOLEAN /\ half' \in BOOLEAN
          /\ stored \in Issued \cup {None}
          /\ loading \in BOOLEAN
      BY <2>8, <3>1 DEF Established, scheduleRefresh, Sound, TypeOK
    <3> HIDE DEF rest
    <3> QED
      BY <2>1, <3>1, <3>2, <3>3, SoundRendered DEF Render
  <2>9. CASE Refreshed(j)
    <3>1. TypeOK'
      BY <2>1, <2>2, <2>9 DEF Refreshed, scheduleRefresh, Sound, TypeOK, Job, Ops
    <3>2. JobsOwnTheirTokens'
      BY <2>1, <2>2, <2>9 DEF Refreshed, Sound, JobsOwnTheirTokens
    <3>3. Pending(jobs', {"perms"}) \subseteq Pending(jobs, {"perms"})
      BY <2>9 DEF Refreshed, Pending
    <3> QED
      BY <2>9, <3>1, <3>2, <3>3, ScreensKept DEF Refreshed, Sound
  <2>10. CASE RefreshFailed(j)
    <3>1. Render(page, None, loading, None, rest)
      BY <2>10 DEF RefreshFailed
    <3>2. /\ UNCHANGED tokenVars /\ UNCHANGED mustChange
          /\ access' \in Issued \cup {None} /\ timer' \in Issued \cup {None}
          /\ crossed' \in BOOLEAN /\ half' \in BOOLEAN
          /\ loading \in BOOLEAN
      BY <2>10 DEF RefreshFailed, Sound, TypeOK
    <3> HIDE DEF rest
    <3> QED
      BY <2>1, <3>1, <3>2, SoundRendered DEF Render
  <2>11. CASE LoggedOut(j)
    BY <1>6, <2>1, <2>11 DEF LoggedOut
  <2>12. CASE AvatarSet(j)
    <3>1. j.tok \in Issued /\ Me(j.tok) \in UserInfo
      BY <2>1, <2>12, MeIsUser DEF AvatarSet, Sound, JobsOwnTheirTokens
    <3>2. Render(page, Me(j.tok), loading, stored, rest)
      BY <2>12 DEF AvatarSet
    <3>3. /\ UNCHANGED tokenVars /\ UNCHANGED mustChange
          /\ access' \in Issued \cup {None} /\ timer' \in Issued \cup {None}
          /\ crossed' \in BOOLEAN /\ half' \in BOOLEAN
          /\ stored \in Issued \cup {None}
          /\ loading \in BOOLEAN
      BY <2>12, <3>1 DEF AvatarSet, Sound, TypeOK
    <3> HIDE DEF rest
    <3> QED
      BY <2>1, <3>1, <3>2, <3>3, SoundRendered DEF Render
  <2>13. CASE PermissionsLoaded(j)
    <3>1. TypeOK' /\ JobsOwnTheirTokens'
      BY <2>1, <2>13 DEF PermissionsLoaded, tokenVars, Sound, TypeOK, JobsOwnTheirTokens, Issued
    <3>2. Pending(jobs', {"perms"}) \subseteq Pending(jobs, {"perms"}) /\ Pending(jobs, {"perms"}) # {}
      BY <2>13 DEF PermissionsLoaded, Pending
    <3> QED
      BY <2>13, <3>1, <3>2, ScreensKept DEF PermissionsLoaded, Sound
  <2> QED
    BY <1>9, <2>3, <2>4, <2>5, <2>6, <2>7, <2>8, <2>9, <2>10, <2>11, <2>12, <2>13 DEF Answer
<1> QED
  BY <1>1, <1>2, <1>3, <1>4, <1>5, <1>7, <1>8, <1>9
  DEF Next, Reload, Unauthorized, PasswordGate, Pages, Sound, TypeOK

(***************************************************************************)
(* Phases.                                                                 *)
(***************************************************************************)
\* Pairs st and tk, the timer tm and the operations js are those of u's phase.
Agreed(u, st, tk, tm, js) ==
    IF u = None
    THEN tk = None /\ tm = None /\ Pending(js, Writers) = {}
    ELSE /\ st # None /\ owner[st] = u.who
         /\ tk # None /\ owner[tk] = u.who
         /\ \A j \in Pending(js, Writers) :
              j.op \in {"refresh", "change", "change_me", "avatar"} /\ j.who = u.who
         /\ perms # None => perms = u.who
         /\ \A j \in Pending(js, {"perms"}) : j.who = u.who

\* A step that renders nobody, with no operation waiting that writes, no token
\* and no timer, is nobody's; one that renders an account's user, with pairs and
\* operations of that account only, is that account's.
LEMMA PhaseRendered ==
  ASSUME Sound, NEW u \in UserInfo \cup {None}, NEW ld \in BOOLEAN, NEW st \in Issued \cup {None},
         NEW js, js \subseteq jobs, Render(page, u, ld, st, js), UNCHANGED tokenVars,
         Agreed(u, st, access', timer', js)
  PROVE  OnePhase'
<1>1. /\ user' = u /\ stored' = st /\ perms' \in {perms, None}
      /\ Pending(jobs', Writers) = Pending(js, Writers)
      /\ \A j \in jobs' : j \in js \/ (j.op = "perms" /\ st # None /\ j.tok = st /\ j.who = owner[st])
  BY Rendering DEF Sound, Render
<1>2. owner' = owner
  BY DEF tokenVars
<1>3. CASE u = None
  BY <1>1, <1>3 DEF Agreed, OnePhase, Nobody
<1>4. CASE u # None
  <2>1. \A j \in Pending(jobs', {"perms"}) : j.who = u.who
    BY <1>1, <1>4 DEF Agreed, Pending
  <2> QED
    BY <1>1, <1>2, <1>4, <2>1 DEF Agreed, OnePhase, Somebody
<1> QED
  BY <1>3, <1>4

\* Steps that change neither the tokens nor the screen keep the phase, whatever
\* operation that does not write they start or end.
LEMMA PhaseKept ==
  ASSUME OnePhase, UNCHANGED <<user, access, stored, timer, owner>>,
         perms' \in {perms, None} \cup {j.who : j \in Pending(jobs, {"perms"})},
         Pending(jobs', Writers) \subseteq Pending(jobs, Writers),
         Pending(jobs', {"perms"}) \subseteq Pending(jobs, {"perms"})
  PROVE  OnePhase'
<1>1. CASE user = None
  BY <1>1 DEF OnePhase, Nobody
<1>2. CASE user # None
  BY <1>2 DEF OnePhase, Somebody
<1> QED
  BY <1>1, <1>2

\* An operation that brings somebody is alone.
LEMMA BringsSomebody ==
  ASSUME OnePhase, NEW j \in jobs, j.op \in {"init_refresh", "init_me", "login", "login_me"}
  PROVE  /\ user = None /\ Nobody /\ Pending(jobs, Writers) = {j} /\ Pending(jobs \ {j}, Writers) = {}
         /\ j.op # "login" => stored = j.tok
<1>1. j \in Pending(jobs, Writers)
  BY DEF Pending, Writers, Ops
<1>2. user = None /\ Nobody
  BY <1>1 DEF OnePhase, Somebody
<1> QED
  BY <1>1, <1>2 DEF Nobody, Pending

\* Any other that writes is of the account that is shown.
LEMMA ActsForSomebody ==
  ASSUME OnePhase, NEW j \in jobs, j.op \in {"refresh", "change", "change_me", "avatar"}
  PROVE  user # None /\ Somebody(user.who) /\ j.who = user.who
<1>1. j \in Pending(jobs, Writers)
  BY DEF Pending, Writers, Ops
<1> QED
  BY <1>1 DEF OnePhase, Nobody, Somebody

\* Unless it crosses sessions, a step ends in one of the two phases.
LEMMA PhaseNext == Inv /\ [Next]_vars => (crossed \/ OnePhase)'
<1> SUFFICES ASSUME Inv, [Next]_vars, ~crossed' PROVE OnePhase'
  OBVIOUS
<1>a. Sound /\ TypeOK /\ {stored, access} \subseteq Issued \cup {None} /\ loading \in BOOLEAN
      /\ user \in UserInfo \cup {None}
  BY DEF Inv, Sound, TypeOK
<1>b. user = None => perms = None /\ Pending(jobs, {"perms"}) = {}
  BY DEF Inv, Sound, Screens, PermsNeedDashboard, Mounted
<1>1. CASE UNCHANGED vars
  BY <1>1 DEF Inv, vars, tokenVars, OnePhase, Nobody, Somebody, Pending
<1>2. ASSUME NEW t \in Issued, Age(t) PROVE OnePhase'
  BY <1>2, PhaseKept DEF Inv, Age
<1>3. ASSUME NEW pg \in Pages, Load(pg) PROVE OnePhase'
  <2>1. \A i, j \in InitJobs(stored) : i = j
    BY DEF InitJobs
  <2>2. \A j \in InitJobs(stored) : j.op \in {"init_refresh", "init_me"} /\ j.tok = stored
    BY DEF InitJobs
  <2> QED
    BY <1>3, <2>1, <2>2 DEF Load, OnePhase, Nobody, Pending
<1>4. ASSUME NEW u \in Users, login(u) PROVE OnePhase'
  <2>1. OnePhase /\ user = None /\ Pending(jobs, Writers) = {}
    BY <1>4 DEF login, Inv, Sound, Screens, LoginShowsNobody
  <2>2. Pending(jobs', Writers) \subseteq {[op |-> "login", who |-> u, tok |-> None]}
    BY <1>4, <2>1 DEF login, Pending
  <2> QED
    BY <1>4, <2>1, <2>2 DEF login, OnePhase, Nobody
<1>5. CASE RefreshDue
  <2>1. user # None /\ Somebody(user.who)
    BY <1>5 DEF RefreshDue, Inv, OnePhase, Nobody
  <2>2. \A j \in jobs' : j \in jobs \/ (j.op = "refresh" /\ j.who = user.who)
    BY <1>5, <2>1 DEF RefreshDue, Somebody
  <2> QED
    BY <1>5, <2>1, <2>2 DEF RefreshDue, tokenVars, OnePhase, Somebody, Pending
<1>6. ASSUME NEW js, js \subseteq jobs, SignedOut(js) PROVE OnePhase'
  <2>1. Render(page, None, loading, None, js) /\ UNCHANGED tokenVars
    BY <1>6 DEF SignedOut
  <2>2. Agreed(None, None, access', timer', js)
    BY <1>6 DEF SignedOut, Agreed
  <2> QED
    BY <1>6, <1>a, <2>1, <2>2, PhaseRendered DEF Render
<1>7. CASE logout
  <2>1. CASE stored = None
    BY <1>6, <1>7, <2>1 DEF logout
  <2>2. CASE stored # None
    <3>1. Pending(jobs', Writers) = Pending(jobs, Writers) /\ Pending(jobs', {"perms"}) = Pending(jobs, {"perms"})
      BY <1>7, <2>2 DEF logout, Pending, Writers
    <3>2. OnePhase /\ UNCHANGED <<user, access, stored, timer, owner, perms>>
      BY <1>7, <2>2 DEF Inv, logout, tokenVars
    <3> QED
      BY <3>1, <3>2, PhaseKept
  <2> QED
    BY <2>1, <2>2
<1>8. CASE changePassword \/ setAvatar
  <2>1. user # None /\ Somebody(user.who)
    BY <1>8 DEF changePassword, setAvatar, Mounted, Inv, OnePhase
  <2>2. \A j \in jobs' : j \in jobs \/ (j.op \in {"change", "avatar"} /\ j.who = user.who)
    BY <1>8, <2>1 DEF changePassword, setAvatar, Somebody
  <2> QED
    BY <1>8, <2>1, <2>2 DEF changePassword, setAvatar, tokenVars, OnePhase, Somebody, Pending
<1>9. ASSUME NEW j \in jobs, Answer(j) PROVE OnePhase'
  <2> DEFINE rest == jobs \ {j}
  <2>1. rest \subseteq jobs /\ j.who \in Users
    BY <1>a DEF TypeOK, Job
  <2>2. ASSUME NEW t \in Tokens, NEW l \in {"long", "short"}, Issue(j.who, l, t)
        PROVE  owner'[t] = j.who /\ \A x \in Issued : owner'[x] = owner[x]
    BY <1>a, <2>1, <2>2, Issuing
  <2>3. ASSUME j.op \in {"init_refresh", "init_me", "login", "login_me"}, OnePhase
        PROVE  /\ user = None /\ Nobody /\ Pending(jobs, Writers) = {j} /\ Pending(rest, Writers) = {}
               /\ j.op # "login" => stored = j.tok
    BY <2>3, BringsSomebody
  <2>4. ASSUME j.op \in {"refresh", "change", "change_me", "avatar"}, OnePhase
        PROVE  user # None /\ Somebody(user.who) /\ j.who = user.who
    BY <2>4, ActsForSomebody
  <2>5. j.op \notin {"login", "logout"} => j.tok \in Issued /\ owner[j.tok] = j.who
    BY DEF Inv, Sound, JobsOwnTheirTokens
  <2>6. CASE RestoreRefreshed(j)
    <3>1. OnePhase /\ j.op = "init_refresh"
      BY <2>6 DEF RestoreRefreshed, Inv
    <3>2. \A i \in Pending(jobs', Writers) : i = [op |-> "init_me", who |-> j.who, tok |-> stored']
      BY <2>3, <2>6, <3>1 DEF RestoreRefreshed, Pending
    <3> QED
      BY <2>3, <2>6, <3>1, <3>2 DEF RestoreRefreshed, OnePhase, Nobody
  <2>7. CASE Restored(j)
    <3>1. OnePhase /\ j.op = "init_me"
      BY <2>7 DEF Restored, Inv
    <3>2. /\ Render(page, Me(j.tok), FALSE, stored, rest) /\ UNCHANGED tokenVars /\ access' = j.tok
      BY <2>7 DEF Restored
    <3>3. Me(j.tok) \in UserInfo /\ Me(j.tok).who = owner[j.tok] /\ j.tok \in Issued /\ stored = j.tok
      BY <1>a, <2>3, <2>5, <3>1, MeIsUser DEF Me
    <3>4. Agreed(Me(j.tok), stored, access', timer', rest)
      <4>1. Me(j.tok) # None /\ j.tok # None
        BY <1>a, <3>3, NoneIsNobody, NoneIsNoToken DEF UserInfo, TypeOK, Tokens
      <4> QED
        BY <1>b, <2>3, <3>1, <3>2, <3>3, <4>1 DEF Agreed, Pending
    <3> HIDE DEF rest
    <3> QED
      BY <1>a, <2>1, <3>2, <3>3, <3>4, PhaseRendered DEF Render
  <2>8. CASE RestoreFailed(j)
    <3>1. /\ Render(page, user, FALSE, None, rest) /\ UNCHANGED tokenVars
          /\ access' = access /\ timer' = timer /\ user = None /\ Pending(rest, Writers) = {}
          /\ OnePhase
      BY <2>8 DEF RestoreFailed, Inv
    <3>2. Agreed(user, None, access', timer', rest)
      BY <3>1 DEF Agreed, OnePhase, Nobody
    <3> HIDE DEF rest
    <3> QED
      BY <1>a, <2>1, <3>1, <3>2, PhaseRendered DEF Render
  <2>9. CASE LoginRefused(j) \/ EstablishFailed(j) \/ Refused(j)
    <3>1. Pending(jobs', Writers) \subseteq Pending(jobs, Writers) /\ Pending(jobs', {"perms"}) \subseteq Pending(jobs, {"perms"})
      BY <2>9 DEF LoginRefused, EstablishFailed, Refused, Pending
    <3>2. OnePhase /\ UNCHANGED <<user, access, stored, timer, owner, perms>>
      BY <2>9 DEF Inv, LoginRefused, EstablishFailed, Refused, tokenVars
    <3> QED
      BY <3>1, <3>2, PhaseKept
  <2>10. CASE EstablishSaved(j) /\ j.op = "login"
    <3>1. OnePhase
      BY <2>10 DEF EstablishSaved, Inv
    <3>2. \A i \in Pending(jobs', Writers) : i = [op |-> "login_me", who |-> j.who, tok |-> stored']
      BY <2>3, <2>10, <3>1 DEF EstablishSaved, Pending
    <3> QED
      BY <2>3, <2>10, <3>1, <3>2 DEF EstablishSaved, OnePhase, Nobody
  <2>11. CASE EstablishSaved(j) /\ j.op = "change"
    <3>1. OnePhase /\ user # None /\ Somebody(user.who) /\ j.who = user.who
      BY <2>4, <2>11 DEF EstablishSaved, Inv
    <3>2. stored' # None /\ owner'[stored'] = user.who /\ \A x \in Issued : owner'[x] = owner[x]
      BY <2>2, <2>11, <3>1, NoneIsNoToken DEF EstablishSaved, Tokens
    <3>3. \A i \in jobs' : i \in jobs \/ (i.op = "change_me" /\ i.who = user.who)
      BY <2>11, <3>1 DEF EstablishSaved
    <3> QED
      BY <1>a, <2>11, <3>1, <3>2, <3>3 DEF EstablishSaved, OnePhase, Somebody, Pending
  <2>12. CASE Established(j)
    <3>1. /\ Render(page, Me(j.tok), loading, stored, rest) /\ UNCHANGED tokenVars /\ access' = j.tok
          /\ OnePhase /\ j.op \in {"login_me", "change_me"}
      BY <2>12 DEF Established, Inv
    <3>2. Me(j.tok) \in UserInfo /\ Me(j.tok).who = j.who /\ j.tok \in Issued /\ owner[j.tok] = j.who
      BY <1>a, <2>5, <3>1, MeIsUser DEF Me
    <3>3. Agreed(Me(j.tok), stored, access', timer', rest)
      <4>1. Me(j.tok) # None /\ j.tok # None
        BY <1>a, <3>2, NoneIsNobody, NoneIsNoToken DEF UserInfo, TypeOK, Tokens
      <4>2. CASE j.op = "login_me"
        BY <1>b, <2>3, <3>1, <3>2, <4>1, <4>2 DEF Agreed, Pending
      <4>3. CASE j.op = "change_me"
        BY <2>4, <3>1, <3>2, <4>1, <4>3 DEF Agreed, Pending, Somebody
      <4> QED
        BY <3>1, <4>2, <4>3
    <3> HIDE DEF rest
    <3> QED
      BY <1>a, <2>1, <3>1, <3>2, <3>3, PhaseRendered DEF Render
  <2>13. CASE Refreshed(j)
    <3>1. OnePhase /\ user # None /\ Somebody(user.who) /\ j.who = user.who
      BY <2>4, <2>13 DEF Refreshed, Inv
    <3>2. stored' # None /\ access' = stored' /\ owner'[stored'] = user.who
      BY <2>2, <2>13, <3>1, NoneIsNoToken DEF Refreshed, Tokens
    <3> QED
      BY <2>13, <3>1, <3>2 DEF Refreshed, OnePhase, Somebody, Pending
  <2>14. CASE RefreshFailed(j)
    <3>1. /\ Render(page, None, loading, None, rest) /\ UNCHANGED tokenVars
          /\ access' = None /\ timer' = None /\ Pending(rest, Writers) = {}
      BY <2>14 DEF RefreshFailed
    <3>2. Agreed(None, None, access', timer', rest)
      BY <3>1 DEF Agreed
    <3> HIDE DEF rest
    <3> QED
      BY <1>a, <2>1, <3>1, <3>2, PhaseRendered DEF Render
  <2>15. CASE LoggedOut(j)
    BY <1>6, <2>1, <2>15 DEF LoggedOut
  <2>16. CASE AvatarSet(j)
    <3>1. /\ Render(page, Me(j.tok), loading, stored, rest) /\ UNCHANGED tokenVars /\ access' = access
          /\ OnePhase /\ j.op = "avatar"
      BY <2>16 DEF AvatarSet, Inv
    <3>2. user # None /\ Somebody(user.who) /\ j.who = user.who
      BY <2>4, <3>1
    <3>3. Me(j.tok) \in UserInfo /\ Me(j.tok).who = user.who
      BY <1>a, <2>5, <3>1, <3>2, MeIsUser DEF Me
    <3>4. Agreed(Me(j.tok), stored, access', timer', rest)
      BY <3>1, <3>2, <3>3, NoneIsNobody DEF Agreed, Pending, Somebody, UserInfo
    <3> HIDE DEF rest
    <3> QED
      BY <1>a, <2>1, <3>1, <3>3, <3>4, PhaseRendered DEF Render
  <2>17. CASE PermissionsLoaded(j)
    <3>1. /\ Pending(jobs', Writers) \subseteq Pending(jobs, Writers)
          /\ Pending(jobs', {"perms"}) \subseteq Pending(jobs, {"perms"}) /\ j \in Pending(jobs, {"perms"})
      BY <2>17 DEF PermissionsLoaded, Pending
    <3> QED
      BY <2>17, <3>1, PhaseKept DEF Inv, PermissionsLoaded, tokenVars
  <2> QED
    BY <1>9, <2>6, <2>7, <2>8, <2>9, <2>10, <2>11, <2>12, <2>13, <2>14, <2>15, <2>16, <2>17
    DEF Answer, EstablishSaved
<1> QED
  BY <1>1, <1>2, <1>3, <1>4, <1>5, <1>7, <1>8, <1>9
  DEF Next, Reload, Unauthorized, PasswordGate, Pages, Inv, Sound, TypeOK

(***************************************************************************)
(* What becomes of the tokens.                                             *)
(***************************************************************************)
\* A token in use that is not about to expire is the one whose refresh is scheduled.
Scheduled ==
    ~crossed /\ user # None => (life[access] = "long" => timer = access)

\* A pair that is stored while nobody is shown is being restored or signed in with.
Accounted ==
    ~crossed /\ ~half /\ user = None /\ stored # None =>
        \E j \in jobs : j.op \in {"init_refresh", "init_me", "login_me"}

\* Each step leaves tokens scheduled and accounted for.
LEMMA TokensNext == Inv /\ Scheduled /\ Accounted /\ [Next]_vars => Scheduled' /\ Accounted'
<1> SUFFICES ASSUME Inv, Scheduled, Accounted, [Next]_vars, ~crossed' PROVE Scheduled' /\ Accounted'
  BY DEF Scheduled, Accounted
<1>a. Sound /\ TypeOK /\ (~crossed => OnePhase) /\ loading \in BOOLEAN /\ user \in UserInfo \cup {None}
      /\ stored \in Issued \cup {None} /\ access \in Issued \cup {None} /\ None \notin UserInfo
  BY NoneIsNobody DEF Inv, Sound, TypeOK, UserInfo
<1> DEFINE Done == Scheduled' /\ Accounted'
<1>1. CASE UNCHANGED vars
  BY <1>1 DEF vars, tokenVars, Scheduled, Accounted
<1>2. ASSUME NEW t \in Issued, Age(t) PROVE Done
  BY <1>2, <1>a DEF Age, Scheduled, Accounted, TypeOK, Inv, OnePhase, Somebody
<1>3. ASSUME NEW pg \in Pages, Load(pg) PROVE Done
  BY <1>3 DEF Load, InitJobs, tokenVars, Scheduled, Accounted
<1>4. ASSUME NEW u \in Users, login(u) PROVE Done
  BY <1>4 DEF login, tokenVars, Scheduled, Accounted
<1>5. CASE RefreshDue
  BY <1>5 DEF RefreshDue, tokenVars, Scheduled, Accounted
<1>6. ASSUME NEW js, js \subseteq jobs, SignedOut(js) PROVE Done
  BY <1>6 DEF SignedOut, Render, Scheduled, Accounted
<1>7. CASE logout \/ changePassword \/ setAvatar
  BY <1>6, <1>7 DEF logout, changePassword, setAvatar, tokenVars, Scheduled, Accounted
<1>8. ASSUME NEW j \in jobs, Answer(j) PROVE Done
  <2> DEFINE rest == jobs \ {j}
  <2>1. j.who \in Users /\ rest \subseteq jobs
    BY <1>a DEF TypeOK, Job
  <2>2. ASSUME NEW t \in Tokens, NEW l \in {"long", "short"}, Issue(j.who, l, t)
        PROVE  life'[t] = l /\ \A x \in Issued : life'[x] = life[x]
    BY <1>a, <2>1, <2>2, Issuing DEF Issue
  <2>3. CASE RestoreRefreshed(j)
    <3>1. user' = None
      BY <1>a, <2>3, BringsSomebody DEF RestoreRefreshed
    <3>2. \E i \in jobs' : i.op = "init_me"
      <4>1. PICK t \in Tokens : [op |-> "init_me", who |-> j.who, tok |-> t] \in jobs'
        BY <2>3 DEF RestoreRefreshed
      <4> QED
        BY <4>1
    <3> QED
      BY <3>1, <3>2 DEF Scheduled, Accounted
  <2>4. CASE Restored(j) \/ Established(j)
    <3>1. j.tok \in Issued /\ Me(j.tok) # None
      BY <1>a, <2>4, MeIsUser DEF Restored, Established, Sound, JobsOwnTheirTokens
    <3>2. user' = Me(j.tok) /\ access' = j.tok /\ timer' = scheduleRefresh(j.tok, life[j.tok]) /\ life' = life
      BY <2>4 DEF Restored, Established, Render, tokenVars
    <3> QED
      BY <3>1, <3>2 DEF scheduleRefresh, Scheduled, Accounted
  <2>5. CASE RestoreFailed(j)
    BY <2>5 DEF RestoreFailed, Render, Scheduled, Accounted
  <2>6. CASE LoginRefused(j) \/ Refused(j) \/ PermissionsLoaded(j)
    BY <2>6 DEF LoginRefused, Refused, PermissionsLoaded, tokenVars, Scheduled, Accounted
  <2>7. CASE EstablishFailed(j)
    BY <2>7 DEF EstablishFailed, tokenVars, Scheduled, Accounted
  <2>8. CASE EstablishSaved(j)
    <3>1. Scheduled'
      BY <1>a, <2>2, <2>8 DEF EstablishSaved, Scheduled, OnePhase, Somebody
    <3>2. j.op = "change" => user' # None
      BY <1>a, <2>8, ActsForSomebody DEF EstablishSaved
    <3>3. j.op = "login" => \E i \in jobs' : i.op = "login_me"
      <4>1. ASSUME j.op = "login"
            PROVE  \E t \in Tokens : [op |-> "login_me", who |-> j.who, tok |-> t] \in jobs'
        BY <2>8, <4>1 DEF EstablishSaved
      <4> QED
        BY <4>1
    <3> QED
      BY <2>8, <3>1, <3>2, <3>3 DEF EstablishSaved, Accounted
  <2>9. CASE Refreshed(j)
    <3>1. user' # None
      BY <1>a, <2>9, ActsForSomebody DEF Refreshed
    <3>2. PICK t \in Tokens, l \in {"long", "short"} :
            Issue(j.who, l, t) /\ access' = t /\ timer' = scheduleRefresh(t, l)
      BY <2>9 DEF Refreshed
    <3> QED
      BY <2>2, <3>1, <3>2 DEF scheduleRefresh, Scheduled, Accounted
  <2>10. CASE RefreshFailed(j) \/ LoggedOut(j)
    BY <2>10 DEF RefreshFailed, LoggedOut, SignedOut, Render, Scheduled, Accounted
  <2>11. CASE AvatarSet(j)
    <3>1. user # None /\ user' # None /\ UNCHANGED <<access, timer, life, crossed>>
      BY <1>a, <2>11, ActsForSomebody, MeIsUser DEF AvatarSet, Render, tokenVars, Sound, JobsOwnTheirTokens
    <3> QED
      BY <3>1 DEF Scheduled, Accounted
  <2> QED
    BY <1>8, <2>3, <2>4, <2>5, <2>6, <2>7, <2>8, <2>9, <2>10, <2>11 DEF Answer
<1> QED
  BY <1>1, <1>2, <1>3, <1>4, <1>5, <1>7, <1>8, <1>a
  DEF Next, Reload, Unauthorized, PasswordGate, Pages, TypeOK

(***************************************************************************)
(* The theorems.                                                           *)
(***************************************************************************)
\* A tab begins signed out.
LEMMA InvInit == Init => Inv
<1> SUFFICES ASSUME Init PROVE Inv
  OBVIOUS
<1>1. Issued = 1..Cardinality(Issued)
  <2>1. Issued = {}
    BY DEF Init, Issued
  <2>2. Cardinality(Issued) = 0 /\ 1..0 = {}
    BY <2>1, FS_EmptySet
  <2> QED
    BY <2>1, <2>2
<1>2. owner \in [Issued -> Users] /\ life \in [Issued -> Lives] /\ Issued = {}
  BY DEF Init, Issued
<1>3. TypeOK
  BY <1>1, <1>2 DEF Init, TypeOK, Pages
<1> QED
  BY <1>3 DEF Init, Inv, Sound, JobsOwnTheirTokens, Screens, LoginShowsNobody, PermsNeedDashboard,
    DashboardIsGuarded, OnePhase, Nobody, Pending

\* What holds in every reachable state, for any number of accounts, token pairs
\* and operations at once (auth-context.tsx, auth-guard.tsx).
THEOREM Invariance == Spec => []Inv
<1>1. Inv /\ [Next]_vars => Inv'
  BY SoundNext, PhaseNext DEF Inv
<1> QED
  BY InvInit, <1>1, PTL DEF Spec

\* The state of a tab keeps its types: every token it keeps or waits with was
\* issued, every account it shows is one (auth-context.tsx).
THEOREM TypesHold == Spec => []TypeOK
<1>1. Inv => TypeOK
  BY DEF Inv, Sound
<1> QED
  BY Invariance, <1>1, PTL

\* The dashboard shows neither to nobody nor to an account that must change its
\* password (auth-guard.tsx, login/page.tsx, change-password-required/page.tsx).
THEOREM GuardsHold == Spec => []DashboardIsGuarded
<1>1. Inv => DashboardIsGuarded
  BY DEF Inv, Sound, Screens
<1> QED
  BY Invariance, <1>1, PTL

\* A signed-in tab whose token is not about to expire has its refresh scheduled, and
\* one that shows nobody, with nothing pending, keeps no pair (auth-context.tsx).
THEOREM TokensHold == Spec => [](KeptAlive /\ SignedOutIsSignedOut)
<1>1. Init => Scheduled /\ Accounted
  BY DEF Init, Scheduled, Accounted
<1>2. Inv /\ Scheduled /\ Accounted => KeptAlive /\ SignedOutIsSignedOut
  BY DEF Scheduled, Accounted, KeptAlive, SignedOutIsSignedOut
<1> QED
  BY Invariance, TokensNext, <1>1, <1>2, PTL DEF Spec

\* A tab at rest that shows nobody keeps no token pair that the next visitor of
\* the browser would be signed in with, unless a sign-in failed half way.
THEOREM SignedOutHolds == Spec => []SignedOutIsSignedOut
<1>1. KeptAlive /\ SignedOutIsSignedOut => SignedOutIsSignedOut
  OBVIOUS
<1> QED
  BY TokensHold, <1>1, PTL

\* The stored pair, the token in use, the user shown and the permissions are one
\* account's, unless a session ended or began under a pending writer or timer.
THEOREM OneIdentityHolds == Spec => []OneIdentity
<1>1. Inv => OneIdentity
  <2> SUFFICES ASSUME Inv, ~crossed PROVE OneIdentity
    BY DEF OneIdentity
  <2>1. CASE user = None
    BY <2>1 DEF Inv, Sound, Screens, PermsNeedDashboard, Mounted, OneIdentity
  <2>2. CASE user # None
    BY <2>2 DEF Inv, OnePhase, Somebody, OneIdentity
  <2> QED
    BY <2>1, <2>2
<1> QED
  BY Invariance, <1>1, PTL
===============================================================================
