----------------------------- MODULE RequestProofs -----------------------------
(***************************************************************************)
(* Theorems about two services whose requests read rows in one statement   *)
(* and change them in a later one: UserAdmin, for any set of users and of  *)
(* handlers, and Comments, for any number of comments and of writers.      *)
(***************************************************************************)
EXTENDS UserAdmin, Comments, FiniteSetTheorems, TLAPS

\* At most one request that deletes or demotes is between its check and its commit.
OneUnmaking ==
    \A g, h \in Handlers :
        request[g].op \in Unmaking /\ request[h].op \in Unmaking => g = h

\* A request that may take the right away from a user was let through because
\* another administrator is there, and he still is.
CheckedLeavesAnother ==
    \A h \in Handlers : request[h].op \in Unmaking =>
        \E w \in Admins : w # request[h].user

Protected == AdminRemains /\ OneUnmaking /\ CheckedLeavesAnother
Inv == TypeOK /\ (raced \/ Protected)

\* The administrators are finitely many, so that they can be counted.
LEMMA AdminsFinite == IsFiniteSet(Admins)
  BY AdminAssumption, FS_Subset, Admins \subseteq Users DEF Admins

\* What _is_last_admin answers: a user it lets through leaves another
\* administrator behind, provided there was one at all.
LEMMA AnotherAdmin ==
  ASSUME NEW u \in Users, ~IsLastAdmin(u), AdminRemains
  PROVE  \E w \in Admins : w # u
<1>1. CASE u \notin Admins
  BY <1>1 DEF AdminRemains
<1>2. CASE u \in Admins
  <2> SUFFICES ASSUME \A w \in Admins : w = u
               PROVE  FALSE
    OBVIOUS
  <2>1. Admins = {u}
    BY <1>2
  <2>2. Cardinality(Admins) = 1
    BY <2>1, FS_Singleton
  <2> QED
    BY <1>2, <2>2 DEF IsLastAdmin
<1> QED
  BY <1>1, <1>2

\* The installation begins with one administrator and no request.
LEMMA InvInit == Init => Inv
<1> SUFFICES ASSUME Init PROVE Inv
  OBVIOUS
<1>1. TypeOK
  BY AdminAssumption DEF Init, TypeOK, IdleRequest, Roles, Operations
<1>2. Admin \in Admins
  BY AdminAssumption DEF Init, Admins
<1> QED
  BY <1>1, <1>2
  DEF Init, IdleRequest, Unmaking, Inv, Protected, AdminRemains, OneUnmaking, CheckedLeavesAnother

\* The accounts, tokens and requests stay well typed.
LEMMA TypeNext == TypeOK /\ [Next]_vars => TypeOK'
<1> SUFFICES ASSUME TypeOK, [Next]_vars PROVE TypeOK'
  OBVIOUS
<1> USE DEF TypeOK, Roles, Operations
<1>1. CASE UNCHANGED vars
  BY <1>1 DEF vars, accounts
<1>2. ASSUME NEW h \in Handlers, NEW op \in Operations, NEW u \in Users, Check(h, op, u)
      PROVE  TypeOK'
  BY <1>2 DEF Check, accounts
<1>3. ASSUME NEW h \in Handlers, Apply(h) PROVE TypeOK'
  BY <1>3, AdminAssumption DEF Apply, IdleRequest
<1>4. ASSUME NEW u \in Users, NEW r \in Roles, AddUser(u, r) PROVE TypeOK'
  BY <1>4 DEF AddUser
<1>5. ASSUME NEW u \in Users, Promote(u) PROVE TypeOK'
  BY <1>5 DEF Promote
<1>6. ASSUME NEW u \in Users, Activate(u) PROVE TypeOK'
  BY <1>6 DEF Activate
<1>7. ASSUME NEW u \in Users, Login(u) PROVE TypeOK'
  BY <1>7 DEF Login, Issue, Existing, accounts
<1>8. ASSUME NEW u \in Users, Refresh(u) PROVE TypeOK'
  BY <1>8 DEF Refresh, Issue, Existing, accounts
<1>9. ASSUME NEW u \in Users, NEW r \in Roles, Expire(u, r) PROVE TypeOK'
  BY <1>9 DEF Expire, accounts
<1> QED
  BY <1>1, <1>2, <1>3, <1>4, <1>5, <1>6, <1>7, <1>8, <1>9 DEF Next

\* Unless two requests that delete or demote overlap, no step takes the last
\* administrator away: the one a request left behind can only be taken by it.
LEMMA InvNext == Inv /\ [Next]_vars => Inv'
<1> SUFFICES ASSUME Inv, [Next]_vars PROVE Inv'
  OBVIOUS
<1>0. TypeOK'
  BY TypeNext DEF Inv
<1>r. CASE raced
  <2>1. raced'
    BY <1>r DEF Next, vars, Check, Apply, AddUser, Promote, Activate, Login, Refresh, Expire
  <2> QED
    BY <1>0, <2>1 DEF Inv
<1>s. CASE ~raced
  <2>0. TypeOK /\ Protected
    BY <1>s DEF Inv
  <2> SUFFICES raced' \/ Protected'
    BY <1>0 DEF Inv
  <2>a. ASSUME Admins \subseteq Admins', request' = request
        PROVE  Protected'
    BY <2>0, <2>a DEF Protected, AdminRemains, OneUnmaking, CheckedLeavesAnother
  <2>1. CASE UNCHANGED vars
    BY <2>1, <2>a DEF vars, accounts, Admins
  <2>2. ASSUME NEW h \in Handlers, NEW op \in Operations, NEW u \in Users, Check(h, op, u)
        PROVE  raced' \/ Protected'
    <3>1. Admins' = Admins
      BY <2>2 DEF Check, accounts, Admins
    <3>2. \E w \in Admins : w # u
      BY <2>0, <2>2, AnotherAdmin DEF Check, Protected
    <3>3. request' = [request EXCEPT ![h] = [op |-> op, user |-> u]]
      BY <2>2 DEF Check
    <3>4. request'[h] = [op |-> op, user |-> u]
          /\ \A g \in Handlers : g # h => request'[g] = request[g]
      BY <2>0, <3>3 DEF TypeOK
    <3>5. AdminRemains'
      BY <2>0, <3>1 DEF Protected, AdminRemains
    <3>6. CheckedLeavesAnother'
      BY <2>0, <3>1, <3>2, <3>4 DEF Protected, CheckedLeavesAnother
    <3>7. raced' \/ OneUnmaking'
      <4>1. CASE op \in Unmaking /\ \E g \in Handlers : request[g].op \in Unmaking
        BY <2>2, <4>1 DEF Check
      <4>2. CASE op \notin Unmaking
        BY <2>0, <3>4, <4>2 DEF Protected, OneUnmaking
      <4>3. CASE ~\E g \in Handlers : request[g].op \in Unmaking
        BY <3>4, <4>3 DEF OneUnmaking
      <4> QED
        BY <4>1, <4>2, <4>3
    <3> QED
      BY <3>5, <3>6, <3>7 DEF Protected
  <2>3. ASSUME NEW h \in Handlers, Apply(h)
        PROVE  Protected'
    <3> DEFINE u == request[h].user
    <3>1. request'[h].op = "none"
          /\ \A g \in Handlers : g # h => request'[g] = request[g]
      BY <2>0, <2>3 DEF Apply, IdleRequest, TypeOK
    <3>2. OneUnmaking'
      BY <2>0, <3>1 DEF Protected, OneUnmaking, Unmaking
    <3>3. \A w \in Users : w # u => role'[w] = role[w]
      BY <2>0, <2>3 DEF Apply, TypeOK
    <3>4. CASE request[h].op \in Unmaking
      <4>1. PICK w \in Admins : w # u
        BY <2>0, <3>4 DEF Protected, CheckedLeavesAnother
      <4>2. AdminRemains'
        BY <3>3, <4>1 DEF AdminRemains, Admins
      <4>3. \A g \in Handlers : request'[g].op \notin Unmaking
        BY <2>0, <3>1, <3>4 DEF Protected, OneUnmaking, Unmaking
      <4> QED
        BY <3>2, <4>2, <4>3 DEF Protected, CheckedLeavesAnother
    <3>5. CASE request[h].op \notin Unmaking
      <4>1. u \in Users => role'[u] = role[u]
        BY <2>0, <2>3, <3>5 DEF Apply, TypeOK, Unmaking
      <4>2. Admins' = Admins
        BY <3>3, <4>1 DEF Admins
      <4> QED
        BY <2>0, <3>1, <3>2, <4>2 DEF Protected, AdminRemains, CheckedLeavesAnother, Unmaking
    <3> QED
      BY <3>4, <3>5
  <2>4. ASSUME NEW u \in Users, NEW r \in Roles, AddUser(u, r)
        PROVE  Protected'
    BY <2>0, <2>4, <2>a DEF AddUser, Admins, TypeOK
  <2>5. ASSUME NEW u \in Users, Promote(u)
        PROVE  Protected'
    BY <2>0, <2>5, <2>a DEF Promote, Admins, TypeOK
  <2>6. ASSUME NEW u \in Users, Activate(u)
        PROVE  Protected'
    BY <2>6, <2>a DEF Activate, Admins
  <2>7. ASSUME NEW u \in Users,
               Login(u) \/ Refresh(u) \/ \E r \in Roles : Expire(u, r)
        PROVE  Protected'
    BY <2>7, <2>a DEF Login, Refresh, Expire, accounts, Admins
  <2> QED
    BY <2>1, <2>2, <2>3, <2>4, <2>5, <2>6, <2>7 DEF Next
<1> QED
  BY <1>r, <1>s

\* Accounts, claims and requests are well typed in every reachable state.
THEOREM UserTypeCorrect == Spec => []TypeOK
<1>1. Init => TypeOK
  BY InvInit DEF Inv
<1> QED
  BY <1>1, TypeNext, PTL DEF Spec

\* "Last admin protection" works for any number of users and of requests as long as
\* no two of them that delete or demote overlap; the run user_admin_race shows that
\* it does not when two do.
THEOREM AdminProtected == Spec => []AdminRemainsUnlessRaced
<1>1. Inv => AdminRemainsUnlessRaced
  BY DEF Inv, Protected, AdminRemains, AdminRemainsUnlessRaced
<1> QED
  BY <1>1, InvInit, InvNext, PTL DEF Spec
-----------------------------------------------------------------------------
\* A deleted account is not active: a commit that comes late leaves it as it is.
GoneIsInactive == \A u \in Users : role[u] = "gone" => ~active[u]

\* What a step may do to an account that is deleted: the operations that change a
\* row ask for an account that exists, and the commit of one that was checked
\* before the deletion does not write it.
LEMMA GoneNext ==
  ASSUME TypeOK, GoneIsInactive, [Next]_vars, NEW u \in Users, role[u] = "gone"
  PROVE  role'[u] = "gone" /\ ~active'[u] /\ claims'[u] \subseteq claims[u]
<1> USE DEF TypeOK
<1>0. u \notin Existing /\ ~active[u]
  BY DEF GoneIsInactive, Existing, Roles
<1>1. CASE UNCHANGED vars
  BY <1>0, <1>1 DEF vars, accounts
<1>2. ASSUME NEW h \in Handlers, NEW op \in Operations, NEW w \in Users, Check(h, op, w)
      PROVE  UNCHANGED <<role, active, claims>>
  BY <1>2 DEF Check, accounts
<1>3. ASSUME NEW h \in Handlers, Apply(h)
      PROVE  role'[u] = "gone" /\ ~active'[u] /\ claims' = claims
  <2>1. claims' = claims /\ role'[u] = "gone"
    BY <1>3 DEF Apply
  <2>2. ~active'[u]
    <3>1. CASE request[h].user = u
      BY <1>0, <1>3, <3>1 DEF Apply
    <3>2. CASE request[h].user # u
      BY <1>0, <1>3, <3>2 DEF Apply
    <3> QED
      BY <3>1, <3>2
  <2> QED
    BY <2>1, <2>2
<1>4. ASSUME NEW w \in Users, NEW r \in Roles, AddUser(w, r)
      PROVE  w # u /\ role'[u] = role[u] /\ active'[u] = active[u] /\ claims' = claims
  BY <1>4 DEF AddUser
<1>5. ASSUME NEW w \in Users, Promote(w)
      PROVE  w # u /\ role'[u] = role[u] /\ active' = active /\ claims' = claims
  BY <1>5 DEF Promote
<1>6. ASSUME NEW w \in Users, Activate(w)
      PROVE  w # u /\ role' = role /\ active'[u] = active[u] /\ claims' = claims
  BY <1>0, <1>6 DEF Activate
<1>7. ASSUME NEW w \in Users, Login(w) \/ Refresh(w)
      PROVE  w # u /\ role' = role /\ active' = active /\ claims'[u] = claims[u]
  BY <1>0, <1>7 DEF Login, Refresh, Issue, accounts
<1>8. ASSUME NEW w \in Users, NEW r \in Roles, Expire(w, r)
      PROVE  role' = role /\ active' = active /\ claims'[u] \subseteq claims[u]
  BY <1>8 DEF Expire, accounts
<1> QED
  BY <1>0, <1>1, <1>2, <1>3, <1>4, <1>5, <1>6, <1>7, <1>8 DEF Next

\* Deletions are the only way out of the roles, and deactivate as well.
LEMMA InactiveNext == TypeOK /\ GoneIsInactive /\ [Next]_vars => GoneIsInactive'
<1> SUFFICES ASSUME TypeOK, GoneIsInactive, [Next]_vars, NEW u \in Users, role'[u] = "gone"
             PROVE  ~active'[u]
  BY DEF GoneIsInactive
<1>1. CASE role[u] = "gone"
  BY <1>1, GoneNext
<1>2. CASE role[u] # "gone"
  <2> USE DEF TypeOK, Roles, Operations
  <2>1. CASE UNCHANGED vars
    BY <1>2, <2>1 DEF vars, accounts
  <2>2. ASSUME NEW h \in Handlers, NEW op \in Operations, NEW w \in Users, Check(h, op, w)
        PROVE  FALSE
    BY <1>2, <2>2 DEF Check, accounts
  <2>3. ASSUME NEW h \in Handlers, Apply(h)
        PROVE  ~active'[u]
    <3>1. request[h].user = u /\ request[h].op = "delete"
      BY <1>2, <2>3 DEF Apply
    <3> QED
      BY <2>3, <3>1 DEF Apply
  <2>4. ASSUME NEW w \in Users, NEW r \in Roles, AddUser(w, r)
        PROVE  FALSE
    BY <1>2, <2>4 DEF AddUser
  <2>5. ASSUME NEW w \in Users, Promote(w)
        PROVE  FALSE
    BY <1>2, <2>5 DEF Promote
  <2>6. ASSUME NEW w \in Users,
               Activate(w) \/ Login(w) \/ Refresh(w) \/ \E r \in Roles : Expire(w, r)
        PROVE  FALSE
    BY <1>2, <2>6 DEF Activate, Login, Refresh, Expire, accounts
  <2> QED
    BY <2>1, <2>2, <2>3, <2>4, <2>5, <2>6 DEF Next
<1> QED
  BY <1>1, <1>2

\* A deleted user does not come back, for any number of users and of requests that
\* were checked before the deletion and commit after it, and no refresh of a token
\* that outlived the account gives it a new one.
THEOREM GoneForGood == Spec => DeletedStaysGone
<1>1. Init => TypeOK /\ GoneIsInactive
  <2> SUFFICES ASSUME Init PROVE TypeOK /\ GoneIsInactive
    OBVIOUS
  <2>1. TypeOK
    BY InvInit DEF Inv
  <2>2. GoneIsInactive
    BY DEF Init, GoneIsInactive
  <2> QED
    BY <2>1, <2>2
<1>2. TypeOK /\ GoneIsInactive /\ [Next]_vars => (TypeOK /\ GoneIsInactive)'
  BY TypeNext, InactiveNext
<1>3. TypeOK /\ GoneIsInactive /\ [Next]_vars
         => [\A u \in Users : role[u] = "gone" =>
                role'[u] = "gone" /\ ~active'[u] /\ claims'[u] \subseteq claims[u]]_vars
  BY GoneNext
<1> QED
  BY <1>1, <1>2, <1>3, PTL DEF Spec, DeletedStaysGone
-----------------------------------------------------------------------------
(***************************************************************************)
(* Comments.  The inductive invariant is the property and types, which say *)
(* that nothing is counted or hung up before it is written.                *)
(***************************************************************************)
Request == [op : {"none", "reply", "delete"}, on : Ids \cup {0}]

CommentTypes ==
    /\ made \in 0 .. MaxComments
    /\ parent \in [Ids -> 0 .. made]
    /\ deleted \in SUBSET Posted
    /\ replies \in [Ids -> Nat]
    /\ loaded \in [Writers -> Request]
\* Who is to reply or to delete has loaded a comment.
LoadedIsPosted == \A h \in Writers : loaded[h].op # "none" => loaded[h].on \in Posted
\* A row that is not there yet is counted nowhere and counts nothing.
Blank == \A c \in Ids \ Posted : parent[c] = 0 /\ replies[c] = 0

CommentsInv == CommentTypes /\ LoadedIsPosted /\ Blank /\ CountNeverOver

\* A comment's live replies can be counted.
LEMMA RepliesAreCounted ==
  ASSUME made \in Nat, NEW c
  PROVE  IsFiniteSet(LiveReplies(c)) /\ Cardinality(LiveReplies(c)) \in Nat
<1>1. LiveReplies(c) \in SUBSET (1 .. made)
  BY DEF LiveReplies, Live, Posted
<1>2. IsFiniteSet(1 .. made)
  BY FS_Interval
<1> QED
  BY <1>1, <1>2, FS_Subset, FS_CardinalityType

LEMMA CommentsInvInit == CommentsInit => CommentsInv
<1> SUFFICES ASSUME CommentsInit PROVE CommentsInv
  OBVIOUS
<1>1. Posted = {}
  BY DEF CommentsInit, Posted
<1> QED
  BY <1>1, BoundAssumption
  DEF CommentsInit, CommentsInv, CommentTypes, LoadedIsPosted, Blank, CountNeverOver, Request,
      NothingLoaded, Ids

\* A new row is one more live reply of its parent, and of no other comment.
LEMMA InsertCounts ==
  ASSUME CommentsInv, NEW p \in 0 .. made, Insert(p), UNCHANGED deleted
  PROVE  /\ made' \in 1 .. MaxComments /\ made' = made + 1 /\ Posted' = Posted \cup {made'}
         /\ made' \notin Posted /\ parent' \in [Ids -> 0 .. made'] /\ deleted \in SUBSET Posted'
         /\ \A c \in Ids \ Posted' : parent'[c] = 0
         /\ \A c \in Posted' : Cardinality(LiveReplies(c)') =
               Cardinality(LiveReplies(c)) + IF c = p THEN 1 ELSE 0
<1> USE DEF CommentsInv, CommentTypes
<1>1. made' \in 1 .. MaxComments /\ made' = made + 1 /\ made' \in Ids
  BY BoundAssumption DEF Insert, Ids
<1>2. Posted' = Posted \cup {made'} /\ made' \notin Posted /\ deleted \in SUBSET Posted'
  BY <1>1 DEF Posted
<1>3. parent' = [parent EXCEPT ![made'] = p]
  BY DEF Insert
<1>4. parent' \in [Ids -> 0 .. made']
  BY <1>1, <1>3
<1>5. \A c \in Ids \ Posted' : parent'[c] = 0
  BY <1>2, <1>3 DEF Blank
<1>6. ASSUME NEW c \in Posted'
      PROVE  Cardinality(LiveReplies(c)') =
                Cardinality(LiveReplies(c)) + IF c = p THEN 1 ELSE 0
  <2>1. c # 0 /\ Posted \subseteq Ids
    BY <1>1, BoundAssumption DEF Posted, Ids
  <2>2. Live' = Live \cup {made'} /\ made' \notin Live
    BY <1>2 DEF Live
  <2>3. \A d \in Live : parent'[d] = parent[d]
    BY <1>2, <1>3, <2>1 DEF Live
  <2>4. parent'[made'] = p
    BY <1>1, <1>3
  <2>5. LiveReplies(c)' = IF c = p THEN LiveReplies(c) \cup {made'} ELSE LiveReplies(c)
    BY <2>2, <2>3, <2>4 DEF LiveReplies
  <2>6. made' \notin LiveReplies(c)
    BY <2>2 DEF LiveReplies
  <2>7. IsFiniteSet(LiveReplies(c)) /\ Cardinality(LiveReplies(c)) \in Nat
    BY RepliesAreCounted
  <2>8. CASE c = p
    <3>1. Cardinality(LiveReplies(c) \cup {made'}) = Cardinality(LiveReplies(c)) + 1
      BY <2>6, <2>7, FS_AddElement
    <3> QED
      BY <2>5, <2>8, <3>1
  <2>9. CASE c # p
    BY <2>5, <2>7, <2>9
  <2> QED
    BY <2>8, <2>9
<1> QED
  BY <1>1, <1>2, <1>4, <1>5, <1>6

\* A deletion takes the comment from its parent's live replies, or has no effect on
\* them, when somebody else has deleted it since it was loaded.
LEMMA DeleteCounts ==
  ASSUME CommentsInv, NEW h \in Writers, Delete(h)
  PROVE  \A c \in Posted : Cardinality(LiveReplies(c)') >= 
            Cardinality(LiveReplies(c)) - IF parent[loaded[h].on] = c THEN 1 ELSE 0
<1> USE DEF CommentsInv, CommentTypes
<1> DEFINE x == loaded[h].on
<1> SUFFICES ASSUME NEW c \in Posted
             PROVE  Cardinality(LiveReplies(c)') >=
                       Cardinality(LiveReplies(c)) - IF parent[x] = c THEN 1 ELSE 0
  OBVIOUS
<1>1. Live' = Live \ {x}
  BY DEF Delete, Live, Posted
<1>2. LiveReplies(c)' = LiveReplies(c) \ {x}
  BY <1>1 DEF LiveReplies, Delete
<1>3. x \in LiveReplies(c) => parent[x] = c
  BY DEF LiveReplies
<1>4. IsFiniteSet(LiveReplies(c)) /\ Cardinality(LiveReplies(c)) \in Nat
  BY RepliesAreCounted
<1> HIDE DEF x
<1>5. Cardinality(LiveReplies(c) \ {x}) =
         IF x \in LiveReplies(c) THEN Cardinality(LiveReplies(c)) - 1 ELSE Cardinality(LiveReplies(c))
  BY <1>4, FS_RemoveElement
<1> QED
  BY <1>2, <1>3, <1>4, <1>5

LEMMA CommentsInvNext == CommentsInv /\ [CommentsNext]_commentVars => CommentsInv'
<1> SUFFICES ASSUME CommentsInv, [CommentsNext]_commentVars PROVE CommentsInv'
  OBVIOUS
<1> USE DEF CommentsInv, CommentTypes
<1>1. CASE UNCHANGED commentVars
  BY <1>1
  DEF commentVars, LoadedIsPosted, Blank, CountNeverOver, LiveReplies, Live, Posted
<1>2. CASE Post
  <2>1. Insert(0) /\ UNCHANGED deleted /\ UNCHANGED <<replies, loaded>> /\ 0 \in 0 .. made
    BY <1>2 DEF Post
  <2>2. /\ made' \in 1 .. MaxComments /\ made' = made + 1 /\ Posted' = Posted \cup {made'}
        /\ made' \notin Posted /\ parent' \in [Ids -> 0 .. made'] /\ deleted \in SUBSET Posted'
        /\ \A c \in Ids \ Posted' : parent'[c] = 0
        /\ \A c \in Posted' : Cardinality(LiveReplies(c)') =
              Cardinality(LiveReplies(c)) + IF c = 0 THEN 1 ELSE 0
    BY <2>1, InsertCounts
  <2>3. CommentTypes' /\ LoadedIsPosted' /\ Blank'
    BY <2>1, <2>2 DEF LoadedIsPosted, Blank
  <2>4. ASSUME NEW c \in Posted' PROVE replies[c] <= Cardinality(LiveReplies(c)')
    <3>1. c # 0 /\ made' \in Ids
      BY <2>2 DEF Posted, Ids
    <3>2. Cardinality(LiveReplies(c)') = Cardinality(LiveReplies(c))
          /\ Cardinality(LiveReplies(c)) \in Nat
      BY <2>2, <2>4, <3>1, RepliesAreCounted
    <3>3. replies[c] <= Cardinality(LiveReplies(c))
      BY <2>2, <2>4, <3>1, <3>2 DEF CountNeverOver, Blank
    <3> QED
      BY <3>2, <3>3
  <2> QED
    BY <2>1, <2>3, <2>4 DEF CountNeverOver
<1>3. ASSUME NEW h \in Writers, NEW op \in {"reply", "delete"}, NEW c \in Ids, Load(h, op, c)
      PROVE  CommentsInv'
  BY <1>3 DEF Load, Request, Live, LoadedIsPosted, Blank, CountNeverOver, LiveReplies, Posted
<1>4. ASSUME NEW h \in Writers, Reply(h) PROVE CommentsInv'
  <2> DEFINE p == loaded[h].on
  <2>1. p \in Posted /\ p \in 0 .. made /\ p \in Ids
    BY <1>4, BoundAssumption DEF Reply, LoadedIsPosted, Posted, Ids
  <2>2. /\ Insert(p) /\ UNCHANGED deleted /\ replies' = [replies EXCEPT ![p] = @ + 1]
        /\ loaded' = [loaded EXCEPT ![h] = NothingLoaded]
    BY <1>4 DEF Reply, Done
  <2> HIDE DEF p
  <2>3. /\ made' \in 1 .. MaxComments /\ made' = made + 1 /\ Posted' = Posted \cup {made'}
        /\ made' \notin Posted /\ parent' \in [Ids -> 0 .. made'] /\ deleted \in SUBSET Posted'
        /\ \A c \in Ids \ Posted' : parent'[c] = 0
        /\ \A c \in Posted' : Cardinality(LiveReplies(c)') =
              Cardinality(LiveReplies(c)) + IF c = p THEN 1 ELSE 0
    BY <2>1, <2>2, InsertCounts
  <2>4. CommentTypes'
    <3>1. replies' \in [Ids -> Nat]
      BY <2>1, <2>2
    <3>2. loaded' \in [Writers -> Request]
      BY <2>2 DEF Request, NothingLoaded
    <3>3. made' \in 0 .. MaxComments
      BY <2>3, BoundAssumption
    <3> QED
      BY <2>2, <2>3, <3>1, <3>2, <3>3
  <2>5. LoadedIsPosted'
    BY <2>2, <2>3 DEF LoadedIsPosted, NothingLoaded
  <2>6. Blank'
    BY <2>1, <2>2, <2>3 DEF Blank
  <2>7. ASSUME NEW c \in Posted' PROVE replies'[c] <= Cardinality(LiveReplies(c)')
    <3>1. c \in Ids
      BY <2>3, BoundAssumption DEF Posted, Ids
    <3>2. Cardinality(LiveReplies(c)) \in Nat
      BY RepliesAreCounted
    <3>3. replies[c] <= Cardinality(LiveReplies(c))
      BY <2>3, <2>7, <3>1, <3>2 DEF CountNeverOver, Blank
    <3>4. replies'[c] = replies[c] + IF c = p THEN 1 ELSE 0
      BY <2>1, <2>2, <3>1
    <3> QED
      BY <2>3, <2>7, <3>1, <3>2, <3>3, <3>4
  <2> QED
    BY <2>4, <2>5, <2>6, <2>7 DEF CountNeverOver
<1>5. ASSUME NEW h \in Writers, Delete(h) PROVE CommentsInv'
  <2> DEFINE x == loaded[h].on
  <2>1. x \in Posted /\ x \in Ids /\ parent[x] \in 0 .. made
    BY <1>5, BoundAssumption DEF Delete, LoadedIsPosted, Posted, Ids
  <2>2. /\ UNCHANGED <<made, parent>> /\ deleted' = deleted \cup {x}
        /\ loaded' = [loaded EXCEPT ![h] = NothingLoaded]
        /\ IF parent[x] = 0 THEN UNCHANGED replies ELSE Lower(parent[x])
    BY <1>5 DEF Delete, Done
  <2>3. \A c \in Posted : Cardinality(LiveReplies(c)') >=
           Cardinality(LiveReplies(c)) - IF parent[x] = c THEN 1 ELSE 0
    BY <1>5, DeleteCounts
  <2> HIDE DEF x
  <2>4. Posted' = Posted /\ Posted \subseteq Ids
    BY <2>2, BoundAssumption DEF Posted, Ids
  <2>5. /\ replies' \in [Ids -> Nat]
        /\ \A c \in Ids : replies'[c] =
              IF parent[x] = c /\ replies[c] > 0 THEN replies[c] - 1 ELSE replies[c]
    <3>1. CASE parent[x] = 0
      BY <2>2, <3>1 DEF Ids
    <3>2. CASE parent[x] # 0
      <4>1. parent[x] \in Ids
        BY <2>1, <3>2, BoundAssumption DEF Ids
      <4>2. replies' = [replies EXCEPT ![parent[x]] = IF @ = 0 THEN 0 ELSE @ - 1]
        BY <2>2, <3>2 DEF Lower
      <4> QED
        BY <4>1, <4>2
    <3> QED
      BY <3>1, <3>2
  <2>6. CommentTypes'
    BY <2>1, <2>2, <2>4, <2>5 DEF Request, NothingLoaded
  <2>7. LoadedIsPosted'
    BY <2>2, <2>4 DEF LoadedIsPosted, NothingLoaded
  <2>8. Blank'
    BY <2>2, <2>4, <2>5 DEF Blank
  <2>9. ASSUME NEW c \in Posted PROVE replies'[c] <= Cardinality(LiveReplies(c)')
    <3>1. Cardinality(LiveReplies(c)) \in Nat
      BY RepliesAreCounted
    <3>2. Cardinality(LiveReplies(c)') \in Nat
      <4>1. LiveReplies(c)' \in SUBSET LiveReplies(c)
        BY <2>2, <2>4 DEF LiveReplies, Live
      <4> QED
        BY <4>1, RepliesAreCounted, FS_Subset, FS_CardinalityType
    <3>3. replies[c] <= Cardinality(LiveReplies(c)) /\ replies[c] \in Nat
      BY <2>4, <2>9 DEF CountNeverOver
    <3> QED
      BY <2>3, <2>4, <2>5, <2>9, <3>1, <3>2, <3>3
  <2> QED
    BY <2>4, <2>6, <2>7, <2>8, <2>9 DEF CountNeverOver
<1> QED
  BY <1>1, <1>2, <1>3, <1>4, <1>5 DEF CommentsNext

\* For any number of comments, nested to any depth, and of requests that reply to or
\* delete what others reply to and delete: a comment is never counted to have more
\* replies than it has, so none is listed for the sake of replies that are gone.
THEOREM NeverCountedOver == CommentsSpec => []CountNeverOver
<1>1. CommentsInv => CountNeverOver
  BY DEF CommentsInv
<1> QED
  BY <1>1, CommentsInvInit, CommentsInvNext, PTL DEF CommentsSpec
================================================================================
