---------------------------- MODULE WebPagesProofs ----------------------------
(***************************************************************************)
(* Theorems about the pages of the web application: the panels, for every  *)
(* catalogue of panels and any bounds, and the glossary, for any tree.     *)
(***************************************************************************)
EXTENDS PanelsProperties, GlossaryTree, SequenceTheorems, FiniteSetTheorems, WellFoundedInduction, TLAPS

(***************************************************************************)
(* The inductive invariant: the panel is one of the catalogue, a flag that *)
(* an operation holds is set, and one operation holds it.                  *)
(***************************************************************************)
FromCatalog == \E n \in DOMAIN Catalog : panel.ops = Catalog[n].ops
HasFlags == DOMAIN busy = Flags
JobsAreNamed == \A j \in jobs : "op" \in DOMAIN j
HolderIsMarked == \A f \in Exclusive : \A j \in jobs : Holds(j, f) => busy[f] # None

Inv == /\ FromCatalog /\ HasFlags /\ key # None
       /\ JobsAreNamed /\ HolderIsMarked /\ OneAtATime

(***************************************************************************)
(* Jobs and their operations.                                              *)
(***************************************************************************)
\* Operations of the panel are told apart by their names.
LEMMA Named ==
  ASSUME FromCatalog
  PROVE  \A o, q \in panel.ops : (o.name = q.name => o = q) /\ o.name \notin {"effect", "after", "workflow", "stray"}
BY OneName DEF FromCatalog

\* The operation of a job is the one of its name.
LEMMA OperationOf ==
  ASSUME FromCatalog, NEW j, NEW o \in panel.ops, o.name = j.op
  PROVE  IsOp(j) /\ OpOf(j) = o
BY Named DEF IsOp, OpOf

\* What a job holds depends on its name only.
LEMMA HoldsByName ==
  ASSUME FromCatalog, NEW i, NEW j, i.op = j.op, NEW f, Holds(i, f)
  PROVE  Holds(j, f)
<1>1. PICK o \in panel.ops : o.name = i.op
  BY DEF Holds, IsOp
<1>2. OpOf(i) = o /\ IsOp(j) /\ OpOf(j) = o
  BY <1>1, OperationOf
<1> QED
  BY <1>2 DEF Holds

\* Fetches that follow an operation, those of an effect and what a workflow does
\* hold nothing.
LEMMA OthersHoldNothing ==
  ASSUME FromCatalog, NEW j, j.op \in {"effect", "after", "workflow", "stray"}, NEW f
  PROVE  ~Holds(j, f)
BY Named DEF Holds, IsOp

\* After sending, every job was there before, or is one of the new ones.
LEMMA Sent ==
  ASSUME NEW js, NEW new, NEW ps, NEW s, \A j \in js \cup new : "op" \in DOMAIN j
  PROVE  \A j \in Sending(js, new, ps, s) :
            /\ "op" \in DOMAIN j
            /\ \/ \E i \in js : j = [i EXCEPT !.late = @ \cup (ps \cup Fetched(new))] /\ j.op = i.op
               \/ \E i \in new : j = Begun(i, js, s) /\ j.op = i.op
BY DEF Sending, Overtaken, Begun

Others == {"effect", "after", "workflow", "stray"}
HoldersOf(js, f) == {j \in js : Holds(j, f)}
AtMostOne(js) == \A i, j \in js : i = j

\* Sending adds no holder of a flag and keeps them apart.
LEMMA SentHolders ==
  ASSUME FromCatalog, NEW js, NEW new, NEW ps, NEW s, \A j \in js \cup new : "op" \in DOMAIN j,
         NEW f, AtMostOne(HoldersOf(js, f)), AtMostOne(HoldersOf(new, f)),
         HoldersOf(js, f) = {} \/ HoldersOf(new, f) = {}
  PROVE  /\ AtMostOne(HoldersOf(Sending(js, new, ps, s), f))
         /\ HoldersOf(js, f) = {} /\ HoldersOf(new, f) = {} => HoldersOf(Sending(js, new, ps, s), f) = {}
<1>1. \A j \in HoldersOf(Sending(js, new, ps, s), f) :
         \/ \E i \in HoldersOf(js, f) : j = [i EXCEPT !.late = @ \cup (ps \cup Fetched(new))]
         \/ \E i \in HoldersOf(new, f) : j = Begun(i, js, s)
  <2> TAKE j \in HoldersOf(Sending(js, new, ps, s), f)
  <2>1. j \in Sending(js, new, ps, s) /\ Holds(j, f)
    BY DEF HoldersOf
  <2>2. CASE \E i \in js : j = [i EXCEPT !.late = @ \cup (ps \cup Fetched(new))] /\ j.op = i.op
    BY <2>1, <2>2, HoldsByName DEF HoldersOf
  <2>3. CASE \E i \in new : j = Begun(i, js, s) /\ j.op = i.op
    BY <2>1, <2>3, HoldsByName DEF HoldersOf
  <2> QED
    BY <2>1, <2>2, <2>3, Sent
<1> QED
  BY <1>1 DEF AtMostOne

(***************************************************************************)
(* Steps.                                                                  *)
(***************************************************************************)
\* A job that is answered is replaced by jobs that follow from it; its flag is
\* cleared if none of them holds one.
LEMMA Answered ==
  ASSUME Inv, NEW j \in jobs, NEW new, NEW ps, NEW s,
         jobs' = Sending(jobs \ {j}, new, ps, s), UNCHANGED <<panel, key>>,
         \A i \in new : "op" \in DOMAIN i,
         \/ \A i \in new : i.op \in Others
         \/ (\A i \in new : i.op = j.op \/ i.op \in Others)
            /\ (\A i, k \in new : i.op \notin Others /\ k.op \notin Others => i = k) /\ busy' = busy,
         NEW ended, busy' = Freed(j, ended)
  PROVE  Inv'
<1>1. \A i, f : Holds(i, f)' <=> Holds(i, f)
  BY DEF Holds, IsOp, OpOf
<1>2. FromCatalog' /\ key' # None /\ Exclusive' = Exclusive /\ Flags' = Flags
  BY DEF Inv, FromCatalog, Exclusive, Flags
<1>3. HasFlags'
  BY <1>2 DEF Inv, HasFlags, Freed
<1>4. \A i \in (jobs \ {j}) \cup new : "op" \in DOMAIN i
  BY DEF Inv, JobsAreNamed
<1>5. JobsAreNamed'
  BY <1>4, Sent DEF JobsAreNamed
<1>6. ASSUME NEW f \in Exclusive
      PROVE  AtMostOne(HoldersOf(jobs', f)) /\ (HoldersOf(jobs', f) # {} => busy'[f] # None)
  <2>1. AtMostOne(HoldersOf(jobs, f)) /\ (HoldersOf(jobs, f) # {} => busy[f] # None)
    BY <1>6 DEF Inv, OneAtATime, HolderIsMarked, AtMostOne, HoldersOf
  <2>2. AtMostOne(HoldersOf(jobs \ {j}, f)) /\ HoldersOf(jobs \ {j}, f) \subseteq HoldersOf(jobs, f)
    BY <2>1 DEF AtMostOne, HoldersOf
  <2>3. ASSUME NEW i \in HoldersOf(new, f) PROVE i.op \notin Others
    BY <2>3, OthersHoldNothing DEF Inv, HoldersOf, Others
  <2>4. CASE HoldersOf(new, f) = {}
    <3>0. AtMostOne(HoldersOf(new, f))
      BY <2>4 DEF AtMostOne
    <3>1. AtMostOne(HoldersOf(jobs', f)) /\ (HoldersOf(jobs \ {j}, f) = {} => HoldersOf(jobs', f) = {})
      BY <1>4, <2>2, <2>4, <3>0, SentHolders DEF Inv
    <3>2. HoldersOf(jobs \ {j}, f) # {} => busy'[f] # None
      <4>1. ASSUME HoldersOf(jobs \ {j}, f) # {} PROVE ~Holds(j, f) /\ busy[f] # None
        BY <2>1, <2>2, <4>1 DEF AtMostOne, HoldersOf
      <4> QED
        BY <4>1 DEF Freed, Holds
    <3> QED
      BY <3>1, <3>2
  <2>5. CASE HoldersOf(new, f) # {}
    <3>1. PICK i \in new : Holds(i, f) /\ i.op = j.op
      BY <2>3, <2>5 DEF HoldersOf
    <3>2. busy' = busy /\ AtMostOne(HoldersOf(new, f))
      BY <2>3, <3>1 DEF AtMostOne, HoldersOf
    <3>3. Holds(j, f)
      BY <3>1, HoldsByName DEF Inv
    <3>4. HoldersOf(jobs \ {j}, f) = {}
      BY <2>1, <3>3 DEF AtMostOne, HoldersOf
    <3>5. AtMostOne(HoldersOf(jobs', f))
      BY <1>4, <2>2, <3>2, <3>4, SentHolders DEF Inv
    <3> QED
      BY <2>1, <3>2, <3>3, <3>5 DEF HoldersOf
  <2> QED
    BY <2>4, <2>5
<1>7. HolderIsMarked' /\ OneAtATime'
  BY <1>1, <1>2, <1>6 DEF HolderIsMarked, OneAtATime, AtMostOne, HoldersOf
<1> QED
  BY <1>2, <1>3, <1>5, <1>7 DEF Inv

\* What follows an operation holds nothing; its next step is one job.
LEMMA Follows ==
  ASSUME Inv, NEW j \in jobs
  PROVE  /\ \A i \in After(j) : "op" \in DOMAIN i /\ i.op \in Others
         /\ \A i \in Further(j) : "op" \in DOMAIN i
         /\ Len(j.todo) = 1 => \A i \in Further(j) : i.op \in Others
         /\ \A i \in Further(j) : i.op = j.op \/ i.op \in Others
         /\ \A i, k \in Further(j) : i.op \notin Others /\ k.op \notin Others => i = k
<1>1. "op" \in DOMAIN j
  BY DEF Inv, JobsAreNamed
<1>2. \A i \in After(j) : "op" \in DOMAIN i /\ i.op \in Others
  BY DEF After, Job, Others
<1>3. CASE Len(j.todo) > 1
  <2>1. ~(1 > 1)
    OBVIOUS
  <2>2. Len(j.todo) # 1
    BY <1>3, <2>1, Zenon
  <2>3. Further(j) = {[j EXCEPT !.todo = Tail(@)]}
    BY <1>3 DEF Further
  <2> QED
    BY <1>1, <1>2, <2>2, <2>3
<1>4. CASE ~(Len(j.todo) > 1)
  <2>1. Further(j) \subseteq After(j)
    BY <1>4 DEF Further
  <2> QED
    BY <1>2, <2>1
<1> QED
  BY <1>3, <1>4

\* A job goes on with what follows, keeping its flag until its last step is over,
\* or it ends, whether or not its flag is cleared.
LEMMA GoesOn ==
  ASSUME Inv, NEW j \in jobs, NEW new, NEW s, NEW ended,
         jobs' = Sending(jobs \ {j}, new, {}, s), UNCHANGED <<panel, key>>, busy' = Freed(j, ended),
         \/ \A i \in new : "op" \in DOMAIN i /\ i.op \in Others
         \/ /\ \E w : new = Further(j) \cup w /\ \A i \in w : "op" \in DOMAIN i /\ i.op \in Others
            /\ ended => Len(j.todo) = 1
  PROVE  Inv'
<1> DEFINE Light == \A i \in new : "op" \in DOMAIN i /\ i.op \in Others
<1>1. CASE Light
  BY <1>1, Answered
<1>2. PICK w :
        \/ Light
        \/ /\ new = Further(j) \cup w
           /\ \A i \in w : "op" \in DOMAIN i /\ i.op \in Others
           /\ ended => Len(j.todo) = 1
  OBVIOUS
<1>3. CASE ~Light /\ ended
  <2>1. \A i \in new : "op" \in DOMAIN i /\ i.op \in Others
    BY <1>2, <1>3, Follows
  <2> QED
    BY <2>1, Answered
<1>4. CASE ~Light /\ ~ended
  <2>1. \A i \in new : "op" \in DOMAIN i /\ (i.op = j.op \/ i.op \in Others)
    BY <1>2, <1>4, Follows
  <2>2. \A i, k \in new : i.op \notin Others /\ k.op \notin Others => i = k
    BY <1>2, <1>4, Follows
  <2>3. busy' = busy
    BY <1>4 DEF Freed
  <2> QED
    BY <2>1, <2>2, <2>3, Answered
<1> QED
  BY <1>1, <1>3, <1>4

\* Most steps go on with just what follows.
LEMMA Continues ==
  ASSUME Inv, NEW j \in jobs, NEW s, NEW ended, ended => Len(j.todo) = 1,
         jobs' = Sending(jobs \ {j}, Further(j), {}, s), UNCHANGED <<panel, key>>, busy' = Freed(j, ended)
  PROVE  Inv'
<1> DEFINE w == {}
           new == Further(j)
<1>1. new = Further(j) \cup w
  OBVIOUS
<1>2. \A i \in w : "op" \in DOMAIN i /\ i.op \in Others
  OBVIOUS
<1>3. jobs' = Sending(jobs \ {j}, new, {}, s)
  OBVIOUS
<1> HIDE DEF new, w
<1>4. \E v : new = Further(j) \cup v /\ \A i \in v : "op" \in DOMAIN i /\ i.op \in Others
  BY <1>1, <1>2
<1> QED
  BY <1>3, <1>4, GoesOn

\* Every step keeps the invariant.
LEMMA InvNext == Inv /\ [PanelNext]_vars => Inv'
<1> SUFFICES ASSUME Inv, [PanelNext]_vars PROVE Inv'
  OBVIOUS
<1>1. CASE UNCHANGED vars
  BY <1>1 DEF vars, Inv, FromCatalog, HasFlags, Flags, JobsAreNamed, HolderIsMarked, OneAtATime, Exclusive, Holds, IsOp, OpOf
<1>2. ASSUME NEW k \in Keys, Select(k) PROVE Inv'
  <2> DEFINE new == Effects(panel.select, k)
             kept == Left(jobs)
  <2>1. /\ jobs' = Sending(kept, new, {}, srv) /\ panel' = panel /\ key' = k
        /\ busy' = [f \in Flags |-> IF f \in panel.forgets THEN None ELSE busy[f]]
    BY <1>2 DEF Select
  <2>2. \A i, f : Holds(i, f)' <=> Holds(i, f)
    BY <2>1 DEF Holds, IsOp, OpOf
  <2>3. \A i \in kept \cup new : "op" \in DOMAIN i
    BY DEF Inv, JobsAreNamed, Effects, Job, Left
  <2>9. ASSUME NEW f, NEW j \in HoldersOf(kept, f)
        PROVE  \E i \in HoldersOf(jobs, f) : j = [i EXCEPT !.gone = panel.forgets # {}]
    <3>1. PICK i \in jobs : j = [i EXCEPT !.gone = panel.forgets # {}]
      BY <2>9 DEF Left, HoldersOf
    <3>2. j.op = i.op /\ Holds(j, f)
      BY <2>9, <3>1 DEF HoldersOf, Inv, JobsAreNamed
    <3> QED BY <3>1, <3>2, HoldsByName DEF HoldersOf, Inv
  <2>4. ASSUME NEW f \in Exclusive
        PROVE  AtMostOne(HoldersOf(jobs', f)) /\ (HoldersOf(jobs', f) # {} => busy'[f] # None)
    <3>1. HoldersOf(new, f) = {}
      BY OthersHoldNothing DEF Inv, HoldersOf, Effects, Job
    <3>0. AtMostOne(HoldersOf(jobs, f)) /\ (HoldersOf(jobs, f) # {} => busy[f] # None)
      BY <2>4 DEF Inv, OneAtATime, HolderIsMarked, AtMostOne, HoldersOf
    <3>2. AtMostOne(HoldersOf(kept, f)) /\ AtMostOne(HoldersOf(new, f))
      BY <2>9, <3>0, <3>1 DEF AtMostOne
    <3>4. f \in Flags /\ f \notin panel.forgets
      BY <2>4 DEF Exclusive, Flags
    <3>3. HoldersOf(kept, f) # {} => busy'[f] # None
      BY <2>1, <2>9, <3>0, <3>4
    <3> HIDE DEF new, kept
    <3> QED
      BY <2>1, <2>3, <3>1, <3>2, <3>3, SentHolders DEF Inv
  <2>5. JobsAreNamed'
    <3> HIDE DEF new, kept
    <3> QED
      BY <2>1, <2>3, Sent DEF JobsAreNamed
  <2>6. HolderIsMarked' /\ OneAtATime'
    BY <2>1, <2>2, <2>4 DEF HolderIsMarked, OneAtATime, AtMostOne, HoldersOf, Exclusive
  <2> QED
    BY <2>1, <2>5, <2>6, SomeKeys DEF Inv, FromCatalog, HasFlags, Flags
<1>3. ASSUME NEW o \in panel.ops, Click(o) PROVE Inv'
  <2> DEFINE j == Job(o.name, Object(o), o.steps)
             new == IF o.steps = <<>> THEN After(j) ELSE {j}
  <2>1. /\ jobs' = Sending(jobs, new, o.typed, srv) /\ UNCHANGED <<panel, key>> /\ Offered(o)
        /\ busy' = IF o.flag # NoFlag /\ o.steps # <<>> THEN [busy EXCEPT ![o.flag] = key] ELSE busy
    BY <1>3 DEF Click
  <2>2. \A i, f : Holds(i, f)' <=> Holds(i, f)
    BY <2>1 DEF Holds, IsOp, OpOf
  <2>3. \A i \in jobs \cup new : "op" \in DOMAIN i
    BY DEF Inv, JobsAreNamed, After, Job
  <2>4. OpOf(j) = o
    BY OperationOf DEF Inv, Job
  <2>5. ASSUME NEW f \in Exclusive
        PROVE  AtMostOne(HoldersOf(jobs', f)) /\ (HoldersOf(jobs', f) # {} => busy'[f] # None)
    <3>1. AtMostOne(HoldersOf(jobs, f)) /\ (HoldersOf(jobs, f) # {} => busy[f] # None)
      BY <2>5 DEF Inv, OneAtATime, HolderIsMarked, AtMostOne, HoldersOf
    <3>2. f \in DOMAIN busy /\ key # None
      BY <2>5 DEF Inv, HasFlags, Exclusive, Flags
    <3>3. CASE o.steps = <<>> \/ o.flag # f
      <4>1. HoldersOf(new, f) = {}
        <5>1. CASE o.steps = <<>>
          <6>1. \A i \in new : i.op = "after"
            BY <5>1 DEF After, Job
          <6> QED
            BY <6>1, OthersHoldNothing DEF Inv, HoldersOf
        <5>2. CASE o.steps # <<>>
          BY <2>4, <3>3, <5>2 DEF HoldersOf, Holds
        <5> QED
          BY <5>1, <5>2
      <4>2. HoldersOf(jobs, f) # {} => busy'[f] # None
        BY <2>1, <3>1, <3>2, <3>3
      <4>3. AtMostOne(HoldersOf(new, f))
        BY <4>1 DEF AtMostOne
      <4> HIDE DEF new
      <4> QED
        BY <2>1, <2>3, <3>1, <4>1, <4>2, <4>3, SentHolders DEF Inv
    <3>4. CASE o.steps # <<>> /\ o.flag = f
      <4>1. busy[f] = None
        BY <2>1, <2>5, <3>4 DEF Offered, Exclusive
      <4>2. HoldersOf(jobs, f) = {} /\ AtMostOne(HoldersOf(new, f))
        BY <3>1, <3>4, <4>1 DEF AtMostOne, HoldersOf
      <4>3. busy'[f] # None
        BY <2>1, <2>5, <3>2, <3>4 DEF Exclusive
      <4> HIDE DEF new
      <4> QED
        BY <2>1, <2>3, <3>1, <4>2, <4>3, SentHolders DEF Inv
    <3> QED
      BY <3>3, <3>4
  <2>6. JobsAreNamed'
    <3> HIDE DEF new
    <3> QED
      BY <2>1, <2>3, Sent DEF JobsAreNamed
  <2>7. HolderIsMarked' /\ OneAtATime'
    BY <2>1, <2>2, <2>5 DEF HolderIsMarked, OneAtATime, AtMostOne, HoldersOf, Exclusive
  <2> QED
    BY <2>1, <2>6, <2>7 DEF Inv, FromCatalog, HasFlags, Flags
<1>4. ASSUME NEW j \in jobs, Answers(j) PROVE Inv'
  <2>1. "op" \in DOMAIN j
    BY DEF Inv, JobsAreNamed
  <2>2. busy = Freed(j, FALSE)
    BY DEF Freed
  <2>3. CASE CallDone(j)
    <3>1. CASE Head(j.todo).tells
      <4> DEFINE new == {[j EXCEPT !.todo[1] = Answer(@)]}
      <4>1. jobs' = Sending(jobs \ {j}, new, {}, srv') /\ UNCHANGED <<panel, key>> /\ busy' = busy
        BY <2>3, <3>1, <2>2 DEF CallDone, Freed
      <4>2. \A i \in new : "op" \in DOMAIN i /\ i.op = j.op
        BY <2>1
      <4>3. \A i, k \in new : i = k
        OBVIOUS
      <4> HIDE DEF new
      <4> QED
        BY <2>2, <4>1, <4>2, <4>3, Answered
    <3>2. CASE ~Head(j.todo).tells
      <4>1. /\ jobs' = Sending(jobs \ {j}, Further(j), {}, srv') /\ UNCHANGED <<panel, key>>
            /\ busy' = Freed(j, Len(j.todo) = 1)
        BY <2>3, <3>2 DEF CallDone
      <4> QED
        BY <4>1, Continues
    <3> QED
      BY <3>1, <3>2
  <2>4. CASE CallTaken(j)
    <3> DEFINE w == {Job("workflow", j.key, <<Call(Head(j.todo).parts)>>)}
    <3>1. /\ jobs' = Sending(jobs \ {j}, Further(j) \cup w, {}, srv) /\ UNCHANGED <<panel, key>>
          /\ busy' = Freed(j, Len(j.todo) = 1)
      BY <2>4 DEF CallTaken
    <3>2. \A i \in w : "op" \in DOMAIN i /\ i.op \in Others
      BY DEF Job, Others
    <3> HIDE DEF w
    <3> QED
      BY <3>1, <3>2, GoesOn
  <2>5. CASE FetchDone(j)
    <3>1. /\ jobs' = Sending(jobs \ {j}, Further(j), {}, srv) /\ UNCHANGED <<panel, key>>
          /\ busy' = Freed(j, Len(j.todo) = 1)
      BY <2>5 DEF FetchDone
    <3> QED
      BY <3>1, Continues
  <2>6. ASSUME NEW how \in AnyFailure, FetchFails(j, how) PROVE Inv'
    <3> DEFINE goesOn == how \in Head(j.todo).deaf
               ended == (Len(j.todo) = 1 \/ ~goesOn) /\ (IsOp(j) => how \notin OpOf(j).hangs)
    <3>1. /\ jobs' = Sending(jobs \ {j}, IF goesOn THEN Further(j) ELSE {}, {}, srv)
          /\ UNCHANGED <<panel, key>> /\ busy' = Freed(j, ended)
      BY <2>6 DEF FetchFails
    <3>2. CASE goesOn
      <4>1. ended => Len(j.todo) = 1
        BY <3>2
      <4> HIDE DEF ended
      <4> QED
        BY <3>1, <3>2, <4>1, Continues
    <3>3. CASE ~goesOn
      <4> HIDE DEF ended
      <4> QED
        BY <3>1, <3>3, GoesOn
    <3> QED
      BY <3>2, <3>3
  <2>7. ASSUME NEW how \in AnyFailure, NEW did \in BOOLEAN, CallFails(j, how, did) PROVE Inv'
    <3> DEFINE goesOn == how \in Head(j.todo).deaf
               ended == (Len(j.todo) = 1 \/ ~goesOn) /\ how \notin OpOf(j).hangs
    <3>1. PICK rest :
            /\ rest = {} \/ \E first, last : rest = Strays(j, first, last)
            /\ jobs' = Sending(jobs \ {j}, (IF goesOn THEN Further(j) ELSE IF OpOf(j).anyway THEN After(j) ELSE {})
                                                \cup rest, {}, srv')
            /\ UNCHANGED <<panel, key>> /\ busy' = Freed(j, ended)
      BY <2>7 DEF CallFails
    <3>4. \A i \in rest : "op" \in DOMAIN i /\ i.op \in Others
      BY <3>1 DEF Strays, Job, Others
    <3>2. CASE goesOn
      <4>1. ended => Len(j.todo) = 1
        BY <3>2
      <4>2. jobs' = Sending(jobs \ {j}, Further(j) \cup rest, {}, srv')
        BY <3>1, <3>2
      <4> HIDE DEF ended
      <4> QED
        BY <3>1, <3>4, <4>1, <4>2, GoesOn
    <3>3. CASE ~goesOn
      <4> DEFINE new == (IF OpOf(j).anyway THEN After(j) ELSE {}) \cup rest
      <4>1. jobs' = Sending(jobs \ {j}, new, {}, srv') /\ \A i \in new : "op" \in DOMAIN i /\ i.op \in Others
        BY <3>1, <3>3, <3>4, Follows
      <4> HIDE DEF ended, new
      <4> QED
        BY <3>1, <4>1, GoesOn
    <3> QED
      BY <3>2, <3>3
  <2> QED
    BY <1>4, <2>3, <2>4, <2>5, <2>6, <2>7 DEF Answers
<1> QED
  BY <1>1, <1>2, <1>3, <1>4 DEF PanelNext

(***************************************************************************)
(* The theorem.                                                            *)
(***************************************************************************)
\* When a panel opens its effects are under way and no button is disabled.
LEMMA InvInit == PanelInit => Inv
<1> SUFFICES ASSUME PanelInit PROVE Inv
  OBVIOUS
<1>1. FromCatalog
  BY Described DEF PanelInit, FromCatalog
<1>2. HasFlags /\ key # None
  BY SomeKeys DEF PanelInit, HasFlags
<1> DEFINE new == Effects(panel.mount, 1)
<1>3. \A i \in new : "op" \in DOMAIN i /\ i.op = "effect"
  BY DEF Effects, Job
<1>4. jobs = Sending({}, new, {}, srv)
  BY DEF PanelInit
<1> HIDE DEF new
<1>5. JobsAreNamed /\ \A j \in jobs : j.op = "effect"
  BY <1>3, <1>4, Sent DEF JobsAreNamed
<1>6. \A f, j : j \in jobs => ~Holds(j, f)
  BY <1>1, <1>5, OthersHoldNothing
<1> QED
  BY <1>1, <1>2, <1>5, <1>6 DEF Inv, HolderIsMarked, OneAtATime

\* Whatever panels there are, and however many jobs, clicks and selections: operations
\* behind one flag exclude each other until they have ended (the saving, testing and
\* loading flags of the panels, tags/page.tsx, notify-settings.tsx ...), where a
\* selection does not mount the component anew.
THEOREM OneAtATimeHolds == PanelSpec => []OneAtATime
<1>1. Inv => OneAtATime
  BY DEF Inv
<1> QED
  BY InvInit, InvNext, <1>1, PTL DEF PanelSpec
-----------------------------------------------------------------------------
(***************************************************************************)
(* What follows the selection.  The invariant: a job that brings a part is *)
(* for what is selected, unless its answer is late or dropped, and what is *)
(* shown of the part is for what is selected, unless a job is to bring it. *)
(***************************************************************************)
OfCatalog == \E n \in DOMAIN Catalog : panel = [Catalog[n] EXCEPT !.name = n]

JobFields(j) == {"op", "key", "todo", "id", "seen", "late"} \subseteq DOMAIN j
JobShape(j) ==
    /\ JobFields(j)
    /\ j.todo \in Seq(StepsOn(Parts)) /\ j.todo # <<>>
    /\ IsOp(j) => OpOf(j).steps # <<>>
RowShape(r) == {"key", "val", "latest"} \subseteq DOMAIN r

Follower(p) == p \in panel.keyed /\ (Empties(panel, p) \/ KeepsUp(panel, p))
Meant(j, p, k, late) ==
    Brings(j.todo, p) =>
        /\ Empties(panel, p) \/ FetchOf(j.todo, p)
        /\ panel.drops => j.op = "effect"
        /\ panel.drops \/ p \notin late => j.key = k
JobsFollow == \A j \in jobs : JobShape(j) /\ \A p \in Parts : Follower(p) => Meant(j, p, key, j.late)

\* Shown for what is selected, or not at all.
Certain(r, p, k) == r.key \in {None, KeyOf(p, k)} /\ (r.val # None => r.key # None)
Awaited(p, js) == \E j \in js : Brings(j.todo, p)
RowsFollow ==
    /\ DOMAIN shown = Parts
    /\ \A p \in Parts :
         /\ RowShape(shown[p])
         /\ p \notin panel.keyed \/ Empties(panel, p) => Certain(shown[p], p, key)
         /\ p \in panel.keyed /\ KeepsUp(panel, p) /\ shown[p].val # None =>
              /\ ~panel.drops /\ shown[p].latest => shown[p].key = key
              /\ panel.drops /\ p \notin missed => shown[p].key = key \/ Awaited(p, jobs)

FollowInv == OfCatalog /\ key \in Keys /\ JobsFollow /\ RowsFollow

\* The catalogue speaks of the panel that is open.
LEMMA PanelIsListed ==
  ASSUME OfCatalog
  PROVE  /\ FromCatalog
         /\ \A t \in panel.mount \cup panel.select : t \in Seq(StepsOn(Parts)) /\ t # <<>>
         /\ \A o \in panel.ops : o.steps \in Seq(StepsOn(Parts)) /\ o.typed \subseteq Parts
         /\ \A o \in panel.ops : \A t \in o.after : t \in Seq(StepsOn(Parts)) /\ t # <<>>
         /\ panel.name \notin StaleReloads =>
              \A p \in panel.keyed : p \in Parts /\ (Empties(panel, p) \/ KeepsUp(panel, p))
         /\ panel.name \notin LateAnswers =>
              \A o \in panel.ops : \A p \in o.uses :
                /\ p \in Parts /\ (p \notin panel.keyed \/ Empties(panel, p))
                /\ p \in o.needs \/ panel.name \in BlindForms
<1>1. PICK n \in DOMAIN Catalog : panel = [Catalog[n] EXCEPT !.name = n]
  BY DEF OfCatalog
<1> DEFINE c == Catalog[n]
<1>2. /\ panel.name = n /\ panel.parts = c.parts /\ panel.keyed = c.keyed /\ panel.mount = c.mount
      /\ panel.select = c.select /\ panel.drops = c.drops /\ panel.clears = c.clears /\ panel.ops = c.ops
  BY <1>1, Described
<1>3. FromCatalog
  BY <1>2 DEF FromCatalog
<1>4. \A p : (Empties(panel, p) <=> Empties(c, p)) /\ (KeepsUp(panel, p) <=> KeepsUp(c, p))
  BY <1>2 DEF Empties, KeepsUp
<1>5. /\ c.mount \cup c.select \cup UNION {o.after : o \in c.ops} \subseteq Seq(StepsOn(c.parts)) \ {<<>>}
      /\ \A o \in c.ops : o.steps \in Seq(StepsOn(c.parts)) /\ o.typed \subseteq c.parts
  BY InSteps
<1>6. \A t \in panel.mount \cup panel.select : t \in Seq(StepsOn(Parts)) /\ t # <<>>
  BY <1>2, <1>5 DEF Parts
<1>7. \A o \in panel.ops : o.steps \in Seq(StepsOn(Parts)) /\ o.typed \subseteq Parts
  BY <1>2, <1>5, Zenon DEF Parts
<1>8. \A o \in panel.ops : \A t \in o.after : t \in Seq(StepsOn(Parts)) /\ t # <<>>
  BY <1>2, <1>5 DEF Parts
<1>9. panel.name \notin StaleReloads =>
        \A p \in panel.keyed : p \in Parts /\ (Empties(panel, p) \/ KeepsUp(panel, p))
  BY <1>2, <1>4, FollowTheSelection DEF Parts
<1>10. panel.name \notin LateAnswers =>
         \A o \in panel.ops : \A p \in o.uses :
           /\ p \in Parts /\ (p \notin panel.keyed \/ Empties(panel, p))
           /\ p \in o.needs \/ panel.name \in BlindForms
  BY <1>2, <1>4, ActOnWhatFollows DEF Parts
<1> QED
  BY <1>3, <1>6, <1>7, <1>8, <1>9, <1>10

\* The steps that are left after the first bring no more than before.
LEMMA StepsLeft ==
  ASSUME NEW S, NEW t \in Seq(S), t # <<>>
  PROVE  /\ 1 \in DOMAIN t /\ Head(t) = t[1] /\ t[1] \in S /\ Len(t) >= 1
         /\ Len(t) > 1 => /\ Tail(t) \in Seq(S) /\ Tail(t) # <<>>
                          /\ \A p : Brings(Tail(t), p) => Brings(t, p)
<1>0. Len(t) \in Nat \ {0} /\ t \in [1..Len(t) -> S] /\ Tail(t) \in Seq(S) /\ Len(Tail(t)) = Len(t) - 1
  BY EmptySeq, LenProperties, HeadTailProperties
<1>1. 1 \in DOMAIN t /\ Head(t) = t[1] /\ t[1] \in S /\ Len(t) >= 1
  BY <1>0
<1>2. ASSUME Len(t) > 1
      PROVE  Tail(t) # <<>> /\ \A i \in DOMAIN Tail(t) : i + 1 \in DOMAIN t /\ Tail(t)[i] = t[i + 1]
  <2>1. Tail(t) # <<>>
    <3>0. \A n \in Nat \ {0} : n > 1 => n - 1 # 0
      OBVIOUS
    <3>1. Len(Tail(t)) # 0
      BY <1>0, <1>2, <3>0, Zenon
    <3>2. Len(<<>>) = 0
      BY EmptySeq
    <3> QED
      BY <3>1, <3>2, Zenon
  <2>2. DOMAIN Tail(t) = 1..(Len(t) - 1) /\ DOMAIN t = 1..Len(t)
    BY <1>0, LenProperties
  <2>3. \A i \in 1..(Len(t) - 1) : Tail(t)[i] = t[i + 1]
    BY <1>0, HeadTailProperties
  <2>4. \A n \in Nat : \A i \in 1..(n - 1) : i + 1 \in 1..n
    OBVIOUS
  <2>5. \A i \in DOMAIN Tail(t) : i + 1 \in DOMAIN t /\ Tail(t)[i] = t[i + 1]
    BY <1>0, <2>2, <2>3, <2>4, Zenon
  <2> QED
    BY <2>1, <2>5, Zenon
<1>3. ASSUME Len(t) > 1, NEW p, Brings(Tail(t), p) PROVE Brings(t, p)
  BY <1>2, <1>3 DEF Brings
<1> QED
  BY <1>0, <1>1, <1>2, <1>3

\* Jobs that are sent, or overtaken, keep what they are for and what they will do.
Keeps(i, j) == j.op = i.op /\ j.key = i.key /\ j.todo = i.todo
LEMMA SentJobs ==
  ASSUME NEW js, NEW new, NEW ps, NEW s, \A j \in js \cup new : JobFields(j)
  PROVE  /\ \A j \in Sending(js, new, ps, s) :
              /\ JobFields(j)
              /\ \/ \E i \in js : Keeps(i, j) /\ j.late = i.late \cup (ps \cup Fetched(new)) /\ j.seen = i.seen
                 \/ \E i \in new : Keeps(i, j) /\ j.late = {} /\ j.seen = Seen(i, s)
         /\ \A i \in js \cup new : \E j \in Sending(js, new, ps, s) : Keeps(i, j)
<1> DEFINE Late(i) == [i EXCEPT !.late = @ \cup (ps \cup Fetched(new))]
<1>1. \A i \in js : /\ JobFields(Late(i)) /\ Keeps(i, Late(i)) /\ Late(i).seen = i.seen
                   /\ Late(i).late = i.late \cup (ps \cup Fetched(new))
  BY DEF JobFields, Keeps
<1>2. \A i \in new : /\ JobFields(Begun(i, js, s)) /\ Keeps(i, Begun(i, js, s))
                    /\ Begun(i, js, s).late = {} /\ Begun(i, js, s).seen = Seen(i, s)
  BY DEF Begun, JobFields, Keeps
<1>3. Sending(js, new, ps, s) = {Late(i) : i \in js} \cup {Begun(i, js, s) : i \in new}
  BY DEF Sending, Overtaken
<1> HIDE DEF Late
<1> QED
  BY <1>1, <1>2, <1>3

(***************************************************************************)
(* Steps.                                                                  *)
(***************************************************************************)
\* A new job that brings a follower brings it for what is selected.
Fits(j, p, k) ==
    Brings(j.todo, p) =>
        (Empties(panel, p) \/ FetchOf(j.todo, p)) /\ (panel.drops => j.op = "effect") /\ j.key = k

\* Sending new jobs that fit, for the same selection or another, keeps the jobs in order.
LEMMA SentFollow ==
  ASSUME NEW js, NEW new, NEW ps, NEW s, NEW k, \A j \in js \cup new : JobShape(j),
         \A p \in Parts : Follower(p) => \A j \in js : Meant(j, p, k, j.late \cup (ps \cup Fetched(new))),
         \A p \in Parts : Follower(p) => \A j \in new : Fits(j, p, k)
  PROVE  /\ \A j \in Sending(js, new, ps, s) :
              JobShape(j) /\ \A p \in Parts : Follower(p) => Meant(j, p, k, j.late)
         /\ \A p : Awaited(p, js \cup new) <=> Awaited(p, Sending(js, new, ps, s))
<1>1. \A j \in js \cup new : JobFields(j)
  BY DEF JobShape
<1>2. \A i, j : Keeps(i, j) => (IsOp(j) <=> IsOp(i)) /\ OpOf(j) = OpOf(i)
  BY DEF Keeps, IsOp, OpOf
<1>3. \A i, j : JobShape(i) /\ JobFields(j) /\ Keeps(i, j) => JobShape(j)
  BY <1>2 DEF JobShape, Keeps
<1>4. \A i, j, p, late : Meant(i, p, k, late) /\ Keeps(i, j) => Meant(j, p, k, late)
  BY DEF Meant, Keeps
<1>5. \A i, j, p, late : Fits(i, p, k) /\ Keeps(i, j) => Meant(j, p, k, late)
  BY DEF Fits, Meant, Keeps
<1>6. ASSUME NEW j \in Sending(js, new, ps, s)
      PROVE  JobShape(j) /\ \A p \in Parts : Follower(p) => Meant(j, p, k, j.late)
  <2>1. JobFields(j)
    BY <1>1, SentJobs
  <2>2. CASE \E i \in js : Keeps(i, j) /\ j.late = i.late \cup (ps \cup Fetched(new))
    BY <1>3, <1>4, <2>1, <2>2
  <2>3. CASE \E i \in new : Keeps(i, j) /\ j.late = {}
    BY <1>3, <1>5, <2>1, <2>3
  <2> QED
    BY <1>1, <2>2, <2>3, SentJobs
<1>7. ASSUME NEW p PROVE Awaited(p, js \cup new) <=> Awaited(p, Sending(js, new, ps, s))
  <2>1. \A i, j : Keeps(i, j) => (Brings(i.todo, p) <=> Brings(j.todo, p))
    BY DEF Keeps
  <2> QED
    BY <1>1, <2>1, SentJobs DEF Awaited
<1> QED
  BY <1>6, <1>7

\* What comes after a job, in order or for a failure, fits.
LEMMA AfterFits ==
  ASSUME FollowInv, NEW j \in jobs, IsOp(j), NEW i \in After(j)
  PROVE  JobShape(i) /\ \A p \in Parts : Follower(p) => Fits(i, p, key)
<1>1. PICK o \in panel.ops : o.name = j.op
  BY DEF IsOp
<1>2. OpOf(j) = o /\ o.steps # <<>>
  BY <1>1, OperationOf, PanelIsListed DEF FollowInv, JobsFollow, JobShape
<1>3. PICK t \in o.after : i = Job("after", IF o.now THEN key ELSE j.key, t)
  BY <1>2 DEF After
<1>4. /\ JobFields(i) /\ i.op = "after" /\ i.todo = t /\ i.key = IF o.now THEN key ELSE j.key
      /\ t \in Seq(StepsOn(Parts)) /\ t # <<>>
  BY <1>3, PanelIsListed DEF FollowInv, Job, JobFields
<1>5. JobShape(i)
  BY <1>4, Named, PanelIsListed DEF FollowInv, JobShape, IsOp
<1>6. ASSUME NEW p \in Parts, Follower(p), Brings(t, p) PROVE FetchOf(t, p) /\ ~panel.drops /\ o.now
  BY <1>2, <1>6 DEF Follower, Empties, KeepsUp, ForThatMoment
<1> QED
  BY <1>4, <1>5, <1>6 DEF Fits

LEMMA FurtherFits ==
  ASSUME FollowInv, NEW j \in jobs, NEW i \in Further(j)
  PROVE  JobShape(i) /\ \A p \in Parts : Follower(p) => Fits(i, p, key)
<1>1. JobShape(j) /\ j.todo \in Seq(StepsOn(Parts)) /\ j.todo # <<>>
  BY DEF FollowInv, JobsFollow, JobShape
<1>2. CASE Len(j.todo) > 1
  <2>1. /\ JobFields(i) /\ i.op = j.op /\ i.key = j.key /\ i.todo = Tail(j.todo)
    BY <1>1, <1>2 DEF Further, JobShape, JobFields
  <2>2. Tail(j.todo) \in Seq(StepsOn(Parts)) /\ Tail(j.todo) # <<>>
    BY <1>1, <1>2, StepsLeft
  <2>3. (IsOp(i) <=> IsOp(j)) /\ OpOf(i) = OpOf(j)
    BY <2>1 DEF IsOp, OpOf
  <2>4. JobShape(i)
    BY <1>1, <2>1, <2>2, <2>3 DEF JobShape
  <2>5. ASSUME NEW p \in Parts, Follower(p), Brings(i.todo, p)
        PROVE  Empties(panel, p) /\ panel.drops /\ i.op = "effect" /\ i.key = key
    <3>1. Brings(j.todo, p)
      BY <1>1, <1>2, <2>1, <2>5, StepsLeft
    <3>0. ~(1 > 1)
      OBVIOUS
    <3>2. Len(j.todo) # 1
      BY <1>2, <3>0, Zenon
    <3>3. Empties(panel, p) /\ panel.drops
      BY <2>5, <3>1, <3>2 DEF FollowInv, JobsFollow, Meant, FetchOf, Empties
    <3> QED
      BY <2>1, <2>5, <3>1, <3>3 DEF FollowInv, JobsFollow, Meant
  <2> QED
    BY <2>4, <2>5 DEF Fits
<1>3. CASE ~(Len(j.todo) > 1)
  BY <1>3, AfterFits DEF Further
<1> QED
  BY <1>2, <1>3

\* The answer to a call that tells is a request of the same job.
LEMMA ToldFits ==
  ASSUME FollowInv, NEW j \in jobs, Head(j.todo).call, Head(j.todo).tells,
         NEW i, i = [j EXCEPT !.todo[1] = Answer(@)]
  PROVE  JobShape(i) /\ \A p \in Parts : Follower(p) => Fits(i, p, key)
<1>1. JobShape(j) /\ j.todo \in Seq(StepsOn(Parts)) /\ j.todo # <<>> /\ JobFields(j)
  BY DEF FollowInv, JobsFollow, JobShape
<1>2. 1 \in DOMAIN j.todo /\ Head(j.todo) = j.todo[1] /\ j.todo[1] \in StepsOn(Parts)
  BY <1>1, StepsLeft
<1> DEFINE t == [j.todo EXCEPT ![1] = Answer(j.todo[1])]
<1>3. JobFields(i) /\ i.op = j.op /\ i.key = j.key /\ i.todo = t
  BY <1>1 DEF JobFields
<1>4. Answer(j.todo[1]) \in StepsOn(Parts)
  BY <1>2 DEF Answer, StepsOn
<1>5. t \in Seq(StepsOn(Parts)) /\ DOMAIN t = DOMAIN j.todo /\ Len(t) = Len(j.todo) /\ t # <<>>
  <2>1. 1 \in 1..Len(j.todo)
    BY <1>1, <1>2, LenProperties
  <2>2. t \in Seq(StepsOn(Parts)) /\ Len(t) = Len(j.todo)
    BY <1>1, <1>4, <2>1, ExceptSeq
  <2>3. Len(j.todo) # 0 /\ Len(<<>>) = 0
    BY <1>1, EmptySeq
  <2> QED
    BY <2>2, <2>3, Zenon
<1>6. \A p : Brings(t, p) => Brings(j.todo, p)
  BY <1>2 DEF Brings, Answer
<1>7. \A p : Brings(j.todo, p) => ~FetchOf(j.todo, p)
  BY <1>2 DEF FetchOf
<1>8. JobShape(i)
  BY <1>1, <1>3, <1>5 DEF JobShape, IsOp, OpOf
<1> HIDE DEF t
<1>9. ASSUME NEW p \in Parts, Follower(p), Brings(i.todo, p)
      PROVE  Empties(panel, p) /\ panel.drops /\ i.op = "effect" /\ i.key = key
  <2>1. Brings(j.todo, p)
    BY <1>3, <1>6, <1>9
  <2>2. Meant(j, p, key, j.late)
    BY <1>9 DEF FollowInv, JobsFollow
  <2>3. Empties(panel, p) /\ panel.drops
    BY <1>7, <2>1, <2>2 DEF Meant, Empties
  <2> QED
    BY <1>3, <2>1, <2>2, <2>3 DEF Meant
<1> QED
  BY <1>8, <1>9 DEF Fits

\* A workflow brings nothing.
LEMMA WorkflowFits ==
  ASSUME FollowInv, NEW j \in jobs, NEW i, i = Job("workflow", j.key, <<Call(Head(j.todo).parts)>>)
  PROVE  JobShape(i) /\ \A p \in Parts : Follower(p) => Fits(i, p, key)
<1> DEFINE t == <<Call(Head(j.todo).parts)>>
<1>1. JobFields(i) /\ i.op = "workflow" /\ i.todo = t
  BY DEF Job, JobFields
<1>2. Head(j.todo) \in StepsOn(Parts)
  BY StepsLeft DEF FollowInv, JobsFollow, JobShape
<1>3. Call(Head(j.todo).parts) \in StepsOn(Parts)
  BY <1>2 DEF StepsOn, Call
<1>4. t \in Seq(StepsOn(Parts)) /\ t # <<>>
  BY <1>3
<1>5. \A p : ~Brings(t, p)
  BY DEF Brings, Call
<1>6. ~IsOp(i)
  BY <1>1, Named, PanelIsListed DEF FollowInv, IsOp
<1> QED
  BY <1>1, <1>4, <1>5, <1>6 DEF JobShape, Fits

\* What comes to the server when nobody waits any more are calls, of parts of the
\* panel; they bring nothing and are no fetches.
PlainJob(i) ==
    /\ i.op = "stray" /\ ~IsOp(i)
    /\ \A k \in DOMAIN i.todo :
         i.todo[k].call /\ ~i.todo[k].tells /\ ~i.todo[k].merges /\ ~i.todo[k].lags
LEMMA StrayFits ==
  ASSUME FollowInv, NEW j \in jobs, NEW last \in DOMAIN j.todo, NEW first \in {1, 2},
         NEW i \in Strays(j, first, last)
  PROVE  /\ JobShape(i) /\ i.key = j.key /\ PlainJob(i) /\ Head(i.todo).call
         /\ \A p \in Parts : Follower(p) => Fits(i, p, key)
<1> DEFINE n == (last - first) + 1
           t == [k \in 1..n |-> Plainly(j.todo[(first + k) - 1])]
<1>1. j.todo \in Seq(StepsOn(Parts)) /\ j.todo # <<>> /\ OfCatalog
  BY DEF FollowInv, JobsFollow, JobShape
<1>2. DOMAIN j.todo = 1..Len(j.todo) /\ Len(j.todo) \in Nat /\ last \in 1..Len(j.todo)
  BY <1>1, LenProperties
<1>3. ~(last < first) /\ i = Job("stray", j.key, t)
  BY DEF Strays
<1>4. JobFields(i) /\ i.op = "stray" /\ i.key = j.key /\ i.todo = t
  BY <1>3 DEF Job, JobFields
<1>5. ~IsOp(i)
  BY <1>1, <1>4, Named, PanelIsListed DEF IsOp
<1>6. n \in Nat \ {0} /\ \A k \in 1..n : (first + k) - 1 \in DOMAIN j.todo
  BY <1>2, <1>3
<1>7. \A st \in StepsOn(Parts) : Plainly(st) \in StepsOn(Parts)
  BY DEF Plainly, Call, StepsOn
<1>8. t \in Seq(StepsOn(Parts)) /\ DOMAIN t = 1..n
  <2>1. \A k \in 1..n : j.todo[(first + k) - 1] \in StepsOn(Parts)
    BY <1>1, <1>2, <1>6
  <2>2. t \in [1..n -> StepsOn(Parts)]
    BY <1>7, <2>1
  <2> HIDE DEF n, t
  <2> QED
    BY <1>6, <2>2, SeqDef
<1>9. \A k \in DOMAIN t : t[k].call /\ ~t[k].tells /\ ~t[k].merges /\ ~t[k].lags
  BY DEF Plainly, Call
<1> HIDE DEF n, t
<1>10. 1 \in DOMAIN t /\ t # <<>>
  BY <1>6, <1>8, EmptySeq
<1>11. Head(t) = t[1]
  BY <1>8, <1>10, StepsLeft
<1>12. JobShape(i)
  BY <1>4, <1>5, <1>8, <1>10 DEF JobShape
<1>13. \A p : ~Brings(t, p)
  BY <1>9 DEF Brings
<1> QED
  BY <1>4, <1>5, <1>9, <1>10, <1>11, <1>12, <1>13 DEF PlainJob, Fits

\* Sending calls along fetches no more.
LEMMA FetchesOnly ==
  ASSUME NEW new, NEW rest, \A i \in rest : Head(i.todo).call
  PROVE  Fetched(new \cup rest) = Fetched(new)
BY DEF Fetched

\* What a selection leaves under way it only marks.
LEMMA LeftJobs ==
  ASSUME NEW js, \A j \in js : JobFields(j)
  PROVE  /\ \A i \in Left(js) : JobFields(i) /\ \E j \in js :
              ~Dropped(j) /\ Keeps(j, i) /\ i.late = j.late /\ i.seen = j.seen
         /\ \A j \in js : ~Dropped(j) => \E i \in Left(js) : Keeps(j, i)
<1> DEFINE Mark(j) == [j EXCEPT !.gone = panel.forgets # {}]
<1>1. \A j \in js : JobFields(Mark(j)) /\ Keeps(j, Mark(j)) /\ Mark(j).late = j.late /\ Mark(j).seen = j.seen
  BY DEF JobFields, Keeps
<1>2. Left(js) = {Mark(j) : j \in {i \in js : ~Dropped(i)}}
  BY DEF Left
<1> HIDE DEF Mark
<1> QED
  BY <1>1, <1>2

\* Rows that are no longer the latest still show what they show.
LEMMA OlderRows ==
  ASSUME NEW cells, NEW ps, NEW p \in Parts, RowShape(cells[p])
  PROVE  LET r == Older(cells, ps)[p]
         IN  RowShape(r) /\ r.key = cells[p].key /\ r.val = cells[p].val /\ (r.latest => cells[p].latest /\ p \notin ps)
BY DEF Older, RowShape

LEMMA FetchedIsBrought ==
  ASSUME NEW js, \A j \in js : JobShape(j), NEW p \in Fetched(js)
  PROVE  Awaited(p, js)
<1>1. PICK j \in js : ~Head(j.todo).call /\ p \in Head(j.todo).parts
  BY DEF Fetched
<1>2. 1 \in DOMAIN j.todo /\ Head(j.todo) = j.todo[1]
  BY StepsLeft DEF JobShape
<1> QED
  BY <1>1, <1>2 DEF Awaited, Brings

LEMMA SamePanel ==
  ASSUME panel' = panel
  PROVE  /\ Parts' = Parts
         /\ \A p : Follower(p)' <=> Follower(p)
         /\ \A p : Empties(panel, p)' <=> Empties(panel, p)
         /\ \A p : KeepsUp(panel, p)' <=> KeepsUp(panel, p)
         /\ \A j : JobShape(j)' <=> JobShape(j)
         /\ \A j, p, k, late : Meant(j, p, k, late)' <=> Meant(j, p, k, late)
         /\ \A r, p, k : Certain(r, p, k)' <=> Certain(r, p, k)
<1>1. /\ \A p : Empties(panel, p)' <=> Empties(panel, p)
      /\ \A p : KeepsUp(panel, p)' <=> KeepsUp(panel, p)
  BY DEF Empties, KeepsUp
<1>2. \A j : (IsOp(j)' <=> IsOp(j)) /\ OpOf(j)' = OpOf(j)
  BY DEF IsOp, OpOf
<1> QED
  BY <1>1, <1>2 DEF Parts, Follower, JobShape, Meant, Certain, KeyOf

\* An answer leaves every row as it was, empty, or for what its job is for.
Answering(j, cells) ==
    \A p \in Parts :
        /\ RowShape(cells[p])
        /\ \/ cells[p] = shown[p]
           \/ cells[p].key = None /\ cells[p].val = None
           \/ /\ ~Head(j.todo).call /\ p \in Head(j.todo).parts
              /\ cells[p].key = KeyOf(p, j.key) /\ (cells[p].latest => p \notin j.late)

LEMMA AnswerFollows ==
  ASSUME FollowInv, NEW j \in jobs, NEW new, NEW s, NEW cells, Answering(j, cells), UNCHANGED <<panel, key>>,
         jobs' = Sending(jobs \ {j}, new, {}, s), shown' = Older(cells, Fetched(new)),
         \A i \in new : JobShape(i) /\ \A p \in Parts : Follower(p) => Fits(i, p, key),
         \A p \in missed \ missed' : p \in Fetched(new),
         \A p \in Head(j.todo).parts :
            Head(j.todo).call \/ p \in missed' \/ cells[p].key = KeyOf(p, j.key)
  PROVE  FollowInv'
<1>1. /\ key \in Keys /\ key # None /\ 1 # None /\ OfCatalog
      /\ \A i \in jobs : JobShape(i) /\ \A p \in Parts : Follower(p) => Meant(i, p, key, i.late)
  BY SomeKeys DEF FollowInv, JobsFollow
<1>2. \A p \in Parts : Follower(p) => \A i \in jobs \ {j} : Meant(i, p, key, i.late \cup ({} \cup Fetched(new)))
  BY <1>1 DEF Meant
<1>3. \A i \in (jobs \ {j}) \cup new : JobShape(i)
  BY <1>1
<1>4. /\ \A i \in jobs' : JobShape(i) /\ \A p \in Parts : Follower(p) => Meant(i, p, key, i.late)
      /\ \A p : Awaited(p, (jobs \ {j}) \cup new) <=> Awaited(p, jobs')
  BY <1>2, <1>3, SentFollow
<1>5. 1 \in DOMAIN j.todo /\ Head(j.todo) = j.todo[1]
  BY <1>1, StepsLeft DEF JobShape
<1>6. ASSUME NEW p \in Parts, ~Head(j.todo).call, p \in Head(j.todo).parts, Follower(p)
      PROVE  (panel.drops \/ p \notin j.late) => KeyOf(p, j.key) = key
  <2>1. Brings(j.todo, p)
    BY <1>5, <1>6 DEF Brings
  <2> QED
    BY <1>1, <1>6, <2>1 DEF Meant, Follower, KeyOf
<1>7. ASSUME NEW p \in Parts
      PROVE  /\ RowShape(shown'[p])
             /\ p \notin panel.keyed \/ Empties(panel, p) => Certain(shown'[p], p, key)
             /\ p \in panel.keyed /\ KeepsUp(panel, p) /\ shown'[p].val # None =>
                  /\ ~panel.drops /\ shown'[p].latest => shown'[p].key = key
                  /\ panel.drops /\ p \notin missed' => shown'[p].key = key \/ Awaited(p, jobs')
  <2>1. /\ RowShape(shown'[p]) /\ shown'[p].key = cells[p].key /\ shown'[p].val = cells[p].val
        /\ shown'[p].latest => cells[p].latest
    BY OlderRows DEF Answering
  <2>2. \/ cells[p] = shown[p]
        \/ cells[p].key = None /\ cells[p].val = None
        \/ /\ ~Head(j.todo).call /\ p \in Head(j.todo).parts
           /\ cells[p].key = KeyOf(p, j.key) /\ (cells[p].latest => p \notin j.late)
    BY DEF Answering
  <2>3. ASSUME p \notin panel.keyed \/ Empties(panel, p) PROVE Certain(cells[p], p, key)
    <3>1. CASE cells[p] = shown[p]
      BY <2>3, <3>1 DEF FollowInv, RowsFollow
    <3>2. CASE cells[p].key = None /\ cells[p].val = None
      BY <3>2 DEF Certain
    <3>3. CASE ~Head(j.todo).call /\ p \in Head(j.todo).parts /\ cells[p].key = KeyOf(p, j.key)
      <4>1. CASE p \notin panel.keyed
        BY <1>1, <3>3, <4>1 DEF Certain, KeyOf
      <4>2. CASE p \in panel.keyed
        BY <1>1, <1>6, <2>3, <3>3, <4>2 DEF Certain, KeyOf, Follower, Empties
      <4> QED
        BY <4>1, <4>2
    <3> QED
      BY <2>2, <3>1, <3>2, <3>3
  <2>4. ASSUME p \in panel.keyed, KeepsUp(panel, p), shown'[p].val # None, ~panel.drops, shown'[p].latest
        PROVE  shown'[p].key = key
    BY <1>6, <2>1, <2>2, <2>4 DEF FollowInv, RowsFollow, Follower
  <2>5. ASSUME p \in panel.keyed, KeepsUp(panel, p), shown'[p].val # None, panel.drops, p \notin missed'
        PROVE  shown'[p].key = key \/ Awaited(p, jobs')
    <3>0. Follower(p)
      BY <2>5 DEF Follower
    <3>1. CASE p \in missed
      <4>1. Awaited(p, new)
        BY <2>5, <3>1, FetchedIsBrought
      <4> QED
        BY <1>4, <4>1 DEF Awaited
    <3>2. CASE ~Head(j.todo).call /\ p \in Head(j.todo).parts
      <4>1. cells[p].key = KeyOf(p, j.key)
        BY <2>5, <3>2
      <4> QED
        BY <1>6, <2>1, <2>5, <3>0, <3>2, <4>1
    <3>3. CASE p \notin missed /\ ~(~Head(j.todo).call /\ p \in Head(j.todo).parts)
      <4>1. cells[p] = shown[p]
        BY <2>1, <2>2, <2>5, <3>3
      <4>2. shown[p].key = key \/ Awaited(p, jobs)
        BY <2>1, <2>5, <3>3, <4>1 DEF FollowInv, RowsFollow
      <4>3. ASSUME Brings(j.todo, p) PROVE Empties(panel, p)
        BY <1>1, <1>5, <3>0, <3>3, <4>3 DEF Meant, FetchOf
      <4>4. ASSUME Empties(panel, p) PROVE shown'[p].key = key
        BY <1>1, <2>1, <2>3, <2>5, <4>4 DEF Certain, KeyOf
      <4>5. CASE Awaited(p, jobs) /\ ~Brings(j.todo, p)
        BY <1>4, <4>5 DEF Awaited
      <4> QED
        BY <2>1, <4>1, <4>2, <4>3, <4>4, <4>5
    <3> QED
      BY <3>1, <3>2, <3>3
  <2> QED
    BY <2>1, <2>3, <2>4, <2>5 DEF Certain
<1>8. DOMAIN shown' = Parts
  BY DEF Older
<1>9. JobsFollow'
  BY <1>4, SamePanel DEF JobsFollow
<1>10. RowsFollow'
  BY <1>7, <1>8, SamePanel DEF RowsFollow
<1> QED
  BY <1>1, <1>9, <1>10 DEF FollowInv, OfCatalog

LEMMA FollowSelect ==
  ASSUME FollowInv, NEW k \in Keys, Select(k)
  PROVE  FollowInv'
<1> DEFINE new == Effects(panel.select, k)
           kept == Left(jobs)
           bare == [p \in Parts |-> IF p \in panel.clears THEN Nothing(FALSE) ELSE shown[p]]
<1>1. /\ jobs' = Sending(kept, new, {}, srv) /\ shown' = Older(bare, Fetched(new))
      /\ missed' = missed \ Fetched(new) /\ panel' = panel /\ key' = k
  BY DEF Select
<1>2. /\ key \in Keys /\ k # None /\ 1 # None /\ OfCatalog
      /\ \A i \in jobs : JobShape(i) /\ \A p \in Parts : Follower(p) => Meant(i, p, key, i.late)
  BY SomeKeys DEF FollowInv, JobsFollow
<1>3. \A i \in new : JobShape(i) /\ i.op = "effect" /\ i.key = k /\ i.todo \in panel.select
  <2> TAKE i \in new
  <2>1. JobFields(i) /\ i.op = "effect" /\ i.key = k /\ i.todo \in panel.select
    BY DEF Effects, Job, JobFields
  <2>2. i.todo \in Seq(StepsOn(Parts)) /\ i.todo # <<>>
    BY <1>2, <2>1, PanelIsListed
  <2>3. ~IsOp(i)
    BY <1>2, <2>1, Named, PanelIsListed DEF IsOp
  <2> QED
    BY <2>1, <2>2, <2>3 DEF JobShape
<1>4. \A t \in panel.select : \E i \in new : i.todo = t
  <2> TAKE t \in panel.select
  <2>1. Job("effect", k, t) \in new /\ Job("effect", k, t).todo = t
    BY DEF Effects, Job
  <2> QED
    BY <2>1
<1>5. \A p : KeepsUp(panel, p) => p \in Fetched(new) /\ Awaited(p, new)
  <2> TAKE p
  <2> HAVE KeepsUp(panel, p)
  <2>1. PICK t \in panel.select : FetchOf(t, p)
    BY DEF KeepsUp
  <2>2. PICK i \in new : i.todo = t
    BY <1>4
  <2> HIDE DEF new
  <2>3. Head(i.todo) = t[1] /\ ~t[1].call /\ ~t[1].merges /\ p \in t[1].parts /\ 1 \in DOMAIN t
    BY <1>3, <2>1, <2>2, StepsLeft DEF JobShape, FetchOf
  <2>4. p \in Fetched(new)
    BY <2>3 DEF Fetched
  <2> QED
    BY <2>4, <1>3, FetchedIsBrought
<1>6. \A p \in Parts : Follower(p) => \A i \in new : Fits(i, p, k)
  BY <1>3 DEF Follower, KeepsUp, Fits
<1>7. \A p \in Parts : Follower(p) => \A i \in kept : Meant(i, p, k, i.late \cup ({} \cup Fetched(new)))
  <2> TAKE p \in Parts
  <2> HAVE Follower(p)
  <2> TAKE i \in kept
  <2>1. ~(panel.drops /\ i.op = "effect") /\ Meant(i, p, key, i.late)
    <3>1. PICK j \in jobs : ~Dropped(j) /\ Keeps(j, i) /\ i.late = j.late
      BY <1>2, LeftJobs DEF JobShape
    <3>2. Meant(j, p, key, j.late)
      BY <1>2
    <3> QED
      BY <3>1, <3>2 DEF Dropped, Keeps, Meant
  <2> HIDE DEF kept, new
  <2>2. panel.drops => ~Brings(i.todo, p)
    BY <2>1 DEF Meant
  <2>3. ~panel.drops => p \in Fetched(new)
    BY <1>5 DEF Follower, Empties
  <2> QED
    BY <2>1, <2>2, <2>3 DEF Meant
<1>8. \A i \in kept \cup new : JobShape(i)
  <2>1. ASSUME NEW i \in kept PROVE JobShape(i)
    <3>1. JobFields(i) /\ \E j \in jobs : JobShape(j) /\ Keeps(j, i)
      BY <1>2, LeftJobs DEF JobShape
    <3> QED
      BY <3>1 DEF JobShape, Keeps, IsOp, OpOf
  <2> QED
    BY <1>3, <2>1
<1> HIDE DEF kept, new
<1>9. /\ \A i \in jobs' : JobShape(i) /\ \A p \in Parts : Follower(p) => Meant(i, p, k, i.late)
      /\ \A p : Awaited(p, kept \cup new) <=> Awaited(p, jobs')
  BY <1>1, <1>6, <1>7, <1>8, SentFollow
<1>10. ASSUME NEW p \in Parts
       PROVE  /\ RowShape(shown'[p])
              /\ p \notin panel.keyed \/ Empties(panel, p) => Certain(shown'[p], p, k)
              /\ p \in panel.keyed /\ KeepsUp(panel, p) /\ shown'[p].val # None =>
                   /\ ~panel.drops /\ shown'[p].latest => shown'[p].key = k
                   /\ panel.drops /\ p \notin missed' => shown'[p].key = k \/ Awaited(p, jobs')
  <2>1. RowShape(bare[p]) /\ bare[p] = IF p \in panel.clears THEN Nothing(FALSE) ELSE shown[p]
    BY DEF Nothing, RowShape, FollowInv, RowsFollow
  <2> HIDE DEF bare
  <2>2. /\ RowShape(shown'[p]) /\ shown'[p].key = bare[p].key /\ shown'[p].val = bare[p].val
        /\ shown'[p].latest => p \notin Fetched(new)
    <3>1. RowShape(bare[p]) /\ shown' = Older(bare, Fetched(new))
      BY <1>1, <2>1
    <3> QED
      BY <3>1, OlderRows
  <2>3. ASSUME p \notin panel.keyed \/ Empties(panel, p) PROVE Certain(bare[p], p, k)
    <3>1. CASE p \in panel.clears
      BY <2>1, <3>1 DEF Nothing, Certain
    <3>2. CASE p \notin panel.clears
      BY <1>2, <2>1, <2>3, <3>2 DEF Empties, FollowInv, RowsFollow, Certain, KeyOf
    <3> QED
      BY <3>1, <3>2
  <2>4. KeepsUp(panel, p) => ~shown'[p].latest /\ Awaited(p, jobs')
    BY <1>5, <1>9, <2>2 DEF Awaited
  <2> QED
    BY <2>2, <2>3, <2>4 DEF Certain
<1>11. DOMAIN shown' = Parts
  BY <1>1 DEF Older
<1>12. JobsFollow'
  BY <1>1, <1>9, SamePanel DEF JobsFollow
<1>13. RowsFollow'
  BY <1>1, <1>10, <1>11, SamePanel DEF RowsFollow
<1> QED
  BY <1>1, <1>2, <1>12, <1>13 DEF FollowInv, OfCatalog

LEMMA FollowClick ==
  ASSUME FollowInv, NEW o \in panel.ops, Click(o)
  PROVE  FollowInv'
<1> DEFINE j == Job(o.name, Object(o), o.steps)
           new == IF o.steps = <<>> THEN After(j) ELSE {j}
           cells == [p \in Parts |-> IF p \in o.typed THEN Typing(p) ELSE shown[p]]
<1>1. /\ jobs' = Sending(jobs, new, o.typed, srv) /\ shown' = Older(cells, Fetched(new))
      /\ missed' = missed \ Fetched(new) /\ UNCHANGED <<panel, key>>
  BY DEF Click
<1>2. /\ key \in Keys /\ key # None /\ 1 # None /\ OfCatalog
      /\ \A i \in jobs : JobShape(i) /\ \A p \in Parts : Follower(p) => Meant(i, p, key, i.late)
  BY SomeKeys DEF FollowInv, JobsFollow
<1>3. JobFields(j) /\ j.op = o.name /\ j.key = Object(o) /\ j.todo = o.steps
  BY DEF Job, JobFields
<1>4. IsOp(j) /\ OpOf(j) = o
  BY <1>2, <1>3, OperationOf, PanelIsListed
<1>5. o.typed = {} => Object(o) = key
  BY DEF Object
<1>6. \A i \in new : JobShape(i) /\ \A p \in Parts : Follower(p) => Fits(i, p, key)
  <2>1. CASE o.steps # <<>>
    <3>1. JobShape(j)
      BY <1>2, <1>3, <1>4, <2>1, PanelIsListed DEF JobShape
    <3>2. ASSUME NEW p \in Parts, Follower(p) PROVE Fits(j, p, key)
      BY <1>3, <1>5, <3>2 DEF Follower, Empties, KeepsUp, Fits
    <3> QED
      BY <2>1, <3>1, <3>2
  <2>2. CASE o.steps = <<>>
    <3> TAKE i \in new
    <3>1. PICK t \in o.after : i = Job("after", IF o.now THEN key ELSE j.key, t)
      BY <1>4, <2>2 DEF After
    <3> HIDE DEF j, new
    <3>2. /\ JobFields(i) /\ i.op = "after" /\ i.todo = t /\ i.key = IF o.now THEN key ELSE j.key
      BY <3>1 DEF Job, JobFields
    <3>3. JobShape(i)
      BY <1>2, <3>2, Named, PanelIsListed DEF JobShape, IsOp
    <3>4. ASSUME NEW p \in Parts, Follower(p) PROVE Fits(i, p, key)
      BY <1>3, <1>5, <3>2, <3>4 DEF Follower, Empties, KeepsUp, ForThatMoment, Fits
    <3> QED
      BY <3>3, <3>4
  <2> QED
    BY <2>1, <2>2
<1>7. \A p \in Parts : Follower(p) => \A i \in jobs : Meant(i, p, key, i.late \cup (o.typed \cup Fetched(new)))
  BY <1>2 DEF Meant
<1>8. \A i \in jobs \cup new : JobShape(i)
  BY <1>2, <1>6
<1> HIDE DEF j, new
<1>9. /\ \A i \in jobs' : JobShape(i) /\ \A p \in Parts : Follower(p) => Meant(i, p, key, i.late)
      /\ \A p : Awaited(p, jobs \cup new) <=> Awaited(p, jobs')
  BY <1>1, <1>6, <1>7, <1>8, SentFollow
<1>10. ASSUME NEW p \in Parts
       PROVE  /\ RowShape(shown'[p])
              /\ p \notin panel.keyed \/ Empties(panel, p) => Certain(shown'[p], p, key)
              /\ p \in panel.keyed /\ KeepsUp(panel, p) /\ shown'[p].val # None =>
                   /\ ~panel.drops /\ shown'[p].latest => shown'[p].key = key
                   /\ panel.drops /\ p \notin missed' => shown'[p].key = key \/ Awaited(p, jobs')
  <2>1. RowShape(cells[p]) /\ cells[p] = IF p \in o.typed THEN Typing(p) ELSE shown[p]
    BY DEF Typing, RowShape, FollowInv, RowsFollow
  <2>2. /\ RowShape(shown'[p]) /\ shown'[p].key = cells[p].key /\ shown'[p].val = cells[p].val
        /\ shown'[p].latest => cells[p].latest
    BY <1>1, <2>1, OlderRows
  <2>3. ASSUME p \notin panel.keyed \/ Empties(panel, p) PROVE Certain(cells[p], p, key)
    <3>1. CASE p \in o.typed
      <4>1. cells[p].key = IF shown[p].key = None THEN KeyOf(p, key) ELSE shown[p].key
        BY <2>1, <3>1 DEF Typing
      <4>2. shown[p].key \in {None, KeyOf(p, key)} /\ KeyOf(p, key) # None
        BY <1>2, <2>3 DEF FollowInv, RowsFollow, Certain, KeyOf
      <4> QED
        BY <4>1, <4>2 DEF Certain
    <3>2. CASE p \notin o.typed
      BY <2>1, <2>3, <3>2 DEF FollowInv, RowsFollow
    <3> QED
      BY <3>1, <3>2
  <2>4. ASSUME p \in panel.keyed, KeepsUp(panel, p), shown'[p].val # None
        PROVE  /\ ~panel.drops /\ shown'[p].latest => shown'[p].key = key
               /\ panel.drops /\ p \notin missed' => shown'[p].key = key \/ Awaited(p, jobs')
    <3>1. cells[p] = shown[p]
      BY <2>1, <2>4 DEF KeepsUp
    <3>2. CASE p \in Fetched(new)
      <4>1. Awaited(p, jobs') /\ ~shown'[p].latest
        BY <1>1, <1>8, <1>9, <2>1, <3>2, FetchedIsBrought, OlderRows DEF Awaited
      <4> QED
        BY <4>1
    <3>3. CASE p \notin Fetched(new)
      <4>1. p \notin missed' => p \notin missed
        BY <1>1, <3>3
      <4>2. Awaited(p, jobs) => Awaited(p, jobs')
        BY <1>9 DEF Awaited
      <4> QED
        BY <2>2, <2>4, <3>1, <4>1, <4>2 DEF FollowInv, RowsFollow
    <3> QED
      BY <3>2, <3>3
  <2> QED
    BY <2>2, <2>3, <2>4 DEF Certain
<1>11. DOMAIN shown' = Parts
  BY <1>1 DEF Older
<1>12. JobsFollow'
  BY <1>1, <1>9, SamePanel DEF JobsFollow
<1>13. RowsFollow'
  BY <1>1, <1>10, <1>11, SamePanel DEF RowsFollow
<1> QED
  BY <1>1, <1>2, <1>12, <1>13 DEF FollowInv, OfCatalog

LEMMA FollowAnswers ==
  ASSUME FollowInv, NEW j \in jobs, Answers(j)
  PROVE  FollowInv'
<1>1. /\ \A p \in Parts : RowShape(shown[p]) /\ RowShape(Nothing(p \notin j.late))
      /\ IsOp(j) => \A i \in After(j) : JobShape(i) /\ \A p \in Parts : Follower(p) => Fits(i, p, key)
      /\ \A i \in Further(j) : JobShape(i) /\ \A p \in Parts : Follower(p) => Fits(i, p, key)
  BY AfterFits, FurtherFits DEF FollowInv, RowsFollow, Nothing, RowShape
<1>2. Answering(j, shown)
  BY <1>1 DEF Answering
<1>3. CASE CallDone(j)
  <2> DEFINE new == IF Head(j.todo).tells THEN {[j EXCEPT !.todo[1] = Answer(@)]} ELSE Further(j)
  <2>1. /\ jobs' = Sending(jobs \ {j}, new, {}, srv') /\ shown' = Older(shown, Fetched(new))
        /\ UNCHANGED <<panel, key>> /\ Head(j.todo).call
        /\ missed' = (missed \ Fetched(new)) \cup Crossed(j, srv')
                      \cup IF j.op = "stray" THEN Head(j.todo).parts ELSE {}
    BY <1>3 DEF CallDone
  <2>2. \A i \in new : JobShape(i) /\ \A p \in Parts : Follower(p) => Fits(i, p, key)
    BY <1>1, <2>1, ToldFits
  <2> HIDE DEF new
  <2> QED
    BY <1>2, <2>1, <2>2, AnswerFollows
<1>4. CASE CallTaken(j)
  <2> DEFINE new == Further(j) \cup {Job("workflow", j.key, <<Call(Head(j.todo).parts)>>)}
  <2>1. /\ jobs' = Sending(jobs \ {j}, new, {}, srv) /\ shown' = Older(shown, Fetched(new))
        /\ UNCHANGED <<panel, key>> /\ Head(j.todo).call /\ missed' = missed \ Fetched(new)
    BY <1>4 DEF CallTaken
  <2>2. \A i \in new : JobShape(i) /\ \A p \in Parts : Follower(p) => Fits(i, p, key)
    BY <1>1, WorkflowFits
  <2> HIDE DEF new
  <2> QED
    BY <1>2, <2>1, <2>2, AnswerFollows
<1>5. CASE FetchDone(j)
  <2>1. PICK got \in Readings(j) :
          shown' = Older([p \in Parts |-> IF p \in DOMAIN got
                            THEN [key |-> KeyOf(p, j.key), val |-> got[p], latest |-> p \notin j.late]
                            ELSE shown[p]], Fetched(Further(j)))
    BY <1>5 DEF FetchDone
  <2> DEFINE cells == [p \in Parts |-> IF p \in DOMAIN got
                         THEN [key |-> KeyOf(p, j.key), val |-> got[p], latest |-> p \notin j.late]
                         ELSE shown[p]]
  <2>2. DOMAIN got = Head(j.todo).parts
    BY DEF Readings
  <2>3. ~Head(j.todo).call
    BY <1>5 DEF FetchDone
  <2>4. Head(j.todo).parts \subseteq Parts
    <3>1. Head(j.todo) \in StepsOn(Parts)
      BY StepsLeft DEF FollowInv, JobsFollow, JobShape
    <3> QED
      BY <3>1 DEF StepsOn
  <2>5. Answering(j, cells) /\ \A p \in Head(j.todo).parts : cells[p].key = KeyOf(p, j.key)
    BY <1>1, <2>2, <2>3, <2>4 DEF Answering, RowShape
  <2>6. /\ jobs' = Sending(jobs \ {j}, Further(j), {}, srv) /\ shown' = Older(cells, Fetched(Further(j)))
        /\ UNCHANGED <<panel, key>> /\ missed' = missed \ Fetched(Further(j))
    BY <1>5, <2>1 DEF FetchDone
  <2> HIDE DEF cells
  <2> QED
    BY <1>1, <2>5, <2>6, AnswerFollows
<1>6. ASSUME NEW how \in AnyFailure, FetchFails(j, how) PROVE FollowInv'
  <2> DEFINE goesOn == how \in Head(j.todo).deaf
             new == IF goesOn THEN Further(j) ELSE {}
             blank == [p \in Parts |-> IF p \in Head(j.todo).parts \cap panel.blanks
                                       THEN Nothing(p \notin j.late) ELSE shown[p]]
  <2>1. /\ jobs' = Sending(jobs \ {j}, new, {}, srv) /\ shown' = Older(blank, Fetched(new))
        /\ UNCHANGED <<panel, key>>
        /\ missed' = (missed \ Fetched(new)) \cup Head(j.todo).parts \cup IF goesOn THEN {} ELSE LeftBehind(j)
    BY <1>6 DEF FetchFails
  <2>2. \A i \in new : JobShape(i) /\ \A p \in Parts : Follower(p) => Fits(i, p, key)
    BY <1>1
  <2>3. Answering(j, blank)
    BY <1>1 DEF Answering, Nothing
  <2> HIDE DEF goesOn, new, blank
  <2> QED
    BY <2>1, <2>2, <2>3, AnswerFollows
<1>7. ASSUME NEW how \in AnyFailure, NEW did \in BOOLEAN, CallFails(j, how, did) PROVE FollowInv'
  <2> DEFINE goesOn == how \in Head(j.todo).deaf
             new == IF goesOn THEN Further(j) ELSE IF OpOf(j).anyway THEN After(j) ELSE {}
             left == IF goesOn THEN {} ELSE LeftBehind(j) \cup IF did THEN Head(j.todo).parts ELSE {}
  <2>1. PICK last \in DOMAIN j.todo, first \in {1, 2} : \E rest \in {{}, Strays(j, first, last)} :
        /\ jobs' = Sending(jobs \ {j}, new \cup rest, {}, srv') /\ shown' = Older(shown, Fetched(new))
        /\ UNCHANGED <<panel, key>> /\ Head(j.todo).call /\ IsOp(j)
        /\ missed' = ((missed \cup left) \ Fetched(new)) \cup Crossed(j, srv')
    BY <1>7 DEF CallFails
  <2>2. \A i \in new : JobShape(i) /\ \A p \in Parts : Follower(p) => Fits(i, p, key)
    BY <1>1, <2>1
  <2> HIDE DEF goesOn, new, left
  <2>3. PICK rest \in {{}, Strays(j, first, last)} :
          /\ jobs' = Sending(jobs \ {j}, new \cup rest, {}, srv') /\ shown' = Older(shown, Fetched(new))
          /\ UNCHANGED <<panel, key>> /\ Head(j.todo).call
          /\ missed' = ((missed \cup left) \ Fetched(new)) \cup Crossed(j, srv')
    BY <2>1
  <2>4. \A i \in rest : Head(i.todo).call /\ JobShape(i) /\ \A p \in Parts : Follower(p) => Fits(i, p, key)
    BY <2>3, StrayFits
  <2> DEFINE sent == new \cup rest
  <2>5. Fetched(sent) = Fetched(new)
    BY <2>4, FetchesOnly
  <2>6. \A i \in sent : JobShape(i) /\ \A p \in Parts : Follower(p) => Fits(i, p, key)
    BY <2>2, <2>4
  <2>7. jobs' = Sending(jobs \ {j}, sent, {}, srv') /\ shown' = Older(shown, Fetched(sent))
    BY <2>3, <2>5
  <2>8. \A p \in missed \ missed' : p \in Fetched(sent)
    BY <2>3, <2>5
  <2> HIDE DEF sent
  <2> QED
    BY <1>2, <2>3, <2>6, <2>7, <2>8, AnswerFollows
<1> QED
  BY <1>3, <1>4, <1>5, <1>6, <1>7 DEF Answers

LEMMA FollowNext == FollowInv /\ [PanelNext]_vars => FollowInv'
<1> SUFFICES ASSUME FollowInv, [PanelNext]_vars PROVE FollowInv'
  OBVIOUS
<1>1. CASE UNCHANGED vars
  <2>1. panel' = panel /\ key' = key /\ jobs' = jobs /\ shown' = shown /\ missed' = missed
    BY <1>1 DEF vars
  <2>2. JobsFollow' /\ RowsFollow'
    BY <2>1, SamePanel DEF FollowInv, JobsFollow, RowsFollow
  <2> QED
    BY <2>1, <2>2 DEF FollowInv, OfCatalog
<1> QED
  BY <1>1, FollowSelect, FollowClick, FollowAnswers DEF PanelNext

\* When a panel opens it shows nothing.
LEMMA FollowInit == PanelInit => FollowInv
<1> SUFFICES ASSUME PanelInit PROVE FollowInv
  OBVIOUS
<1> DEFINE new == Effects(panel.mount, 1)
<1>1. OfCatalog /\ key = 1 /\ key \in Keys /\ jobs = Sending({}, new, {}, srv)
  BY SomeKeys DEF PanelInit, OfCatalog
<1>2. \A i \in new : JobShape(i) /\ i.op = "effect" /\ i.key = 1 /\ i.todo \in panel.mount
  <2> TAKE i \in new
  <2>1. JobFields(i) /\ i.op = "effect" /\ i.key = 1 /\ i.todo \in panel.mount
    BY DEF Effects, Job, JobFields
  <2>2. i.todo \in Seq(StepsOn(Parts)) /\ i.todo # <<>>
    BY <1>1, <2>1, PanelIsListed
  <2>3. ~IsOp(i)
    BY <1>1, <2>1, Named, PanelIsListed DEF IsOp
  <2> QED
    BY <2>1, <2>2, <2>3 DEF JobShape
<1>3. \A p \in Parts : Follower(p) => \A i \in new : Fits(i, p, 1)
  BY <1>2 DEF Follower, KeepsUp, Fits
<1> HIDE DEF new
<1>4. \A i \in jobs : JobShape(i) /\ \A p \in Parts : Follower(p) => Meant(i, p, 1, i.late)
  BY <1>1, <1>2, <1>3, SentFollow
<1>5. DOMAIN shown = Parts /\ \A p \in Parts : shown[p] = Nothing(FALSE)
  BY DEF PanelInit
<1> QED
  BY <1>1, <1>4, <1>5 DEF FollowInv, JobsFollow, RowsFollow, Nothing, RowShape, Certain

LEMMA FollowAlways == PanelSpec => []FollowInv
<1> QED
  BY FollowInit, FollowNext, PTL DEF PanelSpec

\* Once every answer is in, every panel but those that fetch for the page, filter or
\* row of the click shows what is selected (the effects of the pages of
\* apps/web/app/dashboard and their `cancelled` flags).
THEOREM SelectionWinsAlways == PanelSpec => []SelectionWins
<1>1. FollowInv => SelectionWins
  <2> SUFFICES ASSUME FollowInv, Quiet, panel.name \notin StaleReloads, NEW p \in panel.keyed \ missed,
                      panel.drops \/ shown[p].latest, shown[p].val # None
               PROVE  shown[p].key = key
    BY DEF SelectionWins
  <2>1. p \in Parts /\ (Empties(panel, p) \/ KeepsUp(panel, p))
    BY PanelIsListed DEF FollowInv
  <2>2. ~Awaited(p, jobs)
    BY DEF Quiet, Awaited
  <2>3. CASE Empties(panel, p)
    BY <2>1, <2>3 DEF FollowInv, RowsFollow, Certain, KeyOf
  <2>4. CASE KeepsUp(panel, p)
    BY <2>1, <2>2, <2>4 DEF FollowInv, RowsFollow
  <2> QED
    BY <2>1, <2>3, <2>4
<1> QED
  BY FollowAlways, <1>1, PTL

\* Whenever a button can be pressed, the data it works with was fetched for what is
\* selected, or, in the forms that say so, could not be fetched.
THEOREM ActsOnSelectedAlways == PanelSpec => []ActsOnSelected
<1>1. FollowInv => ActsOnSelected
  <2> SUFFICES ASSUME FollowInv, panel.name \notin LateAnswers, NEW o \in panel.ops, Offered(o), NEW p \in o.uses
               PROVE  shown[p].key \in {KeyOf(p, key)} \cup IF panel.name \in BlindForms THEN {None} ELSE {}
    BY DEF ActsOnSelected
  <2>1. p \in Parts /\ (p \notin panel.keyed \/ Empties(panel, p)) /\ (p \in o.needs \/ panel.name \in BlindForms)
    BY PanelIsListed DEF FollowInv
  <2>2. Certain(shown[p], p, key)
    BY <2>1 DEF FollowInv, RowsFollow
  <2>3. p \in o.needs => shown[p].val # None
    BY DEF Offered
  <2> QED
    BY <2>1, <2>2, <2>3 DEF Certain
<1> QED
  BY FollowAlways, <1>1, PTL

-----------------------------------------------------------------------------
(***************************************************************************)
(* What is shown is current.  The invariant: the latest answer for a part  *)
(* that stays current, shown or on its way, is what the server has, unless *)
(* a job owes another fetch of the part, having changed it, or has yet to  *)
(* save what was typed.                                                    *)
(***************************************************************************)
\* An operation's job does the last of its steps; the answer of a call is fetched.
IsRest(j) ==
    IsOp(j) => LET o == OpOf(j) IN
        /\ Len(j.todo) <= Len(o.steps)
        /\ \A i \in DOMAIN j.todo : LET s == o.steps[(Len(o.steps) - Len(j.todo)) + i] IN
             j.todo[i] = s \/ (i = 1 /\ j.todo[i] = Answer(s))
IsSimple(j, p) ==
    \A i \in DOMAIN j.todo : p \in j.todo[i].parts => 
        ~j.todo[i].merges /\ (~IsOp(j) /\ j.todo[i].call => j.op = "stray" /\ ~j.todo[i].lags)

\* A job owes a fetch that comes after its next step, or after its last one if it
\* changed the part.
MadeCall(j, p) ==
    IsOp(j) /\ \E i \in 1..(Len(OpOf(j).steps) - Len(j.todo)) :
        OpOf(j).steps[i].call /\ p \in OpOf(j).steps[i].parts
FetchesIn(seqs, p) == \E t \in seqs : \E k \in DOMAIN t : Fresh(t[k], p)
FetchesLater(j, p) == \E k \in DOMAIN j.todo : k > 1 /\ Fresh(j.todo[k], p)
Owes(j, p) == j.op # "effect" /\ (FetchesLater(j, p) \/ (MadeCall(j, p) /\ FetchesIn(OpOf(j).after, p)))
Owed(p, js) == \E j \in js : Owes(j, p)

Writes(j, p, k) == IsOp(j) /\ p \in OpOf(j).typed /\ Head(j.todo).call /\ KeyOf(p, j.key) = k
Written(p, k, js) == \E j \in js : Writes(j, p, k)
JobCurrent(j, p, s, lost, js) ==
    Fresh(Head(j.todo), p) /\ p \notin j.late /\ p \notin lost =>
        Owed(p, js) \/ j.seen[p] = s[p][KeyOf(p, j.key)]
RowCurrent(r, p, s, lost, js) ==
    r.latest /\ r.val # None /\ p \notin lost =>
        Owed(p, js) \/ r.val = s[p][r.key] \/ Written(p, r.key, js)

RowKeys == \A p \in Parts : shown[p].key \in Keys \cup {None} /\ (shown[p].val # None => shown[p].key \in Keys)
JobKeys == \A j \in jobs : j.key \in Keys /\ IsRest(j)
PartsCurrent ==
    \A p \in Parts : StaysCurrent(panel, p) =>
        /\ \A j \in jobs : IsSimple(j, p) /\ JobCurrent(j, p, srv, missed, jobs)
        /\ RowCurrent(shown[p], p, srv, missed, jobs)
CurrentInv == FollowInv /\ srv \in [Parts -> [Keys -> Nat]] /\ RowKeys /\ JobKeys /\ PartsCurrent

LEMMA ListedCurrent ==
  ASSUME OfCatalog, NEW p \in Parts, <<panel.name, p>> \notin Forgotten
  PROVE  StaysCurrent(panel, p)
<1>1. PICK n \in DOMAIN Catalog : panel = [Catalog[n] EXCEPT !.name = n]
  BY DEF OfCatalog
<1> DEFINE c == Catalog[n]
<1>2. /\ panel.name = n /\ panel.parts = c.parts /\ panel.keyed = c.keyed /\ panel.mount = c.mount
      /\ panel.select = c.select /\ panel.views = c.views /\ panel.ops = c.ops
  BY <1>1, Described
<1>3. StaysCurrent(c, p)
  BY <1>2, FetchWhatChanged DEF Parts
<1> QED
  BY <1>2, <1>3 DEF StaysCurrent, Settled

\* What a job that fetches has seen.
LEMMA SeenIsServer ==
  ASSUME NEW j, JobShape(j), NEW p, Fresh(Head(j.todo), p), NEW s
  PROVE  Seen(j, s)[p] = s[p][KeyOf(p, j.key)]
<1>1. Head(j.todo) \in StepsOn(Parts)
  BY StepsLeft DEF JobShape
<1>2. Head(j.todo).call = FALSE /\ Head(j.todo).merges = FALSE /\ p \in Head(j.todo).parts
  BY <1>1 DEF Fresh, StepsOn
<1>3. Seen(j, s) = [q \in Head(j.todo).parts |-> s[q][KeyOf(q, j.key)]]
  BY <1>2 DEF Seen
<1> QED
  BY <1>2, <1>3

\* Sending keeps jobs and a row current that were so, or of which the part is fetched.
LEMMA SentCurrent ==
  ASSUME NEW js, NEW new, NEW ps, NEW s, NEW lost, NEW p, NEW r, NEW q,
         \A j \in js \cup new : JobShape(j) /\ IsSimple(j, p),
         p \notin Fetched(new) =>
            /\ \A j \in js : p \notin ps => JobCurrent(j, p, s, lost, js \cup new)
            /\ RowCurrent(r, p, s, lost, js \cup new),
         q.key = r.key, q.val = r.val, q.latest => r.latest /\ p \notin Fetched(new)
  PROVE  LET J == Sending(js, new, ps, s)
         IN  /\ \A j \in J : IsSimple(j, p) /\ JobCurrent(j, p, s, lost, J)
             /\ RowCurrent(q, p, s, lost, J)
<1> DEFINE J == Sending(js, new, ps, s)
<1>1. \A j \in js \cup new : JobFields(j)
  BY DEF JobShape
<1>2. \A i, j : Keeps(i, j) => (IsOp(j) <=> IsOp(i)) /\ OpOf(j) = OpOf(i)
  BY DEF Keeps, IsOp, OpOf
<1>3. \A i, j : Keeps(i, j) => (IsSimple(i, p) <=> IsSimple(j, p)) /\ (Owes(i, p) <=> Owes(j, p))
  BY <1>2 DEF Keeps, IsSimple, Owes, MadeCall, FetchesLater
<1>4. \A i, j, k : Keeps(i, j) => (Writes(i, p, k) <=> Writes(j, p, k))
  BY <1>2 DEF Keeps, Writes
<1>5. Owed(p, js \cup new) => Owed(p, J)
  BY <1>1, <1>3, SentJobs DEF Owed
<1>6. \A k : Written(p, k, js \cup new) => Written(p, k, J)
  BY <1>1, <1>4, SentJobs DEF Written
<1>7. ASSUME NEW j \in J PROVE IsSimple(j, p) /\ JobCurrent(j, p, s, lost, J)
  <2>1. CASE \E i \in js : Keeps(i, j) /\ j.late = i.late \cup (ps \cup Fetched(new)) /\ j.seen = i.seen
    <3>1. PICK i \in js : Keeps(i, j) /\ j.late = i.late \cup (ps \cup Fetched(new)) /\ j.seen = i.seen
      BY <2>1
    <3>2. IsSimple(j, p)
      BY <1>3, <3>1
    <3>3. CASE p \in ps \cup Fetched(new)
      BY <3>1, <3>2, <3>3 DEF JobCurrent
    <3>4. CASE p \notin ps \cup Fetched(new)
      <4>1. JobCurrent(i, p, s, lost, js \cup new)
        BY <3>4
      <4> QED
        BY <1>5, <3>1, <3>2, <4>1 DEF JobCurrent, Keeps
    <3> QED
      BY <3>3, <3>4
  <2>2. CASE \E i \in new : Keeps(i, j) /\ j.late = {} /\ j.seen = Seen(i, s)
    <3>1. PICK i \in new : Keeps(i, j) /\ j.late = {} /\ j.seen = Seen(i, s)
      BY <2>2
    <3>2. IsSimple(j, p)
      BY <1>3, <3>1
    <3>3. Fresh(Head(i.todo), p) => j.seen[p] = s[p][KeyOf(p, i.key)]
      BY <3>1, SeenIsServer
    <3> QED
      BY <3>1, <3>2, <3>3 DEF JobCurrent, Keeps
  <2> QED
    BY <1>1, <2>1, <2>2, SentJobs
<1>8. RowCurrent(q, p, s, lost, J)
  BY <1>5, <1>6 DEF RowCurrent
<1> QED
  BY <1>7, <1>8

LEMMA OperationIsListed ==
  ASSUME OfCatalog, NEW j, IsOp(j)
  PROVE  OpOf(j) \in panel.ops /\ OpOf(j).name = j.op /\ j.op \notin Others
BY OperationOf, Named, PanelIsListed DEF IsOp, Others

\* A call is the step of its operation that it was.
StepOf(j) == (Len(OpOf(j).steps) - Len(j.todo)) + 1
LEMMA CallIsStep ==
  ASSUME CurrentInv, NEW j \in jobs, IsOp(j), Head(j.todo).call
  PROVE  /\ StepOf(j) \in DOMAIN OpOf(j).steps /\ Head(j.todo) = OpOf(j).steps[StepOf(j)]
         /\ \A k \in DOMAIN OpOf(j).steps : k > StepOf(j) =>
              \E i \in DOMAIN j.todo : i > 1 /\ j.todo[i] = OpOf(j).steps[k]
<1> DEFINE o == OpOf(j)
           m == Len(j.todo)
           n == Len(o.steps)
<1>1. o \in panel.ops /\ o.steps \in Seq(StepsOn(Parts))
  BY OperationIsListed, PanelIsListed DEF CurrentInv, FollowInv
<1>2. j.todo \in Seq(StepsOn(Parts)) /\ j.todo # <<>>
  BY DEF CurrentInv, FollowInv, JobsFollow, JobShape
<1>3. /\ m \in Nat \ {0} /\ n \in Nat /\ m <= n /\ DOMAIN j.todo = 1..m /\ DOMAIN o.steps = 1..n
      /\ Head(j.todo) = j.todo[1]
  <2>1. IsRest(j)
    BY DEF CurrentInv, JobKeys
  <2> QED
    BY <1>1, <1>2, <2>1, EmptySeq, LenProperties, StepsLeft DEF IsRest
<1>4. \A i \in DOMAIN j.todo : j.todo[i] = o.steps[(n - m) + i] \/ (i = 1 /\ j.todo[i] = Answer(o.steps[(n - m) + i]))
  BY DEF CurrentInv, JobKeys, IsRest
<1> HIDE DEF o, m, n
<1>5. (n - m) + 1 \in DOMAIN o.steps /\ 1 \in DOMAIN j.todo
  BY <1>3
<1>6. o.steps[(n - m) + 1] \in StepsOn(Parts)
  BY <1>1, <1>5
<1>7. Head(j.todo) = o.steps[(n - m) + 1]
  <2>1. Answer(o.steps[(n - m) + 1]).call = FALSE
    BY <1>6 DEF Answer, StepsOn
  <2> QED
    BY <1>3, <1>4, <1>5, <2>1
<1>8. ASSUME NEW k \in DOMAIN o.steps, k > (n - m) + 1
      PROVE  \E i \in DOMAIN j.todo : i > 1 /\ j.todo[i] = o.steps[k]
  <2> DEFINE i == k - (n - m)
  <2>1. i \in DOMAIN j.todo /\ i > 1 /\ i # 1 /\ (n - m) + i = k
    BY <1>3, <1>8
  <2> HIDE DEF i
  <2>2. j.todo[i] = o.steps[k]
    BY <1>4, <2>1
  <2> QED
    BY <2>1, <2>2
<1> QED
  BY <1>5, <1>7, <1>8 DEF StepOf, o, m, n

\* A job that owes a fetch, or has just changed the part, sends the fetch next or
\* leaves a job that owes it.
LEMMA DebtGoesOn ==
  ASSUME CurrentInv, NEW j \in jobs, NEW p,
         \/ Owes(j, p)
         \/ /\ IsOp(j) /\ Head(j.todo).call /\ p \in Head(j.todo).parts
            /\ FetchedAfter(OpOf(j), StepOf(j), p)
  PROVE  p \in Fetched(Further(j)) \/ Owed(p, Further(j))
<1> DEFINE o == OpOf(j)
           changes == IsOp(j) /\ Head(j.todo).call /\ p \in Head(j.todo).parts
<1>1. JobShape(j) /\ j.todo \in Seq(StepsOn(Parts)) /\ j.todo # <<>>
  BY DEF CurrentInv, FollowInv, JobsFollow, JobShape
<1>2. IsOp(j) => o \in panel.ops /\ j.op \notin Others /\ o.steps \in Seq(StepsOn(Parts))
  BY OperationIsListed, PanelIsListed DEF CurrentInv, FollowInv
<1>3. /\ j.op # "effect"
      /\ \/ FetchesLater(j, p)
         \/ (MadeCall(j, p) \/ changes) /\ FetchesIn(o.after, p)
  <2>1. CASE Owes(j, p)
    BY <2>1 DEF Owes
  <2>2. CASE changes /\ FetchedAfter(o, StepOf(j), p)
    BY <1>2, <2>2, CallIsStep DEF FetchedAfter, FetchesLater, FetchesIn, Others
  <2> QED
    BY <2>1, <2>2
<1>4. CASE Len(j.todo) > 1
  <2> DEFINE t == Tail(j.todo)
             i == [j EXCEPT !.todo = t]
  <2>1. Further(j) = {i} /\ i.op = j.op /\ i.todo = t
    BY <1>1, <1>4 DEF Further, JobShape, JobFields
  <2>2. (IsOp(i) <=> IsOp(j)) /\ OpOf(i) = o
    BY <2>1 DEF IsOp, OpOf
  <2>3. /\ t \in Seq(StepsOn(Parts)) /\ t # <<>> /\ Len(j.todo) \in Nat \ {0} /\ Len(t) = Len(j.todo) - 1
        /\ DOMAIN j.todo = 1..Len(j.todo) /\ DOMAIN t = 1..Len(t)
        /\ \A k \in 1..Len(t) : t[k] = j.todo[k + 1]
    BY <1>1, <1>4, StepsLeft, EmptySeq, LenProperties, HeadTailProperties
  <2>4. Head(t) = t[1]
    BY <2>3, StepsLeft
  <2> HIDE DEF t, i
  <2>5. CASE FetchesLater(j, p)
    <3>1. PICK k \in DOMAIN j.todo : k > 1 /\ Fresh(j.todo[k], p)
      BY <2>5 DEF FetchesLater
    <3>2. k - 1 \in DOMAIN t /\ t[k - 1] = j.todo[k] /\ (k - 1 > 1 \/ k - 1 = 1)
      <4>1. k - 1 \in 1..Len(t) /\ (k - 1) + 1 = k /\ (k - 1 > 1 \/ k - 1 = 1)
        BY <2>3, <3>1
      <4> QED
        BY <2>3, <4>1
    <3>3. CASE k - 1 = 1
      <4>1. Fresh(Head(i.todo), p)
        BY <2>1, <2>4, <3>1, <3>2, <3>3
      <4> QED
        BY <2>1, <4>1 DEF Fetched, Fresh
    <3>4. CASE k - 1 > 1
      BY <1>3, <2>1, <3>1, <3>2, <3>4 DEF Owed, Owes, FetchesLater
    <3> QED
      BY <3>2, <3>3, <3>4
  <2>6. CASE (MadeCall(j, p) \/ changes) /\ FetchesIn(o.after, p)
    <3>1. IsOp(j)
      BY <2>6 DEF MadeCall
    <3>2. Len(o.steps) \in Nat /\ Len(j.todo) <= Len(o.steps)
      BY <1>2, <3>1, LenProperties DEF CurrentInv, JobKeys, IsRest
    <3> DEFINE Sum(a, b) == 1..(a - b) \subseteq 1..(a - (b - 1)) /\ (a - b) + 1 \in 1..(a - (b - 1))
    <3>a. \A a \in Nat : \A b \in Nat \ {0} : b <= a => Sum(a, b)
      OBVIOUS
    <3>b. Sum(Len(o.steps), Len(j.todo)) /\ Len(i.todo) = Len(j.todo) - 1
      <4> HIDE DEF Sum, o
      <4> QED
        BY <2>1, <2>3, <3>2, <3>a
    <3>3. 1..(Len(o.steps) - Len(j.todo)) \subseteq 1..(Len(o.steps) - Len(i.todo))
      BY <3>b
    <3>4. StepOf(j) \in 1..(Len(o.steps) - Len(i.todo))
      BY <3>b DEF StepOf
    <3>5. changes => o.steps[StepOf(j)].call /\ p \in o.steps[StepOf(j)].parts
      BY CallIsStep
    <3>6. MadeCall(i, p)
      BY <2>2, <2>6, <3>1, <3>3, <3>4, <3>5 DEF MadeCall
    <3> QED
      BY <1>3, <2>1, <2>2, <2>6, <3>6 DEF Owed, Owes
  <2> QED
    BY <1>3, <2>5, <2>6
<1>5. CASE ~(Len(j.todo) > 1)
  <2>1. ~FetchesLater(j, p)
    <3>1. DOMAIN j.todo = 1..Len(j.todo) /\ Len(j.todo) \in Nat
      BY <1>1, LenProperties
    <3> QED
      BY <1>5, <3>1 DEF FetchesLater
  <2>2. IsOp(j) /\ FetchesIn(o.after, p)
    BY <1>3, <2>1 DEF MadeCall
  <2>3. Further(j) = After(j)
    BY <1>5, <2>2 DEF Further
  <2>4. PICK t \in o.after : \E k \in DOMAIN t : Fresh(t[k], p)
    BY <2>2 DEF FetchesIn
  <2>5. PICK k \in DOMAIN t : Fresh(t[k], p)
    BY <2>4
  <2> DEFINE i == Job("after", IF o.now THEN key ELSE j.key, t)
  <2>6. i \in Further(j) /\ i.todo = t /\ i.op = "after"
    BY <2>3, <2>4 DEF After, Job
  <2>7. t \in Seq(StepsOn(Parts)) /\ t # <<>>
    BY <1>2, <2>2, <2>4, PanelIsListed DEF CurrentInv, FollowInv
  <2>8. Head(t) = t[1] /\ (k = 1 \/ k > 1)
    BY <2>5, <2>7, StepsLeft, LenProperties
  <2> HIDE DEF i
  <2>9. CASE k = 1
    BY <2>5, <2>6, <2>8, <2>9 DEF Fetched, Fresh
  <2>10. CASE k > 1
    BY <2>5, <2>6, <2>10 DEF Owed, Owes, FetchesLater
  <2> QED
    BY <2>8, <2>9, <2>10
<1> QED
  BY <1>4, <1>5

\* A job that ends early leaves behind what it owes.
LEMMA DebtIsLeft ==
  ASSUME CurrentInv, NEW j \in jobs, NEW p, Owes(j, p)
  PROVE  p \in LeftBehind(j)
<1>1. CASE FetchesLater(j, p)
  <2>1. PICK k \in DOMAIN j.todo : p \in j.todo[k].parts /\ ~j.todo[k].call
    BY <1>1 DEF FetchesLater, Fresh
  <2>2. j.todo[k].call = FALSE
    <3>1. j.todo[k] \in StepsOn(Parts)
      BY <2>1, LenProperties DEF CurrentInv, FollowInv, JobsFollow, JobShape
    <3> QED
      BY <2>1, <3>1 DEF StepsOn
  <2>3. p \in PartsOf(j.todo, FALSE)
    BY <2>1, <2>2 DEF PartsOf
  <2> QED
    BY <2>3 DEF LeftBehind
<1>2. CASE MadeCall(j, p)
  <2> DEFINE o == OpOf(j)
             n == Len(o.steps) - Len(j.todo)
  <2>1. /\ o.steps \in Seq(StepsOn(Parts)) /\ j.todo \in Seq(StepsOn(Parts)) /\ j.todo # <<>>
        /\ Len(j.todo) <= Len(o.steps)
    BY <1>2, OperationIsListed, PanelIsListed
       DEF MadeCall, CurrentInv, FollowInv, JobsFollow, JobShape, JobKeys, IsRest
  <2>a. \A a, b \in Nat : b <= a => a - b \in Nat /\ a - b <= a
    OBVIOUS
  <2>2. n \in Nat /\ n <= Len(o.steps) /\ Len(o.steps) \in Nat
    <3>1. Len(o.steps) \in Nat /\ Len(j.todo) \in Nat
      BY <2>1, LenProperties
    <3> QED
      BY <2>1, <2>a, <3>1, Zenon
  <2>3. PICK i \in 1..n : o.steps[i].call /\ p \in o.steps[i].parts
    BY <1>2 DEF MadeCall
  <2>4. i \in DOMAIN SubSeq(o.steps, 1, n) /\ SubSeq(o.steps, 1, n)[i] = o.steps[i]
    <3>1. \A k \in 1..n : o.steps[k] \in StepsOn(Parts)
      BY <2>1, <2>2, LenProperties
    <3> HIDE DEF n, o
    <3>2. /\ SubSeq(o.steps, 1, n) \in Seq(StepsOn(Parts))
          /\ Len(SubSeq(o.steps, 1, n)) = IF 1 <= n THEN (n - 1) + 1 ELSE 0
          /\ \A k \in 1..((n - 1) + 1) : SubSeq(o.steps, 1, n)[k] = o.steps[(1 + k) - 1]
      BY <2>2, <3>1, SubSeqProperties
    <3>3. i \in 1..((n - 1) + 1) /\ (1 + i) - 1 = i /\ 1 <= n
      BY <2>2, <2>3
    <3>4. i \in DOMAIN SubSeq(o.steps, 1, n)
      BY <3>2, <3>3, LenProperties
    <3>5. SubSeq(o.steps, 1, n)[i] = o.steps[(1 + i) - 1]
      BY <3>2, <3>3
    <3> QED
      BY <3>3, <3>4, <3>5
  <2>5. CallsMade(j) = SubSeq(o.steps, 1, n)
    BY DEF CallsMade
  <2>6. o.steps[i].call = TRUE
    <3>1. o.steps[i] \in StepsOn(Parts)
      BY <2>1, <2>2, <2>3, LenProperties
    <3> QED
      BY <2>3, <3>1 DEF StepsOn
  <2> HIDE DEF n, o
  <2>7. p \in PartsOf(CallsMade(j), TRUE)
    BY <2>3, <2>4, <2>5, <2>6 DEF PartsOf
  <2> QED
    BY <1>2, <2>7 DEF LeftBehind, MadeCall
<1> QED
  BY <1>1, <1>2 DEF Owes

(***************************************************************************)
(* New jobs.                                                               *)
(***************************************************************************)
JobSound(i) ==
    /\ JobShape(i) /\ i.key \in Keys /\ IsRest(i)
    /\ \A p \in Parts : StaysCurrent(panel, p) => IsSimple(i, p)

LEMMA AfterSound ==
  ASSUME OfCatalog, key \in Keys, NEW j, IsOp(j), j.key \in Keys, NEW i \in After(j)
  PROVE  JobSound(i)
<1> DEFINE o == OpOf(j)
<1>1. o \in panel.ops
  BY OperationIsListed
<1>2. PICK t \in o.after : i = Job("after", IF o.now THEN key ELSE j.key, t)
  BY DEF After
<1>3. /\ JobFields(i) /\ i.op = "after" /\ i.todo = t /\ i.key \in Keys
      /\ t \in Seq(StepsOn(Parts)) /\ t # <<>>
  BY <1>1, <1>2, PanelIsListed DEF Job, JobFields
<1>4. ~IsOp(i)
  BY <1>3, Named, PanelIsListed DEF IsOp
<1>5. ASSUME NEW p \in Parts, StaysCurrent(panel, p) PROVE IsSimple(i, p)
  <2>1. t \in panel.mount \cup panel.select \cup UNION {q.after : q \in panel.ops}
    BY <1>1, <1>2
  <2> HIDE DEF o
  <2>2. \A k \in DOMAIN t : p \in t[k].parts => Fresh(t[k], p)
    BY <1>5, <2>1 DEF StaysCurrent
  <2> QED
    BY <1>3, <2>2 DEF IsSimple, Fresh
<1> QED
  BY <1>3, <1>4, <1>5 DEF JobSound, JobShape, IsRest

LEMMA EffectSound ==
  ASSUME OfCatalog, NEW k \in Keys, NEW t \in panel.mount \cup panel.select
  PROVE  JobSound(Job("effect", k, t))
<1> DEFINE i == Job("effect", k, t)
<1>1. JobFields(i) /\ i.op = "effect" /\ i.todo = t /\ i.key \in Keys /\ t \in Seq(StepsOn(Parts)) /\ t # <<>>
  BY PanelIsListed DEF Job, JobFields
<1>2. ~IsOp(i)
  BY <1>1, Named, PanelIsListed DEF IsOp
<1> HIDE DEF i
<1>3. ASSUME NEW p \in Parts, StaysCurrent(panel, p) PROVE IsSimple(i, p)
  <2>1. \A n \in DOMAIN t : p \in t[n].parts => Fresh(t[n], p)
    BY <1>3 DEF StaysCurrent
  <2> QED
    BY <1>1, <2>1 DEF IsSimple, Fresh
<1>4. JobSound(i)
  BY <1>1, <1>2, <1>3 DEF JobSound, JobShape, IsRest
<1> QED
  BY <1>4 DEF i

LEMMA FurtherSound ==
  ASSUME CurrentInv, NEW j \in jobs, NEW i \in Further(j)
  PROVE  JobSound(i)
<1>1. /\ JobShape(j) /\ j.todo \in Seq(StepsOn(Parts)) /\ j.todo # <<>> /\ j.key \in Keys /\ IsRest(j)
      /\ OfCatalog /\ key \in Keys
  BY DEF CurrentInv, FollowInv, JobsFollow, JobShape, JobKeys
<1>2. CASE Len(j.todo) > 1
  <2> DEFINE t == Tail(j.todo)
  <2>1. JobFields(i) /\ i.op = j.op /\ i.key = j.key /\ i.todo = t
    BY <1>1, <1>2 DEF Further, JobShape, JobFields
  <2>2. (IsOp(i) <=> IsOp(j)) /\ OpOf(i) = OpOf(j)
    BY <2>1 DEF IsOp, OpOf
  <2>3. /\ t \in Seq(StepsOn(Parts)) /\ t # <<>> /\ Len(j.todo) \in Nat \ {0} /\ Len(t) = Len(j.todo) - 1
        /\ DOMAIN j.todo = 1..Len(j.todo) /\ DOMAIN t = 1..Len(t)
        /\ \A k \in 1..Len(t) : t[k] = j.todo[k + 1]
    BY <1>1, <1>2, StepsLeft, EmptySeq, LenProperties, HeadTailProperties
  <2> HIDE DEF t
  <2>4. JobShape(i)
    BY <1>1, <2>1, <2>2, <2>3 DEF JobShape
  <2>5. \A k \in DOMAIN t : k + 1 \in DOMAIN j.todo /\ k + 1 # 1 /\ t[k] = j.todo[k + 1]
    BY <2>3
  <2>6. \A p \in Parts : StaysCurrent(panel, p) => IsSimple(i, p)
    BY <2>1, <2>2, <2>5 DEF CurrentInv, PartsCurrent, IsSimple
  <2>7. IsRest(i)
    <3> SUFFICES ASSUME IsOp(i)
                 PROVE  /\ Len(t) <= Len(OpOf(j).steps)
                        /\ \A k \in DOMAIN t : t[k] = OpOf(j).steps[(Len(OpOf(j).steps) - Len(t)) + k]
      BY <2>1, <2>2 DEF IsRest
    <3> DEFINE n == Len(OpOf(j).steps)
    <3>1. /\ n \in Nat /\ Len(j.todo) <= n
          /\ \A k \in DOMAIN j.todo : k # 1 => j.todo[k] = OpOf(j).steps[(n - Len(j.todo)) + k]
      BY <1>1, <2>2, OperationIsListed, PanelIsListed, LenProperties DEF IsRest
    <3> HIDE DEF n
    <3>2. \A k \in DOMAIN t : (n - Len(j.todo)) + (k + 1) = (n - Len(t)) + k
      <4>1. \A a \in Nat : \A b, k \in Nat \ {0} : (a - b) + (k + 1) = (a - (b - 1)) + k
        OBVIOUS
      <4>2. \A k \in DOMAIN t : k \in Nat \ {0}
        BY <2>3
      <4>3. \A k \in DOMAIN t : (n - Len(j.todo)) + (k + 1) = (n - (Len(j.todo) - 1)) + k
        BY <2>3, <3>1, <4>1, <4>2, Zenon
      <4> QED
        BY <2>3, <4>3, Zenon
    <3>3. Len(t) <= n
      BY <2>3, <3>1
    <3> QED
      BY <2>5, <3>1, <3>2, <3>3 DEF n
  <2> QED
    BY <1>1, <2>1, <2>4, <2>6, <2>7 DEF JobSound
<1>3. CASE ~(Len(j.todo) > 1)
  BY <1>1, <1>3, AfterSound DEF Further
<1> QED
  BY <1>2, <1>3

LEMMA ToldSound ==
  ASSUME CurrentInv, NEW j \in jobs, Head(j.todo).call, Head(j.todo).tells,
         NEW i, i = [j EXCEPT !.todo[1] = Answer(@)]
  PROVE  /\ JobSound(i)
         /\ \A p \in Parts : StaysCurrent(panel, p) /\ p \in Head(j.todo).parts => p \in Fetched({i})
         /\ \A p : Owes(j, p) => Owes(i, p)
<1>1. /\ JobShape(j) /\ j.todo \in Seq(StepsOn(Parts)) /\ j.todo # <<>> /\ JobFields(j) /\ j.key \in Keys /\ IsRest(j)
  BY DEF CurrentInv, FollowInv, JobsFollow, JobShape, JobKeys
<1>2. /\ 1 \in DOMAIN j.todo /\ Head(j.todo) = j.todo[1] /\ j.todo[1] \in StepsOn(Parts)
  BY <1>1, StepsLeft
<1> DEFINE t == [j.todo EXCEPT ![1] = Answer(j.todo[1])]
<1>3. JobFields(i) /\ i.op = j.op /\ i.key = j.key /\ i.todo = t
  BY <1>1 DEF JobFields
<1>4. (IsOp(i) <=> IsOp(j)) /\ OpOf(i) = OpOf(j)
  BY <1>3 DEF IsOp, OpOf
<1>5. JobShape(i) /\ t # <<>> /\ t \in Seq(StepsOn(Parts))
  <2>1. JobShape(i)
    BY ToldFits DEF CurrentInv
  <2> QED
    BY <1>3, <2>1 DEF JobShape
<1>6. DOMAIN t = DOMAIN j.todo /\ t[1] = Answer(j.todo[1]) /\ \A k \in DOMAIN t : k # 1 => t[k] = j.todo[k]
  BY <1>2
<1>7. Answer(j.todo[1]).parts = j.todo[1].parts /\ Answer(j.todo[1]).merges = j.todo[1].merges /\ ~Answer(j.todo[1]).call
  BY <1>2 DEF Answer, StepsOn
<1>8. Head(t) = t[1] /\ Len(t) = Len(j.todo)
  <2>1. Len(t) \in Nat /\ DOMAIN t = 1..Len(t) /\ Len(j.todo) \in Nat /\ DOMAIN j.todo = 1..Len(j.todo)
    BY <1>1, <1>5, LenProperties
  <2>2. \A a, b \in Nat : 1..a = 1..b => a = b
    <3> TAKE a, b \in Nat
    <3> HAVE 1..a = 1..b
    <3>1. (a = 0 \/ a \in 1..b) /\ (b = 0 \/ b \in 1..a)
      OBVIOUS
    <3> QED
      BY <3>1
  <2>3. Len(t) = Len(j.todo)
    BY <1>6, <2>1, <2>2, Zenon
  <2> HIDE DEF t
  <2>4. Head(t) = t[1]
    BY <1>5, StepsLeft
  <2> QED
    BY <2>3, <2>4
<1> HIDE DEF t
<1>9. ASSUME NEW p \in Parts, StaysCurrent(panel, p)
      PROVE  IsSimple(i, p) /\ (p \in Head(j.todo).parts => p \in Fetched({i}))
  <2>1. IsSimple(j, p)
    BY <1>9 DEF CurrentInv, PartsCurrent
  <2>2. IsSimple(i, p)
    BY <1>2, <1>3, <1>4, <1>6, <1>7, <2>1 DEF IsSimple
  <2>3. p \in Head(j.todo).parts => ~Head(i.todo).call /\ ~Head(i.todo).merges /\ p \in Head(i.todo).parts
    BY <1>2, <1>3, <1>6, <1>7, <1>8, <2>1 DEF IsSimple
  <2> QED
    BY <2>2, <2>3 DEF Fetched
<1>10. IsRest(i)
  <2> SUFFICES ASSUME IsOp(i)
               PROVE  /\ Len(t) <= Len(OpOf(j).steps)
                      /\ \A k \in DOMAIN t : LET s == OpOf(j).steps[(Len(OpOf(j).steps) - Len(t)) + k] IN
                            t[k] = s \/ (k = 1 /\ t[k] = Answer(s))
    BY <1>3, <1>4 DEF IsRest
  <2>1. Len(j.todo) <= Len(OpOf(j).steps)
    BY <1>1, <1>4 DEF IsRest
  <2>2. j.todo[1] = OpOf(j).steps[StepOf(j)]
    BY <1>2, <1>4, CallIsStep
  <2>3. \A k \in DOMAIN j.todo : k # 1 => j.todo[k] = OpOf(j).steps[(Len(OpOf(j).steps) - Len(j.todo)) + k]
    BY <1>1, <1>4 DEF IsRest
  <2> QED
    BY <1>6, <1>8, <2>1, <2>2, <2>3 DEF StepOf
<1>11. ASSUME NEW p, Owes(j, p) PROVE Owes(i, p)
  <2>1. FetchesLater(j, p) => FetchesLater(i, p)
    <3> SUFFICES ASSUME NEW k \in DOMAIN j.todo, k > 1, Fresh(j.todo[k], p)
                 PROVE  k \in DOMAIN t /\ Fresh(t[k], p)
      BY <1>3 DEF FetchesLater
    <3>1. k # 1
      BY <1>1, LenProperties
    <3> QED
      BY <1>6, <3>1
  <2>2. MadeCall(j, p) => MadeCall(i, p)
    BY <1>3, <1>4, <1>8 DEF MadeCall
  <2> QED
    BY <1>3, <1>4, <1>11, <2>1, <2>2 DEF Owes
<1> QED
  BY <1>1, <1>3, <1>5, <1>9, <1>10, <1>11 DEF JobSound

(***************************************************************************)
(* Steps.                                                                  *)
(***************************************************************************)
LEMMA SamePanelCurrent ==
  ASSUME panel' = panel
  PROVE  /\ \A p : StaysCurrent(panel, p)' <=> StaysCurrent(panel, p)
         /\ \A j : IsRest(j)' <=> IsRest(j)
         /\ \A j, p : IsSimple(j, p)' <=> IsSimple(j, p)
         /\ \A j, p, s, lost, js : JobCurrent(j, p, s, lost, js)' <=> JobCurrent(j, p, s, lost, js)
         /\ \A r, p, s, lost, js : RowCurrent(r, p, s, lost, js)' <=> RowCurrent(r, p, s, lost, js)
<1>1. \A j : (IsOp(j)' <=> IsOp(j)) /\ OpOf(j)' = OpOf(j)
  BY DEF IsOp, OpOf
<1>2. \A j, p : Owes(j, p)' <=> Owes(j, p)
  BY <1>1 DEF Owes, MadeCall, FetchesLater
<1>3. \A p, js : Owed(p, js)' <=> Owed(p, js)
  BY <1>2 DEF Owed
<1>4. \A j, p, k : Writes(j, p, k)' <=> Writes(j, p, k)
  BY <1>1 DEF Writes, KeyOf
<1> QED
  BY <1>1, <1>3, <1>4 DEF StaysCurrent, Settled, IsRest, IsSimple, JobCurrent, RowCurrent, Written, KeyOf

\* A step that sends jobs keeps the invariant if what it does not fetch is current.
RowTyped(r) == RowShape(r) /\ r.key \in Keys \cup {None} /\ (r.val # None => r.key \in Keys)
ComeFrom(js) == \A i \in js : JobFields(i) /\ \E j \in jobs : Keeps(j, i)
LEMMA SentOnInv ==
  ASSUME CurrentInv, FollowInv', panel' = panel, srv' \in [Parts -> [Keys -> Nat]],
         NEW js, NEW new, NEW ps, NEW cells, ComeFrom(js),
         jobs' = Sending(js, new, ps, srv'), shown' = Older(cells, Fetched(new)),
         \A i \in new : JobSound(i), \A p \in Parts : RowTyped(cells[p]),
         \A p \in Parts :
            StaysCurrent(panel, p) /\ p \notin Fetched(new) /\ p \notin missed' /\ ~Owed(p, new) =>
              /\ \A j \in js : p \notin ps => JobCurrent(j, p, srv', missed', js \cup new)
              /\ RowCurrent(cells[p], p, srv', missed', js \cup new)
  PROVE  CurrentInv'
<1>1. \A j \in jobs : JobShape(j) /\ j.key \in Keys /\ IsRest(j)
  BY DEF CurrentInv, FollowInv, JobsFollow, JobKeys
<1>3. \A i, j : Keeps(i, j) => (IsRest(i) <=> IsRest(j)) /\ i.key = j.key
  BY DEF Keeps, IsRest, IsOp, OpOf
<1>0. \A i, j : Keeps(i, j) /\ JobFields(j) /\ JobShape(i) => JobShape(j)
  BY DEF Keeps, JobShape, IsOp, OpOf
<1>a. \A i, j, p : Keeps(i, j) => (IsSimple(i, p) <=> IsSimple(j, p))
  BY DEF Keeps, IsSimple, IsOp, OpOf
<1>2. \A j \in js \cup new : JobFields(j) /\ JobShape(j) /\ j.key \in Keys /\ IsRest(j)
  <2>1. ASSUME NEW j \in js PROVE JobFields(j) /\ JobShape(j) /\ j.key \in Keys /\ IsRest(j)
    BY <1>0, <1>1, <1>3 DEF ComeFrom
  <2> QED
    BY <2>1 DEF JobSound, JobShape
<1>4. \A j \in jobs' : j.key \in Keys /\ IsRest(j)
  <2> TAKE j \in jobs'
  <2>1. \E i \in js \cup new : Keeps(i, j)
    BY <1>2, SentJobs
  <2> QED
    BY <1>2, <1>3, <2>1
<1>5. ASSUME NEW p \in Parts
      PROVE  LET r == shown'[p]
             IN  RowShape(r) /\ r.key = cells[p].key /\ r.val = cells[p].val /\ (r.latest => cells[p].latest /\ p \notin Fetched(new))
  BY OlderRows DEF RowTyped
<1>6. \A p \in Parts : shown'[p].key \in Keys \cup {None} /\ (shown'[p].val # None => shown'[p].key \in Keys)
  BY <1>5 DEF RowTyped
<1>7. ASSUME NEW p \in Parts, StaysCurrent(panel, p)
      PROVE  /\ \A j \in jobs' : IsSimple(j, p) /\ JobCurrent(j, p, srv', missed', jobs')
             /\ RowCurrent(shown'[p], p, srv', missed', jobs')
  <2>1. \A j \in js \cup new : JobShape(j) /\ IsSimple(j, p)
    <3>1. \A j \in js : IsSimple(j, p)
      BY <1>a, <1>7 DEF ComeFrom, CurrentInv, PartsCurrent
    <3> QED
      BY <1>2, <1>7, <3>1 DEF JobSound
  <2>2. Owed(p, new) => Owed(p, js \cup new)
    BY DEF Owed
  <2>3. p \notin Fetched(new) =>
            /\ \A j \in js : p \notin ps => JobCurrent(j, p, srv', missed', js \cup new)
            /\ RowCurrent(cells[p], p, srv', missed', js \cup new)
    <3>1. CASE Owed(p, new) \/ p \in missed'
      BY <2>2, <3>1 DEF JobCurrent, RowCurrent
    <3>2. CASE ~(Owed(p, new) \/ p \in missed')
      BY <1>7, <3>2
    <3> QED
      BY <3>1, <3>2
  <2>4. /\ shown'[p].key = cells[p].key /\ shown'[p].val = cells[p].val
        /\ shown'[p].latest => cells[p].latest /\ p \notin Fetched(new)
    BY <1>5
  <2> QED
    BY <2>1, <2>3, <2>4, SentCurrent
<1>8. Parts' = Parts
  BY DEF Parts
<1>9. RowKeys' /\ JobKeys'
  BY <1>4, <1>6, <1>8, SamePanelCurrent DEF RowKeys, JobKeys
<1>10. PartsCurrent'
  BY <1>7, <1>8, SamePanelCurrent DEF PartsCurrent
<1> QED
  BY <1>8, <1>9, <1>10 DEF CurrentInv

LEMMA SentInv ==
  ASSUME CurrentInv, FollowInv', panel' = panel, srv' \in [Parts -> [Keys -> Nat]],
         NEW js, NEW new, NEW ps, NEW cells, js \subseteq jobs,
         jobs' = Sending(js, new, ps, srv'), shown' = Older(cells, Fetched(new)),
         \A i \in new : JobSound(i), \A p \in Parts : RowTyped(cells[p]),
         \A p \in Parts :
            StaysCurrent(panel, p) /\ p \notin Fetched(new) /\ p \notin missed' /\ ~Owed(p, new) =>
              /\ \A j \in js : p \notin ps => JobCurrent(j, p, srv', missed', js \cup new)
              /\ RowCurrent(cells[p], p, srv', missed', js \cup new)
  PROVE  CurrentInv'
<1>1. ComeFrom(js)
  BY DEF ComeFrom, Keeps, CurrentInv, FollowInv, JobsFollow, JobShape
<1> QED
  BY <1>1, SentOnInv

\* What other jobs bring, and what is shown, stays current where the server's data
\* stays, if the job that is answered does not vouch for it.
LEMMA OthersCurrent ==
  ASSUME CurrentInv, NEW j \in jobs, NEW p \in Parts, StaysCurrent(panel, p), ~Owes(j, p), p \notin missed,
         NEW s, NEW k, \A i \in Keys : i # k => s[p][i] = srv[p][i],
         s[p] = srv[p] \/ p \notin Fetched(jobs), NEW lost, NEW new
  PROVE  /\ \A i \in jobs \ {j} : JobCurrent(i, p, s, lost, (jobs \ {j}) \cup new)
         /\ (s[p] = srv[p] \/ shown[p].key # k) /\ ~Writes(j, p, shown[p].key)
              => RowCurrent(shown[p], p, s, lost, (jobs \ {j}) \cup new)
<1>1. /\ \A i \in jobs : IsSimple(i, p) /\ JobCurrent(i, p, srv, missed, jobs)
      /\ RowCurrent(shown[p], p, srv, missed, jobs)
  BY DEF CurrentInv, PartsCurrent
<1>2. Owed(p, jobs) => Owed(p, (jobs \ {j}) \cup new)
  BY DEF Owed
<1>3. ASSUME NEW i \in jobs \ {j} PROVE JobCurrent(i, p, s, lost, (jobs \ {j}) \cup new)
  <2>1. CASE Fresh(Head(i.todo), p)
    <3>1. p \in Fetched(jobs)
      BY <2>1 DEF Fetched, Fresh
    <3> QED
      BY <1>1, <1>2, <3>1 DEF JobCurrent
  <2>2. CASE ~Fresh(Head(i.todo), p)
    BY <2>2 DEF JobCurrent
  <2> QED
    BY <2>1, <2>2
<1>4. ASSUME s[p] = srv[p] \/ shown[p].key # k, ~Writes(j, p, shown[p].key)
      PROVE  RowCurrent(shown[p], p, s, lost, (jobs \ {j}) \cup new)
  <2>1. shown[p].val # None => s[p][shown[p].key] = srv[p][shown[p].key]
    BY <1>4 DEF CurrentInv, RowKeys
  <2>2. Written(p, shown[p].key, jobs) => Written(p, shown[p].key, (jobs \ {j}) \cup new)
    BY <1>4 DEF Written
  <2> QED
    BY <1>1, <1>2, <2>1, <2>2 DEF RowCurrent
<1> QED
  BY <1>3, <1>4

LEMMA CurrentSelect ==
  ASSUME CurrentInv, FollowInv', NEW k \in Keys, Select(k)
  PROVE  CurrentInv'
<1> DEFINE new == Effects(panel.select, k)
           kept == Left(jobs)
           bare == [p \in Parts |-> IF p \in panel.clears THEN Nothing(FALSE) ELSE shown[p]]
<1>1. /\ jobs' = Sending(kept, new, {}, srv') /\ shown' = Older(bare, Fetched(new))
      /\ missed' = missed \ Fetched(new) /\ panel' = panel /\ srv' = srv
  BY DEF Select
<1>2. \A i \in new : JobSound(i)
  BY EffectSound DEF Effects, CurrentInv, FollowInv
<1>3. \A p \in Parts : RowTyped(bare[p]) /\ (bare[p].val = None \/ bare[p] = shown[p])
  BY DEF Nothing, RowTyped, RowShape, CurrentInv, FollowInv, RowsFollow, RowKeys
<1>8. \A j \in jobs : JobFields(j)
  BY DEF CurrentInv, FollowInv, JobsFollow, JobShape
<1>5. /\ \A i \in kept : JobFields(i) /\ \E j \in jobs : Keeps(j, i) /\ i.late = j.late /\ i.seen = j.seen
      /\ ComeFrom(kept)
  BY <1>8, LeftJobs DEF ComeFrom
<1>4. \A j \in jobs : j.op # "effect" \/ IsOp(j) => \E i \in kept : Keeps(j, i)
  <2>1. \A j \in jobs : j.op # "effect" \/ IsOp(j) => ~Dropped(j)
    BY OperationIsListed DEF Dropped, CurrentInv, FollowInv, Others
  <2> QED
    BY <1>8, <2>1, LeftJobs
<1>9. \A i, j : Keeps(i, j) => (IsOp(j) <=> IsOp(i)) /\ OpOf(j) = OpOf(i)
  BY DEF Keeps, IsOp, OpOf
<1> HIDE DEF new, kept, bare
<1>6. ASSUME NEW p \in Parts, StaysCurrent(panel, p), p \notin Fetched(new), p \notin missed'
      PROVE  /\ \A j \in kept : JobCurrent(j, p, srv', missed', kept \cup new)
             /\ RowCurrent(bare[p], p, srv', missed', kept \cup new)
  <2>1. /\ \A j \in jobs : JobCurrent(j, p, srv, missed, jobs)
        /\ RowCurrent(shown[p], p, srv, missed, jobs) /\ p \notin missed
    BY <1>1, <1>6 DEF CurrentInv, PartsCurrent
  <2>2. Owed(p, jobs) => Owed(p, kept \cup new)
    BY <1>4, <1>9 DEF Owed, Owes, Keeps, MadeCall, FetchesLater
  <2>3. Written(p, shown[p].key, jobs) => Written(p, shown[p].key, kept \cup new)
    BY <1>4, <1>9 DEF Written, Writes, Keeps
  <2>4. \A j \in kept : JobCurrent(j, p, srv', missed', kept \cup new)
    <3> TAKE j \in kept
    <3>1. PICK i \in jobs : Keeps(i, j) /\ j.late = i.late /\ j.seen = i.seen
      BY <1>5
    <3>2. JobCurrent(i, p, srv, missed, jobs)
      BY <2>1
    <3> QED
      BY <1>1, <2>1, <2>2, <3>1, <3>2 DEF JobCurrent, Keeps
  <2>5. RowCurrent(bare[p], p, srv', missed', kept \cup new)
    <3>1. CASE bare[p].val = None
      BY <3>1 DEF RowCurrent
    <3>2. CASE bare[p] = shown[p]
      <4>1. RowCurrent(shown[p], p, srv, missed', kept \cup new)
        BY <1>6, <2>1, <2>2, <2>3 DEF RowCurrent
      <4> QED
        BY <1>1, <3>2, <4>1
    <3> QED
      BY <1>3, <3>1, <3>2
  <2> QED
    BY <2>4, <2>5
<1>7. srv' \in [Parts -> [Keys -> Nat]]
  BY <1>1 DEF CurrentInv
<1> QED
  BY <1>1, <1>2, <1>3, <1>5, <1>6, <1>7, SentOnInv

LEMMA CurrentClick ==
  ASSUME CurrentInv, FollowInv', NEW o \in panel.ops, Click(o)
  PROVE  CurrentInv'
<1> DEFINE j == Job(o.name, Object(o), o.steps)
           new == IF o.steps = <<>> THEN After(j) ELSE {j}
           cells == [p \in Parts |-> IF p \in o.typed THEN Typing(p) ELSE shown[p]]
<1>1. /\ jobs' = Sending(jobs, new, o.typed, srv') /\ shown' = Older(cells, Fetched(new))
      /\ missed' = missed \ Fetched(new) /\ UNCHANGED <<panel, key, srv>>
  BY DEF Click
<1>2. /\ OfCatalog /\ key \in Keys /\ None \notin Keys /\ 1 \in Keys /\ o.typed \subseteq Parts
      /\ o.steps \in Seq(StepsOn(Parts))
      /\ \A p \in Parts : shown[p].key \in Keys \cup {None} /\ RowShape(shown[p])
      /\ \A p \in Parts : shown[p].val # None => shown[p].key \in Keys
  BY SomeKeys, PanelIsListed DEF CurrentInv, FollowInv, RowKeys, RowsFollow
<1>3. JobFields(j) /\ j.op = o.name /\ j.key = Object(o) /\ j.todo = o.steps
  BY DEF Job, JobFields
<1>4. IsOp(j) /\ OpOf(j) = o
  BY <1>2, <1>3, OperationOf, PanelIsListed
<1>5. Object(o) \in Keys
  <2> DEFINE ks == {shown[p].key : p \in o.typed} \ {None}
  <2>1. ks \subseteq Keys
    BY <1>2
  <2>2. Object(o) = IF ks = {} THEN key ELSE CHOOSE k \in ks : TRUE
    BY DEF Object
  <2> HIDE DEF ks
  <2>3. ks # {} => (CHOOSE k \in ks : TRUE) \in ks
    OBVIOUS
  <2> QED
    BY <1>2, <2>1, <2>2, <2>3
<1>6. o.steps # <<>> => JobSound(j)
  <2> HAVE o.steps # <<>>
  <2>1. JobShape(j)
    BY <1>2, <1>3, <1>4 DEF JobShape
  <2>2. IsRest(j)
    <3>1. \A n \in Nat : \A i \in 1..n : (n - n) + i = i
      OBVIOUS
    <3>2. Len(o.steps) \in Nat /\ DOMAIN o.steps = 1..Len(o.steps)
      BY <1>2, LenProperties
    <3>3. Len(o.steps) <= Len(o.steps)
      BY <3>2
    <3> QED
      BY <1>3, <1>4, <3>1, <3>2, <3>3 DEF IsRest
  <2>3. \A p \in Parts : StaysCurrent(panel, p) => IsSimple(j, p)
    BY <1>3, <1>4 DEF StaysCurrent, IsSimple
  <2> QED
    BY <1>3, <1>5, <2>1, <2>2, <2>3 DEF JobSound
<1>7. \A i \in new : JobSound(i)
  BY <1>2, <1>3, <1>4, <1>5, <1>6, AfterSound
<1>8. \A p \in Parts : RowTyped(cells[p]) /\ cells[p] = IF p \in o.typed THEN Typing(p) ELSE shown[p]
  <2> TAKE p \in Parts
  <2>1. RowTyped(shown[p])
    BY <1>2 DEF RowTyped
  <2>2. KeyOf(p, key) \in Keys
    BY <1>2 DEF KeyOf
  <2>3. RowTyped(Typing(p))
    BY <1>2, <2>2 DEF RowTyped, Typing, RowShape
  <2> QED
    BY <2>1, <2>3
<1>9. ASSUME NEW p \in Parts, StaysCurrent(panel, p), p \in o.typed
      PROVE  \E i \in new : Writes(i, p, Typing(p).key)
  <2>1. o.steps # <<>> /\ o.steps[1].call /\ (p \notin panel.keyed \/ o.typed = {p})
    BY <1>9 DEF StaysCurrent
  <2>2. Head(o.steps) = o.steps[1]
    BY <1>2, <2>1, StepsLeft
  <2>3. Typing(p).key = IF shown[p].key = None THEN KeyOf(p, key) ELSE shown[p].key
    BY DEF Typing
  <2>4. KeyOf(p, Object(o)) = Typing(p).key
    <3>1. CASE p \notin panel.keyed
      <4>1. shown[p].key \in {None, 1}
        BY <3>1 DEF CurrentInv, FollowInv, RowsFollow, Certain, KeyOf
      <4> QED
        BY <2>3, <3>1, <4>1 DEF KeyOf
    <3>2. CASE p \in panel.keyed
      <4>1. o.typed = {p}
        BY <2>1, <3>2
      <4>2. {shown[q].key : q \in o.typed} \ {None} = {shown[p].key} \ {None}
        BY <4>1
      <4>3. Object(o) = IF shown[p].key = None THEN key ELSE shown[p].key
        BY <4>2 DEF Object
      <4> QED
        BY <2>3, <3>2, <4>3 DEF KeyOf
    <3> QED
      BY <3>1, <3>2
  <2>5. Writes(j, p, Typing(p).key)
    BY <1>3, <1>4, <1>9, <2>1, <2>2, <2>4 DEF Writes
  <2> QED
    BY <2>1, <2>5
<1> HIDE DEF j, new, cells
<1>10. ASSUME NEW p \in Parts, StaysCurrent(panel, p), p \notin Fetched(new), p \notin missed'
       PROVE  /\ \A i \in jobs : p \notin o.typed => JobCurrent(i, p, srv', missed', jobs \cup new)
              /\ RowCurrent(cells[p], p, srv', missed', jobs \cup new)
  <2>1. /\ \A i \in jobs : JobCurrent(i, p, srv, missed, jobs)
        /\ RowCurrent(shown[p], p, srv, missed, jobs) /\ p \notin missed
    BY <1>1, <1>10 DEF CurrentInv, PartsCurrent
  <2>2. Owed(p, jobs) => Owed(p, jobs \cup new)
    BY DEF Owed
  <2>3. \A i \in jobs : JobCurrent(i, p, srv', missed', jobs \cup new)
    BY <1>1, <2>1, <2>2 DEF JobCurrent
  <2>4. CASE p \in o.typed
    <3>1. Written(p, cells[p].key, jobs \cup new)
      BY <1>8, <1>9, <1>10, <2>4 DEF Written
    <3> QED
      BY <2>3, <3>1 DEF RowCurrent
  <2>5. CASE p \notin o.typed
    <3>1. cells[p] = shown[p]
      BY <1>8, <2>5
    <3>2. Written(p, shown[p].key, jobs) => Written(p, shown[p].key, jobs \cup new)
      BY DEF Written
    <3>3. RowCurrent(shown[p], p, srv, missed', jobs \cup new)
      BY <1>10, <2>1, <2>2, <3>2 DEF RowCurrent
    <3> QED
      BY <1>1, <2>3, <3>1, <3>3
  <2> QED
    BY <2>4, <2>5
<1>11. srv' \in [Parts -> [Keys -> Nat]]
  BY <1>1 DEF CurrentInv
<1> QED
  BY <1>1, <1>7, <1>8, <1>10, <1>11, SentInv

\* A call that fetches nothing more of a part wrote what is typed there.
LEMMA CallCurrent ==
  ASSUME CurrentInv, NEW j \in jobs, NEW p \in Parts, StaysCurrent(panel, p), ~Owes(j, p), p \notin missed,
         NEW s, s = srv \/ s = Changed(Head(j.todo).parts, j.key), p \notin Crossed(j, s),
         s # srv /\ p \in Head(j.todo).parts => IsOp(j) /\ p \in OpOf(j).typed /\ p \notin panel.views,
         NEW lost, NEW new
  PROVE  /\ \A i \in jobs \ {j} : JobCurrent(i, p, s, lost, (jobs \ {j}) \cup new)
         /\ RowCurrent(shown[p], p, s, lost, (jobs \ {j}) \cup new)
<1> DEFINE k == KeyOf(p, j.key)
           types == IsOp(j) /\ p \in OpOf(j).typed
           ps == Head(j.todo).parts
<1>1. types => shown[p].val = s[p][k] /\ p \notin Fetched(jobs)
  BY DEF Crossed
<1>2. srv \in [Parts -> [Keys -> Nat]]
  BY DEF CurrentInv
<1>3. s = srv \/ p \notin ps => s[p] = srv[p]
  <2>1. CASE s = Changed(ps, j.key) /\ p \notin ps
    <3>1. s[p] = [i \in Keys |-> srv[p][i] + 0]
      BY <2>1 DEF Changed
    <3>2. \A i \in Keys : srv[p][i] + 0 = srv[p][i]
      BY <1>2
    <3> QED
      BY <1>2, <3>1, <3>2
  <2> QED
    BY <2>1
<1>4. p \notin panel.views => \A i \in Keys : i # k => s[p][i] = srv[p][i]
  <2>1. CASE s = Changed(ps, j.key) /\ p \notin panel.views
    <3>1. \A i \in Keys : i # k => s[p][i] = srv[p][i] + 0
      BY <2>1 DEF Changed
    <3> QED
      BY <1>2, <3>1
  <2> QED
    BY <2>1
<1>5. \A i \in Keys : i # k => s[p][i] = srv[p][i]
  BY <1>3, <1>4
<1>6. s[p] = srv[p] \/ (types /\ p \notin Fetched(jobs))
  BY <1>1, <1>3
<1>7. types /\ shown[p].key = k => RowCurrent(shown[p], p, s, lost, (jobs \ {j}) \cup new)
  BY <1>1 DEF RowCurrent
<1>8. ~(types /\ shown[p].key = k) => ~Writes(j, p, shown[p].key)
  BY DEF Writes
<1> HIDE DEF k, types, ps
<1>9. /\ \A i \in jobs \ {j} : JobCurrent(i, p, s, lost, (jobs \ {j}) \cup new)
      /\ (s[p] = srv[p] \/ shown[p].key # k) /\ ~Writes(j, p, shown[p].key)
              => RowCurrent(shown[p], p, s, lost, (jobs \ {j}) \cup new)
  BY <1>5, <1>6, OthersCurrent
<1> QED
  BY <1>6, <1>7, <1>8, <1>9

LEMMA ServerTyped ==
  ASSUME CurrentInv, NEW ps, NEW k
  PROVE  srv \in [Parts -> [Keys -> Nat]] /\ Changed(ps, k) \in [Parts -> [Keys -> Nat]]
BY DEF CurrentInv, Changed

LEMMA RowsTyped ==
  ASSUME CurrentInv
  PROVE  \A p \in Parts : RowTyped(shown[p])
BY DEF CurrentInv, FollowInv, RowsFollow, RowKeys, RowTyped

\* A call on a part that somebody waits for is an operation's, and not to a workflow;
\* it is settled.
LEMMA CallOnPart ==
  ASSUME CurrentInv, NEW j \in jobs, Head(j.todo).call, NEW p \in Parts, StaysCurrent(panel, p),
         p \in Head(j.todo).parts, j.op # "stray" \/ Head(j.todo).lags
  PROVE  IsOp(j) /\ ~Head(j.todo).lags /\ ~Head(j.todo).merges
         /\ \/ FetchedAfter(OpOf(j), StepOf(j), p)
            \/ Head(j.todo).tells /\ "lost" \notin Head(j.todo).deaf
            \/ p \in OpOf(j).typed /\ p \notin panel.views
<1>1. 1 \in DOMAIN j.todo /\ Head(j.todo) = j.todo[1] /\ IsSimple(j, p)
  BY StepsLeft DEF CurrentInv, FollowInv, JobsFollow, JobShape, PartsCurrent
<1>2. IsOp(j) /\ ~Head(j.todo).merges
  BY <1>1 DEF IsSimple
<1>3. /\ OpOf(j) \in panel.ops /\ StepOf(j) \in DOMAIN OpOf(j).steps
      /\ Head(j.todo) = OpOf(j).steps[StepOf(j)]
  BY <1>2, OperationIsListed, CallIsStep DEF CurrentInv, FollowInv
<1>4. ~OpOf(j).steps[StepOf(j)].lags /\ Settled(panel, OpOf(j), StepOf(j), p)
  BY <1>3 DEF StaysCurrent
<1> QED
  BY <1>2, <1>3, <1>4 DEF Settled

LEMMA CurrentAnswers ==
  ASSUME CurrentInv, FollowInv', NEW j \in jobs, Answers(j)
  PROVE  CurrentInv'
<1> DEFINE ps == Head(j.todo).parts
           rest == jobs \ {j}
           Stays(p, s, lost, new, row) ==
              /\ \A i \in rest : JobCurrent(i, p, s, lost, rest \cup new)
              /\ RowCurrent(row, p, s, lost, rest \cup new)
<1>1. /\ OfCatalog /\ key \in Keys /\ None \notin Keys /\ 1 \in Keys /\ j.key \in Keys
      /\ \A i \in Further(j) : JobSound(i)
      /\ IsOp(j) => \A i \in After(j) : JobSound(i)
  BY SomeKeys, AfterSound, FurtherSound DEF CurrentInv, FollowInv, JobKeys
<1>2. 1 \in DOMAIN j.todo /\ Head(j.todo) = j.todo[1] /\ ps \subseteq Parts
  <2>1. j.todo \in Seq(StepsOn(Parts)) /\ j.todo # <<>>
    BY DEF CurrentInv, FollowInv, JobsFollow, JobShape
  <2>2. Head(j.todo) \in StepsOn(Parts)
    BY <2>1, StepsLeft
  <2> QED
    BY <2>1, <2>2, StepsLeft DEF StepsOn
<1>3. CASE CallDone(j)
  <2> DEFINE told == [j EXCEPT !.todo[1] = Answer(@)]
             new == IF Head(j.todo).tells THEN {told} ELSE Further(j)
             s == Changed(ps, j.key)
  <2>1. /\ jobs' = Sending(rest, new, {}, srv') /\ shown' = Older(shown, Fetched(new))
        /\ missed' = (missed \ Fetched(new)) \cup Crossed(j, srv') \cup IF j.op = "stray" THEN ps ELSE {}
        /\ panel' = panel /\ srv' = s /\ Head(j.todo).call
    BY <1>3 DEF CallDone
  <2>2. Head(j.todo).tells =>
          /\ JobSound(told)
          /\ \A p \in Parts : StaysCurrent(panel, p) /\ p \in ps => p \in Fetched({told})
          /\ \A p : Owes(j, p) => Owes(told, p)
    BY <2>1, ToldSound
  <2>3. \A i \in new : JobSound(i)
    BY <1>1, <2>2
  <2>4. ASSUME NEW p \in Parts, StaysCurrent(panel, p), p \notin Fetched(new), p \notin missed', ~Owed(p, new)
        PROVE  Stays(p, srv', missed', new, shown[p])
    <3>1. p \notin missed /\ p \notin Crossed(j, srv')
      BY <2>1, <2>4
    <3>2. ~Owes(j, p)
      BY <2>2, <2>4, DebtGoesOn DEF Owed
    <3>4. p \in ps => j.op # "stray"
      BY <2>1, <2>4
    <3>3. p \in ps => IsOp(j) /\ p \in OpOf(j).typed /\ p \notin panel.views
      BY <2>1, <2>2, <2>4, <3>4, CallOnPart, DebtGoesOn
    <3> HIDE DEF s, new
    <3> QED
      BY <2>1, <2>4, <3>1, <3>2, <3>3, CallCurrent DEF s
  <2>5. srv' \in [Parts -> [Keys -> Nat]]
    BY <2>1, ServerTyped
  <2> HIDE DEF s, new
  <2> QED
    BY <2>1, <2>3, <2>4, <2>5, RowsTyped, SentInv
<1>4. CASE CallTaken(j)
  <2> DEFINE w == Job("workflow", j.key, <<Call(ps)>>)
             new == Further(j) \cup {w}
  <2>1. /\ jobs' = Sending(rest, new, {}, srv') /\ shown' = Older(shown, Fetched(new))
        /\ missed' = missed \ Fetched(new) /\ panel' = panel /\ srv' = srv
        /\ Head(j.todo).call /\ Head(j.todo).lags
    BY <1>4 DEF CallTaken
  <2>2. JobSound(w)
    <3>1. JobShape(w)
      BY WorkflowFits DEF CurrentInv
    <3>2. w.op = "workflow" /\ w.key = j.key /\ w.todo = <<Call(ps)>>
      BY DEF Job
    <3>3. ~IsOp(w)
      BY <1>1, <3>2, Named, PanelIsListed DEF IsOp
    <3>4. \A p \in Parts : StaysCurrent(panel, p) => p \notin ps
      BY <2>1, CallOnPart
    <3>5. \A i \in DOMAIN w.todo : w.todo[i].parts = ps
      <4> DEFINE t == <<Call(ps)>>
      <4>1. DOMAIN t = {1} /\ t[1].parts = ps
        BY DEF Call
      <4> HIDE DEF t, w
      <4> QED
        BY <3>2, <4>1 DEF t
    <3>6. \A p \in Parts : StaysCurrent(panel, p) => IsSimple(w, p)
      BY <3>4, <3>5 DEF IsSimple
    <3> QED
      BY <1>1, <3>1, <3>2, <3>3, <3>6 DEF JobSound, IsRest
  <2>3. \A i \in new : JobSound(i)
    BY <1>1, <2>2
  <2>4. ASSUME NEW p \in Parts, StaysCurrent(panel, p), p \notin Fetched(new), p \notin missed', ~Owed(p, new)
        PROVE  Stays(p, srv', missed', new, shown[p])
    <3>1. p \notin missed
      BY <2>1, <2>4
    <3>2. ~Owes(j, p)
      <4>1. p \notin Fetched(Further(j)) /\ ~Owed(p, Further(j))
        BY <2>4 DEF Fetched, Owed
      <4> QED
        BY <4>1, DebtGoesOn
    <3>3. ~Writes(j, p, shown[p].key)
      <4> SUFFICES ASSUME IsOp(j), p \in OpOf(j).typed PROVE FALSE
        BY DEF Writes
      <4>1. OpOf(j) \in panel.ops /\ StepOf(j) \in DOMAIN OpOf(j).steps /\ Head(j.todo) = OpOf(j).steps[StepOf(j)]
        BY <1>1, <2>1, OperationIsListed, CallIsStep
      <4> QED
        BY <2>1, <2>4, <4>1 DEF StaysCurrent
    <3> HIDE DEF new, w
    <3> QED
      BY <2>1, <2>4, <3>1, <3>2, <3>3, OthersCurrent
  <2>5. srv' \in [Parts -> [Keys -> Nat]]
    BY <2>1, ServerTyped
  <2> HIDE DEF w, new
  <2> QED
    BY <2>1, <2>3, <2>4, <2>5, RowsTyped, SentInv
<1>5. CASE FetchDone(j)
  <2> DEFINE new == Further(j)
  <2>1. PICK got \in Readings(j) :
          shown' = Older([p \in Parts |-> IF p \in DOMAIN got
                            THEN [key |-> KeyOf(p, j.key), val |-> got[p], latest |-> p \notin j.late]
                            ELSE shown[p]], Fetched(new))
    BY <1>5 DEF FetchDone
  <2> DEFINE cells == [p \in Parts |-> IF p \in DOMAIN got
                         THEN [key |-> KeyOf(p, j.key), val |-> got[p], latest |-> p \notin j.late]
                         ELSE shown[p]]
  <2>2. /\ jobs' = Sending(rest, new, {}, srv') /\ shown' = Older(cells, Fetched(new))
        /\ missed' = missed \ Fetched(new) /\ panel' = panel /\ srv' = srv /\ ~Head(j.todo).call
    BY <1>5, <2>1 DEF FetchDone
  <2>3. /\ DOMAIN got = ps
        /\ \A p \in ps : \/ got[p] \in j.seen[p]..j.seen[p]
                         \/ got[p] \in j.seen[p]..srv[p][KeyOf(p, j.key)]
    BY DEF Readings
  <2>4. \A p \in Parts : cells[p] = IF p \in ps
                         THEN [key |-> KeyOf(p, j.key), val |-> got[p], latest |-> p \notin j.late]
                         ELSE shown[p]
    BY <2>3
  <2>5. \A p \in Parts : RowTyped(cells[p])
    <3> HIDE DEF cells
    <3> TAKE p \in Parts
    <3>1. KeyOf(p, j.key) \in Keys
      BY <1>1 DEF KeyOf
    <3>2. CASE p \in ps
      <4> DEFINE r == [key |-> KeyOf(p, j.key), val |-> got[p], latest |-> p \notin j.late]
      <4>1. RowShape(r) /\ r.key = KeyOf(p, j.key)
        BY DEF RowShape
      <4>2. cells[p] = r
        BY <2>4, <3>2
      <4> HIDE DEF r
      <4> QED
        BY <3>1, <4>1, <4>2 DEF RowTyped
    <3>3. CASE p \notin ps
      BY <2>4, <3>3, RowsTyped
    <3> QED
      BY <3>2, <3>3
  <2> HIDE DEF cells
  <2>6. ASSUME NEW p \in Parts, StaysCurrent(panel, p), p \notin Fetched(new), p \notin missed', ~Owed(p, new)
        PROVE  Stays(p, srv', missed', new, cells[p])
    <3>1. p \notin missed
      BY <2>2, <2>6
    <3>2. ~Owes(j, p)
      BY <2>6, DebtGoesOn
    <3>3. ~Writes(j, p, shown[p].key)
      BY <2>2 DEF Writes
    <3>4. Stays(p, srv', missed', new, shown[p])
      <4> HIDE DEF new
      <4> QED
        BY <2>2, <2>6, <3>1, <3>2, <3>3, OthersCurrent
    <3>5. CASE p \in ps
      <4>1. /\ cells[p].key = KeyOf(p, j.key) /\ cells[p].val = got[p]
            /\ cells[p].latest => p \notin j.late
        <5> DEFINE r == [key |-> KeyOf(p, j.key), val |-> got[p], latest |-> p \notin j.late]
        <5>1. r.key = KeyOf(p, j.key) /\ r.val = got[p]
          OBVIOUS
        <5>2. r.latest => p \notin j.late
          OBVIOUS
        <5>3. cells[p] = r
          BY <2>4, <3>5
        <5> HIDE DEF r
        <5> QED
          BY <5>1, <5>2, <5>3
      <4>2. Fresh(Head(j.todo), p) /\ JobCurrent(j, p, srv, missed, jobs)
        BY <1>2, <2>2, <2>6, <3>5 DEF CurrentInv, PartsCurrent, IsSimple, Fresh
      <4>3. Owed(p, jobs) => Owed(p, rest \cup new)
        BY <3>2 DEF Owed
      <4>4. j.seen[p] = srv[p][KeyOf(p, j.key)] => got[p] = srv[p][KeyOf(p, j.key)]
        <5>1. KeyOf(p, j.key) \in Keys
          BY <1>1 DEF KeyOf
        <5>2. srv[p][KeyOf(p, j.key)] \in Nat
          BY <5>1 DEF CurrentInv
        <5>3. \A n \in Nat : \A g \in n..n : g = n
          OBVIOUS
        <5> QED
          BY <2>3, <3>5, <5>2, <5>3
      <4>5. RowCurrent(cells[p], p, srv, missed', rest \cup new)
        BY <3>1, <4>1, <4>2, <4>3, <4>4 DEF JobCurrent, RowCurrent
      <4> QED
        BY <2>2, <3>4, <4>5
    <3>6. CASE p \notin ps
      BY <2>4, <3>4, <3>6
    <3> QED
      BY <3>5, <3>6
  <2>7. srv' \in [Parts -> [Keys -> Nat]]
    BY <2>2, ServerTyped
  <2> HIDE DEF new
  <2> QED
    BY <1>1, <2>2, <2>5, <2>6, <2>7, SentInv DEF new
<1>6. ASSUME NEW how \in AnyFailure, FetchFails(j, how) PROVE CurrentInv'
  <2> DEFINE goesOn == how \in Head(j.todo).deaf
             new == IF goesOn THEN Further(j) ELSE {}
             blank == [p \in Parts |-> IF p \in ps \cap panel.blanks
                                       THEN Nothing(p \notin j.late) ELSE shown[p]]
  <2>1. /\ jobs' = Sending(rest, new, {}, srv') /\ shown' = Older(blank, Fetched(new))
        /\ panel' = panel /\ srv' = srv /\ ~Head(j.todo).call
        /\ missed' = (missed \ Fetched(new)) \cup ps \cup IF goesOn THEN {} ELSE LeftBehind(j)
    BY <1>6 DEF FetchFails
  <2>2. \A i \in new : JobSound(i)
    BY <1>1
  <2>3. \A p \in Parts : RowTyped(blank[p]) /\ (p \notin ps => blank[p] = shown[p])
    BY RowsTyped DEF Nothing, RowTyped, RowShape
  <2>4. ASSUME NEW p \in Parts, StaysCurrent(panel, p), p \notin Fetched(new), p \notin missed', ~Owed(p, new)
        PROVE  Stays(p, srv', missed', new, blank[p])
    <3>1. p \notin missed /\ p \notin ps /\ (goesOn \/ p \notin LeftBehind(j))
      BY <2>1, <2>4
    <3>2. ~Owes(j, p)
      BY <2>4, <3>1, DebtGoesOn, DebtIsLeft
    <3>3. ~Writes(j, p, shown[p].key)
      BY <2>1 DEF Writes
    <3> HIDE DEF goesOn, new, blank
    <3> QED
      BY <2>1, <2>3, <2>4, <3>1, <3>2, <3>3, OthersCurrent
  <2>5. srv' \in [Parts -> [Keys -> Nat]]
    BY <2>1, ServerTyped
  <2> HIDE DEF goesOn, new, blank
  <2> QED
    BY <2>1, <2>2, <2>3, <2>4, <2>5, SentInv
<1>7. ASSUME NEW how \in AnyFailure, NEW did \in BOOLEAN, CallFails(j, how, did) PROVE CurrentInv'
  <2> DEFINE goesOn == how \in Head(j.todo).deaf
             new == IF goesOn THEN Further(j) ELSE IF OpOf(j).anyway THEN After(j) ELSE {}
             left == IF goesOn THEN {} ELSE LeftBehind(j) \cup IF did THEN ps ELSE {}
             s == IF did THEN Changed(ps, j.key) ELSE srv
  <2>0. PICK last \in DOMAIN j.todo, first \in {1, 2} : \E more \in {{}, Strays(j, first, last)} :
        /\ jobs' = Sending(rest, new \cup more, {}, srv') /\ shown' = Older(shown, Fetched(new))
        /\ missed' = ((missed \cup left) \ Fetched(new)) \cup Crossed(j, srv')
        /\ panel' = panel /\ srv' = s /\ Head(j.todo).call /\ IsOp(j) /\ (did => how = "lost")
    BY <1>7 DEF CallFails
  <2>a. PICK more \in {{}, Strays(j, first, last)} :
        /\ jobs' = Sending(rest, new \cup more, {}, srv') /\ shown' = Older(shown, Fetched(new))
        /\ missed' = ((missed \cup left) \ Fetched(new)) \cup Crossed(j, srv')
        /\ panel' = panel /\ srv' = s /\ Head(j.todo).call /\ IsOp(j) /\ (did => how = "lost")
    BY <2>0
  <2>b. \A i \in more : JobShape(i) /\ i.key \in Keys /\ PlainJob(i) /\ Head(i.todo).call
    BY <1>1, <2>a, StrayFits DEF CurrentInv
  <2>c. \A i \in more : JobSound(i)
    BY <2>b DEF JobSound, IsRest, IsSimple, PlainJob
  <2> DEFINE sent == new \cup more
  <2>d. Fetched(sent) = Fetched(new)
    BY <2>b, FetchesOnly
  <2>1. /\ jobs' = Sending(rest, sent, {}, srv') /\ shown' = Older(shown, Fetched(sent))
        /\ missed' = ((missed \cup left) \ Fetched(new)) \cup Crossed(j, srv')
        /\ panel' = panel /\ srv' = s /\ Head(j.todo).call /\ IsOp(j) /\ (did => how = "lost")
    BY <2>a, <2>d
  <2>2. \A i \in sent : JobSound(i)
    BY <1>1, <2>1, <2>c
  <2>e. \A p : Owed(p, new) => Owed(p, sent)
    BY DEF Owed
  <2>f. j.op # "stray"
    BY <1>1, <2>1, OperationIsListed DEF Others
  <2> HIDE DEF sent
  <2>3. ASSUME NEW p \in Parts, StaysCurrent(panel, p), p \notin Fetched(sent), p \notin missed', ~Owed(p, sent)
        PROVE  Stays(p, srv', missed', sent, shown[p])
    <3>0. p \notin Fetched(new) /\ ~Owed(p, new)
      BY <2>3, <2>d, <2>e
    <3>1. p \notin missed /\ p \notin Crossed(j, srv') /\ p \notin left
      BY <2>1, <2>3, <3>0
    <3>2. ~Owes(j, p)
      BY <2>3, <3>0, <3>1, DebtGoesOn, DebtIsLeft
    <3>3. did /\ p \in ps => IsOp(j) /\ p \in OpOf(j).typed /\ p \notin panel.views
      <4> HAVE did /\ p \in ps
      <4>1. goesOn /\ how = "lost"
        BY <2>1, <3>1
      <4>2. ~FetchedAfter(OpOf(j), StepOf(j), p)
        BY <2>1, <2>3, <3>0, <4>1, DebtGoesOn
      <4> QED
        BY <2>1, <2>3, <2>f, <4>1, <4>2, CallOnPart
    <3> HIDE DEF goesOn, new, left
    <3>4. srv' = srv \/ (did /\ srv' = Changed(ps, j.key))
      BY <2>1
    <3> QED
      BY <2>3, <3>1, <3>2, <3>3, <3>4, CallCurrent
  <2>4. srv' \in [Parts -> [Keys -> Nat]]
    BY <2>1, ServerTyped
  <2> HIDE DEF goesOn, new, left, s
  <2> QED
    BY <2>1, <2>2, <2>3, <2>4, RowsTyped, SentInv
<1> QED
  BY <1>3, <1>4, <1>5, <1>6, <1>7 DEF Answers

LEMMA CurrentNext == CurrentInv /\ [PanelNext]_vars => CurrentInv'
<1> SUFFICES ASSUME CurrentInv, [PanelNext]_vars PROVE CurrentInv'
  OBVIOUS
<1>1. FollowInv'
  BY FollowNext DEF CurrentInv
<1>2. CASE UNCHANGED vars
  <2>1. panel' = panel /\ Parts' = Parts /\ srv' = srv /\ shown' = shown /\ jobs' = jobs /\ missed' = missed
    BY <1>2 DEF vars, Parts
  <2>2. RowKeys' /\ JobKeys' /\ PartsCurrent'
    BY <2>1, SamePanelCurrent DEF CurrentInv, RowKeys, JobKeys, PartsCurrent
  <2> QED
    BY <1>1, <2>1, <2>2 DEF CurrentInv
<1> QED
  BY <1>1, <1>2, CurrentSelect, CurrentClick, CurrentAnswers DEF PanelNext

\* When a panel opens its effects fetch what the server has.
LEMMA CurrentInit == PanelInit => CurrentInv
<1> SUFFICES ASSUME PanelInit PROVE CurrentInv
  OBVIOUS
<1> DEFINE new == Effects(panel.mount, 1)
           row == Nothing(FALSE)
<1>1. /\ FollowInv /\ OfCatalog /\ 1 \in Keys /\ None \notin Keys /\ missed = {}
      /\ jobs = Sending({}, new, {}, srv)
      /\ srv = [p \in Parts |-> [k \in Keys |-> 0]] /\ \A p \in Parts : shown[p] = row
  BY FollowInit, SomeKeys DEF PanelInit, FollowInv
<1>2. \A i \in new : JobSound(i)
  BY <1>1, EffectSound DEF Effects
<1>3. row.key = None /\ row.val = None /\ row.latest = FALSE
  BY DEF Nothing
<1> HIDE DEF new, row
<1>4. \A j \in jobs : j.key \in Keys /\ IsRest(j)
  <2>1. \A i \in new : JobFields(i) /\ i.key \in Keys /\ IsRest(i)
    BY <1>2 DEF JobSound, JobShape
  <2>2. \A i, j : Keeps(i, j) => (IsRest(i) <=> IsRest(j)) /\ i.key = j.key
    BY DEF Keeps, IsRest, IsOp, OpOf
  <2>3. \A j \in jobs : \E i \in new : Keeps(i, j)
    BY <1>1, <2>1, SentJobs
  <2> QED
    BY <2>1, <2>2, <2>3
<1>5. ASSUME NEW p \in Parts, StaysCurrent(panel, p)
      PROVE  /\ \A j \in jobs : IsSimple(j, p) /\ JobCurrent(j, p, srv, missed, jobs)
             /\ RowCurrent(shown[p], p, srv, missed, jobs)
  <2>1. \A i \in {} \cup new : JobShape(i) /\ IsSimple(i, p)
    BY <1>2, <1>5 DEF JobSound
  <2>2. RowCurrent(row, p, srv, missed, {} \cup new)
    BY <1>3 DEF RowCurrent
  <2> QED
    BY <1>1, <1>3, <2>1, <2>2, SentCurrent
<1>6. srv \in [Parts -> [Keys -> Nat]] /\ RowKeys /\ JobKeys /\ PartsCurrent
  BY <1>1, <1>3, <1>4, <1>5 DEF RowKeys, JobKeys, PartsCurrent
<1> QED
  BY <1>1, <1>6 DEF CurrentInv

\* Once every answer is in, what a panel shows of a part is what the server has,
\* unless a newer request for the part failed or the part is one that the panel is
\* listed to forget (the handlers of the pages of apps/web/app/dashboard and
\* apps/web/features, which fetch again what they changed).
THEOREM ShownIsCurrentAlways == PanelSpec => []ShownIsCurrent
<1>1. CurrentInv => ShownIsCurrent
  <2> SUFFICES ASSUME CurrentInv, Quiet, NEW p \in Parts \ missed, shown[p].latest, shown[p].val # None,
                      <<panel.name, p>> \notin Forgotten
               PROVE  shown[p].val = srv[p][shown[p].key]
    BY DEF ShownIsCurrent
  <2>1. StaysCurrent(panel, p)
    BY ListedCurrent DEF CurrentInv, FollowInv
  <2>2. ~Owed(p, jobs) /\ ~Written(p, shown[p].key, jobs)
    BY DEF Quiet, Owed, Written
  <2> QED
    BY <2>1, <2>2 DEF CurrentInv, PartsCurrent, RowCurrent
<1> QED
  BY CurrentInit, CurrentNext, <1>1, PTL DEF PanelSpec

-----------------------------------------------------------------------------
(***************************************************************************)
(* Induction over the natural numbers, for sets.                           *)
(***************************************************************************)
LEMMA Steps ==
  ASSUME NEW T, 0 \in T, NEW k \in Nat, \A i \in Nat : i < k /\ i \in T => i + 1 \in T
  PROVE  0 .. k \subseteq T
<1> DEFINE R == OpToRel(<, Nat)
           Missing == 0 .. k \ T
<1>1. IsWellFoundedOn(R, Nat)
  BY NatLessThanWellFounded, Zenon
<1>2. \A x, y \in Nat : y < x => <<y, x>> \in R
  BY DEF OpToRel
<1>3. Missing \subseteq Nat
  OBVIOUS
<1> HIDE DEF R
<1>4. Missing # {} => \E x \in Missing : \A y \in Missing : ~(<<y, x>> \in R)
  BY <1>1, <1>3, WFMin
<1>5. SUFFICES ASSUME NEW x \in Missing, \A y \in Missing : ~(y < x) PROVE FALSE
  BY <1>2, <1>3, <1>4
<1>6. x # 0 /\ x - 1 \in Nat /\ x - 1 < x /\ x - 1 < k /\ x - 1 \in 0 .. k
  OBVIOUS
<1>7. x - 1 \in T
  BY <1>5, <1>6
<1> QED
  BY <1>6, <1>7

(***************************************************************************)
(* collectIds(t, n) is the least set with n that a tree leads nowhere into *)
(* from outside.                                                           *)
(***************************************************************************)
Children(t, S) == {m \in DOMAIN t : t[m] \in S}
Closed(t, S) == Children(t, S) \subseteq S

\* The levels that collectIds goes through, up to level k.
Level(t, n, b, i) == IF i = 0 THEN {n} ELSE b[i - 1] \cup Children(t, b[i - 1])
Levels(t, n, b, k) == b = [i \in 0 .. k |-> Level(t, n, b, i)]

\* There are such levels: collectIds is defined.
LEMMA LevelsExist ==
  ASSUME NEW t, NEW n, NEW k \in Nat
  PROVE  \E b : Levels(t, n, b, k)
<1> DEFINE T == {j \in Nat : \E b : Levels(t, n, b, j)}
<1>1. 0 \in T
  <2>1. Levels(t, n, [i \in 0 .. 0 |-> {n}], 0)
    BY DEF Levels, Level
  <2> QED
    BY <2>1
<1>2. ASSUME NEW j \in Nat, j \in T PROVE j + 1 \in T
  <2>1. PICK b : Levels(t, n, b, j)
    BY <1>2
  <2> DEFINE c == [i \in 0 .. j + 1 |-> Level(t, n, b, i)]
  <2>2. \A i \in 0 .. j : c[i] = b[i]
    BY <2>1 DEF Levels
  <2>3. \A i \in 0 .. j + 1 : i # 0 => c[i - 1] = b[i - 1]
    <3>1. \A i \in 0 .. j + 1 : i # 0 => i - 1 \in 0 .. j
      OBVIOUS
    <3> QED
      BY <2>2, <3>1
  <2>4. \A i \in 0 .. j + 1 : Level(t, n, b, i) = Level(t, n, c, i)
    BY <2>3 DEF Level
  <2>5. c = [i \in 0 .. j + 1 |-> Level(t, n, c, i)]
    BY <2>4
  <2> HIDE DEF c
  <2>6. Levels(t, n, c, j + 1)
    BY <2>5 DEF Levels
  <2> QED
    BY <2>6
<1> HIDE DEF T
<1>3. k \in T
  BY <1>1, <1>2, Steps
<1> QED
  BY <1>3 DEF T

\* They begin with n, end with what is collected, and each adds the children.
Ladder(t, n, b) ==
    /\ b[0] = {n} /\ b[Cardinality(DOMAIN t)] = collectIds(t, n)
    /\ \A i \in Nat : i < Cardinality(DOMAIN t) => b[i + 1] = b[i] \cup Children(t, b[i])

LEMMA LevelsOf ==
  ASSUME NEW t, NEW n, IsFiniteSet(DOMAIN t)
  PROVE  \E b : Ladder(t, n, b)
<1> DEFINE below == CHOOSE b : Levels(t, n, b, Cardinality(DOMAIN t))
           N == Cardinality(DOMAIN t)
<1>1. N \in Nat
  BY FS_CardinalityType
<1>2. collectIds(t, n) = below[Cardinality(DOMAIN t)]
  BY DEF collectIds, Levels, Level, Children
<1>3. Levels(t, n, below, N)
  BY <1>1, LevelsExist
<1> HIDE DEF below
<1>4. \A i \in 0 .. N : below[i] = Level(t, n, below, i)
  BY <1>3 DEF Levels
<1>5. below[0] = {n}
  <2>1. 0 \in 0 .. N
    BY <1>1
  <2> QED
    BY <1>4, <2>1 DEF Level
<1>6. ASSUME NEW i \in Nat, i < N PROVE below[i + 1] = below[i] \cup Children(t, below[i])
  <2>1. i + 1 \in 0 .. N /\ i + 1 # 0 /\ (i + 1) - 1 = i
    BY <1>1, <1>6
  <2> QED
    BY <1>4, <2>1 DEF Level
<1> QED
  BY <1>1, <1>2, <1>5, <1>6 DEF Ladder

\* n is among them, and nothing below them is not.
LEMMA CollectsAll ==
  ASSUME NEW t, NEW n, IsFiniteSet(DOMAIN t)
  PROVE  n \in collectIds(t, n) /\ Closed(t, collectIds(t, n))
<1> DEFINE N == Cardinality(DOMAIN t)
           A == DOMAIN t \cup {n}
<1>1. N \in Nat
  BY FS_CardinalityType
<1>2. PICK b : Ladder(t, n, b)
  BY LevelsOf
<1>3. /\ b[0] = {n}
      /\ \A i \in Nat : i < N => b[i + 1] = b[i] \cup Children(t, b[i])
  BY <1>2 DEF Ladder
<1>4. IsFiniteSet(A) /\ Cardinality(A) \in Nat /\ Cardinality(A) <= N + 1
  BY <1>1, FS_AddElement, FS_CardinalityType
<1> DEFINE Grown == {i \in Nat : /\ n \in b[i] /\ b[i] \subseteq A
                                 /\ Closed(t, b[i]) \/ Cardinality(b[i]) >= i + 1}
<1>5. 0 \in Grown
  <2>1. Cardinality({n}) = 1
    BY FS_Singleton
  <2>2. b[0] = {n} /\ {n} \subseteq A
    BY <1>3
  <2>3. Cardinality(b[0]) >= 0 + 1
    BY <2>1, <2>2
  <2> QED
    BY <2>2, <2>3
<1>6. ASSUME NEW i \in Nat, i < N, i \in Grown PROVE i + 1 \in Grown
  <2>1. b[i + 1] = b[i] \cup Children(t, b[i])
    BY <1>3, <1>6
  <2>2. n \in b[i] /\ b[i] \subseteq A /\ (Closed(t, b[i]) \/ Cardinality(b[i]) >= i + 1)
    BY <1>6
  <2>3. n \in b[i + 1] /\ b[i + 1] \subseteq A
    BY <2>1, <2>2 DEF Children
  <2>4. CASE Closed(t, b[i])
    <3>1. b[i + 1] = b[i]
      BY <2>1, <2>4 DEF Closed
    <3> QED
      BY <2>3, <2>4, <3>1
  <2>5. CASE ~Closed(t, b[i])
    <3>1. b[i] \subseteq b[i + 1] /\ b[i] # b[i + 1]
      BY <2>1, <2>5 DEF Closed
    <3>2. IsFiniteSet(b[i + 1])
      BY <1>4, <2>3, FS_Subset
    <3>3. /\ Cardinality(b[i]) <= Cardinality(b[i + 1])
          /\ Cardinality(b[i]) # Cardinality(b[i + 1])
      BY <3>1, <3>2, FS_Subset
    <3>4. Cardinality(b[i]) \in Nat /\ Cardinality(b[i + 1]) \in Nat
      BY <3>1, <3>2, FS_Subset, FS_CardinalityType
    <3>5. Cardinality(b[i + 1]) >= (i + 1) + 1
      BY <2>2, <2>5, <3>3, <3>4
    <3> QED
      BY <2>3, <3>5
  <2> QED
    BY <2>4, <2>5
<1>7. b[N] = collectIds(t, n)
  BY <1>2 DEF Ladder
<1> HIDE DEF Grown, N
<1>8. N \in Grown
  BY <1>1, <1>5, <1>6, Steps
<1>9. n \in b[N] /\ b[N] \subseteq A /\ (Closed(t, b[N]) \/ Cardinality(b[N]) >= N + 1)
  BY <1>8 DEF Grown
<1>10. CASE Cardinality(b[N]) >= N + 1
  <2>1. b[N] = A
    BY <1>1, <1>4, <1>9, <1>10, FS_Subset, FS_CardinalityType
  <2> QED
    BY <1>7, <2>1 DEF Closed, Children
<1> QED
  BY <1>7, <1>9, <1>10

\* Nothing else is: a set with n that leads nowhere contains them.
LEMMA CollectsNoMore ==
  ASSUME NEW t, NEW n, IsFiniteSet(DOMAIN t), NEW S, n \in S, Closed(t, S)
  PROVE  collectIds(t, n) \subseteq S
<1> DEFINE N == Cardinality(DOMAIN t)
<1>1. N \in Nat
  BY FS_CardinalityType
<1>2. PICK b : Ladder(t, n, b)
  BY LevelsOf
<1>3. /\ b[0] = {n}
      /\ \A i \in Nat : i < N => b[i + 1] = b[i] \cup Children(t, b[i])
  BY <1>2 DEF Ladder
<1> DEFINE Inside == {i \in Nat : b[i] \subseteq S}
<1>4. 0 \in Inside
  BY <1>3
<1>5. ASSUME NEW i \in Nat, i < N, i \in Inside PROVE i + 1 \in Inside
  <2>1. b[i + 1] = b[i] \cup Children(t, b[i])
    BY <1>3, <1>5
  <2> QED
    BY <1>5, <2>1 DEF Closed, Children
<1>6. b[N] = collectIds(t, n)
  BY <1>2 DEF Ladder
<1> HIDE DEF Inside, N
<1>7. N \in Inside
  BY <1>1, <1>4, <1>5, Steps
<1> QED
  BY <1>6, <1>7 DEF Inside

\* What hangs below n in the tree is a category of the tree, or n.
LEMMA CollectsNodes ==
  ASSUME NEW t, NEW n, IsFiniteSet(DOMAIN t)
  PROVE  collectIds(t, n) \subseteq DOMAIN t \cup {n}
BY CollectsNoMore DEF Closed, Children
-----------------------------------------------------------------------------
(***************************************************************************)
(* A tree is a forest if it has no loop, a set that no parent leaves.      *)
(***************************************************************************)
Loop(t, S) == S \subseteq DOMAIN t /\ S # {} /\ \A m \in S : t[m] \in S
IsForest(t) == buildTree(t) = DOMAIN t

LEMMA ForestHasNoLoop ==
  ASSUME NEW t, IsFiniteSet(DOMAIN t)
  PROVE  IsForest(t) <=> \A S : ~Loop(t, S)
<1>1. ASSUME NEW S, Loop(t, S), IsForest(t) PROVE FALSE
  <2>1. ASSUME NEW r \in Roots(t) PROVE collectIds(t, r) \subseteq DOMAIN t \ S
    <3>1. r \in DOMAIN t \ S /\ Closed(t, DOMAIN t \ S)
      BY <1>1 DEF Roots, Loop, Closed, Children
    <3> QED
      BY <3>1, CollectsNoMore
  <2> QED
    BY <1>1, <2>1 DEF IsForest, buildTree, Loop
<1>2. ASSUME \A S : ~Loop(t, S) PROVE IsForest(t)
  <2> DEFINE S == DOMAIN t \ buildTree(t)
  <2>1. \A r \in Roots(t) : /\ r \in collectIds(t, r) /\ Closed(t, collectIds(t, r))
                            /\ collectIds(t, r) \subseteq DOMAIN t \cup {r}
    BY CollectsAll, CollectsNodes
  <2>2. buildTree(t) \subseteq DOMAIN t
    BY <2>1 DEF buildTree, Roots
  <2>3. Roots(t) \subseteq buildTree(t)
    BY <2>1 DEF buildTree
  <2>4. Closed(t, buildTree(t))
    BY <2>1 DEF buildTree, Closed, Children
  <2>5. \A m \in S : t[m] \in S
    BY <2>3, <2>4 DEF Roots, Closed, Children
  <2>6. S = {}
    BY <1>2, <2>5 DEF Loop
  <2> QED
    BY <2>2, <2>6 DEF IsForest
<1> QED
  BY <1>1, <1>2

\* A category that moves under one that is not below it makes no loop,
LEMMA MovedForest ==
  ASSUME NEW t, IsFiniteSet(DOMAIN t), IsForest(t), NEW n, NEW p, p \notin collectIds(t, n)
  PROVE  IsForest([t EXCEPT ![n] = p])
<1> DEFINE u == [t EXCEPT ![n] = p]
           C == collectIds(t, n)
<1>1. n \in C /\ Closed(t, C)
  BY CollectsAll
<1>2. DOMAIN u = DOMAIN t /\ \A m \in DOMAIN t : u[m] = IF m = n THEN p ELSE t[m]
  OBVIOUS
<1> HIDE DEF u, C
<1>3. ASSUME NEW S, Loop(u, S) PROVE FALSE
  <2>1. CASE n \notin S
    <3>1. Loop(t, S)
      BY <1>2, <1>3, <2>1 DEF Loop
    <3> QED
      BY <3>1, ForestHasNoLoop
  <2>2. CASE n \in S
    <3>1. p \in S \ C
      BY <1>2, <1>3, <2>2 DEF Loop, C
    <3>2. \A m \in S \ C : t[m] \in S \ C
      BY <1>1, <1>2, <1>3 DEF Loop, Closed, Children
    <3>3. Loop(t, S \ C)
      BY <1>2, <1>3, <3>1, <3>2 DEF Loop
    <3> QED
      BY <3>3, ForestHasNoLoop
  <2> QED
    BY <2>1, <2>2
<1>4. IsFiniteSet(DOMAIN u)
  BY <1>2
<1>5. IsForest(u)
  BY <1>3, <1>4, ForestHasNoLoop
<1> QED
  BY <1>5 DEF u

\* puts no more below another that the target is not below,
LEMMA MovedBelow ==
  ASSUME NEW t, IsFiniteSet(DOMAIN t), NEW n, NEW p, NEW m, p \notin collectIds(t, m)
  PROVE  collectIds([t EXCEPT ![n] = p], m) \subseteq collectIds(t, m)
<1> DEFINE u == [t EXCEPT ![n] = p]
           C == collectIds(t, m)
<1>1. m \in C /\ Closed(t, C)
  BY CollectsAll
<1>2. Closed(u, C)
  BY <1>1 DEF Closed, Children
<1>3. IsFiniteSet(DOMAIN u)
  OBVIOUS
<1> HIDE DEF C, u
<1>4. collectIds(u, m) \subseteq C
  BY <1>1, <1>2, <1>3, CollectsNoMore
<1> QED
  BY <1>4 DEF C, u

\* and leaves everything below the target that was.
LEMMA TargetKeeps ==
  ASSUME NEW t, IsFiniteSet(DOMAIN t), NEW n, NEW p
  PROVE  collectIds(t, p) \subseteq collectIds([t EXCEPT ![n] = p], p)
<1> DEFINE u == [t EXCEPT ![n] = p]
           C == collectIds(u, p)
<1>1. p \in C /\ Closed(u, C)
  BY CollectsAll
<1>2. Closed(t, C)
  BY <1>1 DEF Closed, Children
<1>3. IsFiniteSet(DOMAIN u)
  OBVIOUS
<1> HIDE DEF C, u
<1>4. collectIds(t, p) \subseteq C
  BY <1>1, <1>2, <1>3, CollectsNoMore
<1> QED
  BY <1>4 DEF C, u

\* A category that goes, or comes, makes none either.
LEMMA RemovedForest ==
  ASSUME NEW t, IsFiniteSet(DOMAIN t), IsForest(t), NEW n
  PROVE  IsForest([m \in DOMAIN t \ {n} |-> t[m]])
<1> DEFINE u == [m \in DOMAIN t \ {n} |-> t[m]]
<1>1. DOMAIN u \subseteq DOMAIN t /\ \A m \in DOMAIN u : u[m] = t[m]
  OBVIOUS
<1>2. IsFiniteSet(DOMAIN u)
  BY <1>1, FS_Subset
<1> HIDE DEF u
<1>3. ASSUME NEW S, Loop(u, S) PROVE FALSE
  <2>1. Loop(t, S)
    BY <1>1, <1>3 DEF Loop
  <2> QED
    BY <2>1, ForestHasNoLoop
<1>4. IsForest(u)
  BY <1>2, <1>3, ForestHasNoLoop
<1> QED
  BY <1>4 DEF u

LEMMA CreatedForest ==
  ASSUME NEW t, IsFiniteSet(DOMAIN t), IsForest(t), NEW n, n \notin DOMAIN t, NEW p, p # n,
         \A m \in DOMAIN t : t[m] # n
  PROVE  IsForest([m \in DOMAIN t \cup {n} |-> IF m = n THEN p ELSE t[m]])
<1> DEFINE u == [m \in DOMAIN t \cup {n} |-> IF m = n THEN p ELSE t[m]]
<1>1. /\ DOMAIN u = DOMAIN t \cup {n} /\ u[n] = p
      /\ \A m \in DOMAIN t : u[m] = t[m]
  OBVIOUS
<1>2. IsFiniteSet(DOMAIN u)
  BY <1>1, FS_AddElement
<1> HIDE DEF u
<1>3. ASSUME NEW S, Loop(u, S) PROVE FALSE
  <2>1. S \ {n} # {}
    BY <1>1, <1>3 DEF Loop
  <2>2. Loop(t, S \ {n})
    BY <1>1, <1>3, <2>1 DEF Loop
  <2> QED
    BY <2>2, ForestHasNoLoop
<1>4. IsForest(u)
  BY <1>2, <1>3, ForestHasNoLoop
<1> QED
  BY <1>4 DEF u
-----------------------------------------------------------------------------
(***************************************************************************)
(* The glossary.  Until something crosses a move, at most one is under     *)
(* way; its target is below none of the categories it has still to move,   *)
(* and each of the others is where the move should have brought it.        *)
(***************************************************************************)
Targets == Nodes \cup {Root}
TreeTypes ==
    /\ DOMAIN tree \subseteq Nodes
    /\ \A m \in DOMAIN tree : tree[m] \in DOMAIN tree \cup {Root}
    /\ DOMAIN view \subseteq Nodes
    /\ checked \subseteq Nodes
    /\ moves \in [AtOnce -> [to : Targets, left : SUBSET Nodes, all : SUBSET Nodes]]

OneMove == \A i, j \in AtOnce : moves[i] # NoMove /\ moves[j] # NoMove => i = j
Away == \A i \in AtOnce : \A n \in moves[i].left : moves[i].to \notin collectIds(tree, n)
Arrived(n, t) ==
    \/ n = t
    \/ n \in DOMAIN tree => tree[n] = t
    \/ t # Root /\ n \in collectIds(view, t) /\ n \in collectIds(tree, t)
Moved == \A i \in AtOnce : \A n \in moves[i].all \ moves[i].left : Arrived(n, moves[i].to)

Uncrossed == IsForest(tree) /\ OneMove /\ Away /\ Moved
TreeInv == TreeTypes /\ (~crossed => Uncrossed)

LEMMA TreeIsFinite ==
  ASSUME TreeTypes
  PROVE  IsFiniteSet(DOMAIN tree) /\ IsFiniteSet(DOMAIN view)
BY FinitelyManyNodes, FS_Subset DEF TreeTypes

\* Where nothing moves there is nothing to say of moves.
LEMMA Still ==
  ASSUME \A i \in AtOnce : moves[i] = NoMove
  PROVE  OneMove /\ Away /\ Moved
BY DEF OneMove, Away, Moved, NoMove

LEMMA TreeInvInit == TreeInit => TreeInv
<1> SUFFICES ASSUME TreeInit PROVE TreeInv
  OBVIOUS
<1>1. PICK ns \in SUBSET Nodes : tree \in [ns -> ns \cup {Root}]
  BY DEF TreeInit, Forests
<1>2. IsForest(tree)
  BY DEF TreeInit, Forests, IsForest
<1>3. TreeTypes
  BY <1>1 DEF TreeInit, TreeTypes, NoMove, Targets, AtOnce
<1>4. \A i \in AtOnce : moves[i] = NoMove
  BY DEF TreeInit
<1> QED
  BY <1>2, <1>3, <1>4, Still DEF TreeInv, Uncrossed

\* A call of a move does to the tree what lemmas MovedForest to TargetKeeps say.
LEMMA CallMoves ==
  ASSUME TreeInv, ~crossed, NEW i \in AtOnce, NEW n \in moves[i].left, n \in DOMAIN tree,
         NEW t, t = moves[i].to, tree' = [tree EXCEPT ![n] = t]
  PROVE  /\ IsForest(tree')
         /\ DOMAIN tree' = DOMAIN tree /\ tree'[n] = t
         /\ \A m \in moves[i].left : t \notin collectIds(tree', m)
         /\ \A m : Arrived(m, t) /\ UNCHANGED view => Arrived(m, t)'
<1>1. IsFiniteSet(DOMAIN tree)
  BY TreeIsFinite DEF TreeInv
<1>2. IsForest(tree) /\ \A m \in moves[i].left : t \notin collectIds(tree, m)
  BY DEF TreeInv, Uncrossed, Away
<1>3. IsForest(tree')
  BY <1>1, <1>2, MovedForest
<1>4. DOMAIN tree' = DOMAIN tree /\ \A m \in DOMAIN tree : tree'[m] = IF m = n THEN t ELSE tree[m]
  OBVIOUS
<1>5. \A m \in moves[i].left : t \notin collectIds(tree', m)
  BY <1>1, <1>2, MovedBelow
<1>6. collectIds(tree, t) \subseteq collectIds(tree', t)
  BY <1>1, TargetKeeps
<1>7. ASSUME NEW m, Arrived(m, t), UNCHANGED view PROVE Arrived(m, t)'
  BY <1>4, <1>6, <1>7 DEF Arrived
<1> QED
  BY <1>3, <1>4, <1>5, <1>7

\* Types are kept.
LEMMA TreeTypesNext == TreeTypes /\ [TreeNext]_treeVars => TreeTypes'
<1> SUFFICES ASSUME TreeTypes, [TreeNext]_treeVars PROVE TreeTypes'
  OBVIOUS
<1> USE DEF TreeTypes
<1>1. CASE UNCHANGED treeVars
  BY <1>1 DEF treeVars
<1>2. ASSUME NEW n \in Nodes, toggleCheck(n) PROVE TreeTypes'
  BY <1>2 DEF toggleCheck
<1>3. ASSUME NEW n \in DOMAIN tree, collectIds(tree, n) = {n}, tree' = Removed(n),
             UNCHANGED <<view, checked, moves>>
      PROVE  TreeTypes'
  <2>1. \A m \in DOMAIN tree : tree[m] = n => m = n
    BY <1>3, TreeIsFinite, CollectsAll DEF Closed, Children
  <2> QED
    BY <1>3, <2>1, RootIsNoNode DEF Removed
<1>4. ASSUME NEW n \in Nodes, deleteNode(n) PROVE TreeTypes'
  BY <1>3, <1>4 DEF deleteNode
<1>5. ASSUME NEW n \in Nodes, NEW t \in Nodes \cup {Root}, handleCreate(n, t) PROVE TreeTypes'
  BY <1>5 DEF handleCreate
<1>6. ASSUME NEW t \in Nodes \cup {Root}, moveTo(t) PROVE TreeTypes'
  <2>1. [to |-> t, left |-> Acted(t), all |-> checked]
           \in [to : Targets, left : SUBSET Nodes, all : SUBSET Nodes]
    BY DEF Acted, Targets
  <2> QED
    BY <1>6, <2>1 DEF moveTo
<1>7. ASSUME NEW n \in DOMAIN tree, NEW t \in DOMAIN tree \cup {Root}, tree' = [tree EXCEPT ![n] = t],
             UNCHANGED <<view, checked>>, moves' \in [AtOnce -> [to : Targets, left : SUBSET Nodes, all : SUBSET Nodes]]
      PROVE  TreeTypes'
  BY <1>7
<1>8. NoMove \in [to : Targets, left : SUBSET Nodes, all : SUBSET Nodes]
  BY DEF NoMove, Targets
<1>9. ASSUME NEW i \in AtOnce, NEW n \in Nodes, updateGlossaryTerm(i, n) PROVE TreeTypes'
  <2>1. moves' \in [AtOnce -> [to : Targets, left : SUBSET Nodes, all : SUBSET Nodes]]
    BY <1>9 DEF updateGlossaryTerm
  <2> QED
    BY <1>7, <1>9, <2>1 DEF updateGlossaryTerm
<1>10. ASSUME NEW i \in AtOnce, MoveFails(i) PROVE TreeTypes'
  <2>1. moves' \in [AtOnce -> [to : Targets, left : SUBSET Nodes, all : SUBSET Nodes]]
    BY <1>8, <1>10 DEF MoveFails
  <2>2. CASE tree' = tree
    BY <1>10, <2>1, <2>2 DEF MoveFails
  <2>3. CASE tree' # tree
    BY <1>7, <1>10, <2>1, <2>3 DEF MoveFails
  <2> QED
    BY <2>2, <2>3
<1>11. ASSUME NEW i \in AtOnce, MoveEnds(i) PROVE TreeTypes'
  BY <1>8, <1>11 DEF MoveEnds
<1>12. CASE load
  BY <1>12 DEF load
<1>13. CASE Other
  BY <1>3, <1>7, <1>13 DEF Other
<1> QED
  BY <1>1, <1>2, <1>4, <1>5, <1>6, <1>9, <1>10, <1>11, <1>12, <1>13 DEF TreeNext

\* An uncrossed tree stays what it is.
LEMMA UncrossedNext == TreeInv /\ [TreeNext]_treeVars /\ ~crossed' => Uncrossed'
<1> SUFFICES ASSUME TreeInv, [TreeNext]_treeVars, ~crossed' PROVE Uncrossed'
  OBVIOUS
<1> USE DEF TreeInv
<1>1. IsFiniteSet(DOMAIN tree) /\ IsFiniteSet(DOMAIN view)
  BY TreeIsFinite
<1>2. ASSUME ~crossed, UNCHANGED <<tree, view, moves>> PROVE Uncrossed'
  BY <1>2 DEF Uncrossed, IsForest, OneMove, Away, Moved, Arrived
<1>3. CASE UNCHANGED treeVars
  BY <1>2, <1>3 DEF treeVars
<1>4. ASSUME NEW n \in Nodes, toggleCheck(n) PROVE Uncrossed'
  BY <1>2, <1>4 DEF toggleCheck
<1>5. ASSUME ~Moving, UNCHANGED moves, IsForest(tree') PROVE Uncrossed'
  <2>1. \A i \in AtOnce : moves'[i] = NoMove
    BY <1>5 DEF Moving
  <2>2. OneMove' /\ Away' /\ Moved'
    BY <2>1 DEF OneMove, Away, Moved, NoMove
  <2> QED
    BY <1>5, <2>2 DEF Uncrossed, IsForest
<1>6. ASSUME NEW n \in Nodes, deleteNode(n) PROVE Uncrossed'
  <2>1. ~crossed /\ ~Moving /\ UNCHANGED moves /\ tree' = Removed(n)
    BY <1>6 DEF deleteNode
  <2>2. IsForest(tree')
    BY <1>1, <2>1, RemovedForest DEF Removed, Uncrossed
  <2> QED
    BY <1>5, <2>1, <2>2
<1>7. ASSUME NEW n \in Nodes, NEW t \in Nodes \cup {Root}, handleCreate(n, t) PROVE Uncrossed'
  <2>1. /\ ~crossed /\ ~Moving /\ UNCHANGED moves /\ n \notin DOMAIN tree /\ t \in DOMAIN tree \cup {Root}
        /\ tree' = [m \in DOMAIN tree \cup {n} |-> IF m = n THEN t ELSE tree[m]]
    BY <1>7 DEF handleCreate
  <2>2. t # n /\ \A m \in DOMAIN tree : tree[m] # n
    BY <2>1, RootIsNoNode DEF TreeTypes
  <2>3. IsForest(tree')
    BY <1>1, <2>1, <2>2, CreatedForest DEF Uncrossed
  <2> QED
    BY <1>5, <2>1, <2>3
<1>8. ASSUME NEW t \in Nodes \cup {Root}, moveTo(t) PROVE Uncrossed'
  <2>1. /\ ~crossed /\ ~Moving /\ view = tree /\ UNCHANGED <<tree, view>> /\ t \in FolderTreePicker
        /\ moves' = [moves EXCEPT ![Free] = [to |-> t, left |-> Acted(t), all |-> checked]]
    BY <1>8 DEF moveTo
  <2>2. Free \in AtOnce
    BY DEF Free, AtOnce
  <2>3. \A i \in AtOnce : IF i = Free THEN moves'[i] = [to |-> t, left |-> Acted(t), all |-> checked]
                                      ELSE moves'[i] = NoMove
    BY <2>1, <2>2 DEF Moving, TreeTypes
  <2>4. \A n \in Acted(t) : t \notin collectIds(tree, n)
    <3> TAKE n \in Acted(t)
    <3>1. n \in checked /\ n \in Nodes
      BY DEF Acted, TreeTypes
    <3>2. CASE t = Root
      BY <1>1, <3>1, <3>2, CollectsNodes, RootIsNoNode DEF TreeTypes
    <3>3. CASE t # Root
      BY <2>1, <3>1, <3>3 DEF FolderTreePicker
    <3> QED
      BY <3>2, <3>3
  <2>5. \A n \in checked \ Acted(t) : n = t \/ (t # Root /\ n \in collectIds(view, t))
    BY DEF Acted
  <2>6. OneMove'
    BY <2>3 DEF OneMove
  <2>7. Away'
    BY <2>1, <2>3, <2>4 DEF Away, NoMove
  <2>8. Moved'
    BY <2>1, <2>3, <2>5 DEF Moved, Arrived, NoMove
  <2> QED
    BY <2>1, <2>6, <2>7, <2>8 DEF Uncrossed, IsForest
<1>9. ASSUME NEW i \in AtOnce, NEW n \in Nodes, updateGlossaryTerm(i, n) PROVE Uncrossed'
  <2>1. PICK t : t = moves[i].to
    OBVIOUS
  <2>2. /\ ~crossed /\ UNCHANGED view /\ n \in moves[i].left /\ n \in DOMAIN tree
        /\ tree' = [tree EXCEPT ![n] = t]
        /\ moves' = [moves EXCEPT ![i].left = @ \ {n}]
    BY <1>9, <2>1 DEF updateGlossaryTerm
  <2>3. /\ IsForest(tree') /\ DOMAIN tree' = DOMAIN tree /\ tree'[n] = t
        /\ \A m \in moves[i].left : t \notin collectIds(tree', m)
        /\ \A m : Arrived(m, t) /\ UNCHANGED view => Arrived(m, t)'
    BY <2>2, <2>1, CallMoves
  <2>4. \A j \in AtOnce \ {i} : moves[j] = NoMove
    BY <2>2 DEF Uncrossed, OneMove, NoMove
  <2>5. \A j \in AtOnce \ {i} : moves'[j] = NoMove
    BY <2>2, <2>4 DEF TreeTypes
  <2>6. moves'[i].to = t /\ moves'[i].all = moves[i].all /\ moves'[i].left = moves[i].left \ {n}
    BY <2>2, <2>1 DEF TreeTypes
  <2>7. OneMove'
    BY <2>5 DEF OneMove
  <2>8. Away'
    BY <2>3, <2>5, <2>6 DEF Away, NoMove
  <2>9. \A m \in moves[i].all \ (moves[i].left \ {n}) : Arrived(m, t)'
    <3>1. Arrived(n, t)'
      BY <2>3 DEF Arrived
    <3>2. \A m \in moves[i].all \ moves[i].left : Arrived(m, t)
      BY <2>2, <2>1 DEF Uncrossed, Moved
    <3> QED
      BY <2>2, <2>3, <3>1, <3>2
  <2>10. Moved'
    BY <2>5, <2>6, <2>9 DEF Moved, NoMove
  <2> QED
    BY <2>3, <2>7, <2>8, <2>10 DEF Uncrossed, IsForest
<1>10. ASSUME NEW i \in AtOnce, ~crossed, moves[i] # NoMove, moves' = [moves EXCEPT ![i] = NoMove], IsForest(tree')
      PROVE  Uncrossed'
  <2>1. \A j \in AtOnce : moves'[j] = NoMove
    BY <1>10 DEF Uncrossed, OneMove, TreeTypes
  <2>2. OneMove' /\ Away' /\ Moved'
    BY <2>1 DEF OneMove, Away, Moved, NoMove
  <2> QED
    BY <1>10, <2>2 DEF Uncrossed, IsForest
<1>11. ASSUME NEW i \in AtOnce, MoveFails(i) PROVE Uncrossed'
  <2>1. ~crossed /\ moves[i] # NoMove /\ moves' = [moves EXCEPT ![i] = NoMove]
    BY <1>11 DEF MoveFails, NoMove
  <2>2. CASE tree' = tree
    BY <1>10, <2>1, <2>2 DEF Uncrossed
  <2>3. CASE tree' # tree
    <3>1. PICK n \in moves[i].left : n \in DOMAIN tree /\ tree' = [tree EXCEPT ![n] = moves[i].to]
      BY <1>11, <2>3 DEF MoveFails
    <3>2. IsForest(tree')
      BY <2>1, <3>1, CallMoves
    <3> QED
      BY <1>10, <2>1, <3>2
  <2> QED
    BY <2>2, <2>3
<1>12. ASSUME NEW i \in AtOnce, MoveEnds(i) PROVE Uncrossed'
  BY <1>10, <1>12 DEF MoveEnds, Uncrossed
<1>13. CASE load
  <2>1. ~crossed /\ UNCHANGED <<tree, moves>> /\ view' \in {tree, view}
    BY <1>13 DEF load
  <2>2. \A n, t : Arrived(n, t) => Arrived(n, t)'
    BY <2>1 DEF Arrived
  <2> QED
    BY <2>1, <2>2 DEF Uncrossed, IsForest, OneMove, Away, Moved
<1>14. CASE Other
  <2>1. ~crossed /\ ~Moving /\ UNCHANGED moves
    BY <1>14 DEF Other
  <2>2. PICK n \in DOMAIN tree :
           \/ \E t \in (DOMAIN tree \ collectIds(tree, n)) \cup {Root} : tree' = [tree EXCEPT ![n] = t]
           \/ tree' = Removed(n)
    BY <1>14 DEF Other
  <2>3. ASSUME NEW t \in (DOMAIN tree \ collectIds(tree, n)) \cup {Root}, tree' = [tree EXCEPT ![n] = t]
        PROVE  IsForest(tree')
    <3>1. t \notin collectIds(tree, n)
      BY <1>1, CollectsNodes, RootIsNoNode DEF TreeTypes
    <3> QED
      BY <1>1, <2>1, <2>3, <3>1, MovedForest DEF Uncrossed
  <2>4. ASSUME tree' = Removed(n) PROVE IsForest(tree')
    BY <1>1, <2>1, <2>4, RemovedForest DEF Removed, Uncrossed
  <2> QED
    BY <1>5, <2>1, <2>2, <2>3, <2>4
<1> QED
  BY <1>3, <1>4, <1>6, <1>7, <1>8, <1>9, <1>11, <1>12, <1>13, <1>14 DEF TreeNext

LEMMA TreeInvAlways == TreeSpec => []TreeInv
<1>1. TreeInv /\ [TreeNext]_treeVars => TreeInv'
  BY TreeTypesNext, UncrossedNext DEF TreeInv
<1> QED
  BY <1>1, TreeInvInit, PTL DEF TreeSpec

\* For any glossary, any number of clicks and of changes by others: moves made on a
\* tree that was shown as it is, one at a time, make no category its own ancestor.
THEOREM ForestHolds == TreeSpec => []ForestUnlessCrossed
<1>1. TreeInv => ForestUnlessCrossed
  BY DEF TreeInv, Uncrossed, IsForest, ForestUnlessCrossed
<1> QED
  BY <1>1, TreeInvAlways, PTL

\* When such a move ends, every ticked category that is still there hangs on the
\* target, but for the target itself and what was below it before.
THEOREM EveryTickMoves == TreeSpec => MoveMovesWhatIsElsewhere
<1>1. TreeInv => [\A i \in AtOnce : MoveEnds(i) /\ ~crossed =>
         \A n \in moves[i].all \cap DOMAIN tree :
             \/ n = moves[i].to \/ tree[n] = moves[i].to
             \/ (moves[i].to # Root /\ n \in collectIds(view, moves[i].to))]_treeVars
  BY DEF TreeInv, Uncrossed, Moved, Arrived, MoveEnds
<1> QED
  BY <1>1, TreeInvAlways, PTL DEF MoveMovesWhatIsElsewhere
===============================================================================
