-------------------------------- MODULE Panels --------------------------------
(***************************************************************************)
(* The machine that every data panel of the web application is: effects    *)
(* fetch what the selection calls for, buttons call the server and fetch   *)
(* again, and answers arrive in any order or fail.  The catalogues of      *)
(* panels say, for each component, what it fetches, keeps and does.        *)
(*                                                                         *)
(* A step is one callback of the browser.  Data is a number: how often it  *)
(* was changed on the server.                                              *)
(***************************************************************************)
EXTENDS AdminPanels

CONSTANTS
    Catalog,   \* the panels, by name
    Keys,      \* what can be selected, 1 at first
    MaxActs,   \* how many selections and operations the person makes
    MaxJobs,   \* how many jobs may be under way when they make one
    None

ASSUME SomeKeys == Keys \subseteq Nat /\ 1 \in Keys /\ None \notin Keys
ASSUME SomeActs == MaxActs \in Nat /\ MaxJobs \in Nat
ASSUME Described ==
    \A n \in DOMAIN Catalog :
        {"name", "parts", "keyed", "views", "mount", "select", "drops", "clears", "forgets", "ops"}
            \subseteq DOMAIN Catalog[n]
\* What a panel fetches, and an operation does, is a sequence of steps.
StepsOn(ps) ==
    [call : BOOLEAN, parts : SUBSET ps, deaf : SUBSET AnyFailure, tells : BOOLEAN, merges : BOOLEAN,
     lags : BOOLEAN, along : BOOLEAN]
ASSUME InSteps ==
    \A n \in DOMAIN Catalog : LET c == Catalog[n] IN
        /\ c.mount \cup c.select \cup UNION {o.after : o \in c.ops} \subseteq Seq(StepsOn(c.parts)) \ {<<>>}
        /\ \A o \in c.ops : o.steps \in Seq(StepsOn(c.parts)) /\ o.typed \subseteq c.parts
\* Operations of one name are one operation, and no other job has its name.
ASSUME OneName ==
    \A n \in DOMAIN Catalog : \A o, q \in Catalog[n].ops :
        /\ o.name = q.name => o = q
        /\ o.name \notin {"effect", "after", "workflow", "stray"}

VARIABLES
    panel,  \* the panel that is open, a record of the catalogue
    key,    \* what is selected
    srv,    \* the server's data, by part and key
    shown,  \* what the panel shows of each part, and whether it is the latest asked for
    jobs,   \* operations and fetches under way
    missed, \* parts that a failed request left behind, told to the person or not, or
            \* that a call changed which nobody waits for any more
    busy,   \* the flags that disable buttons, with the key they were set for
    acts    \* what the person did, counted

vars == <<panel, key, srv, shown, jobs, missed, busy, acts>>

Parts == panel.parts
Flags == {o.flag : o \in panel.ops} \ {NoFlag}
KeyOf(p, k) == IF p \in panel.keyed THEN k ELSE 1
IsOp(j) == \E o \in panel.ops : o.name = j.op
OpOf(j) == CHOOSE o \in panel.ops : o.name = j.op
Nothing(latest) == [key |-> None, val |-> None, latest |-> latest]

\* The server's data after a call for k changed ps.
Changed(ps, k) ==
    [p \in Parts |-> [i \in Keys |->
        srv[p][i] + IF p \in ps /\ (i = KeyOf(p, k) \/ p \in panel.views) THEN 1 ELSE 0]]

(***************************************************************************)
(* Sending.  A job that comes to a fetch notes the server's data: the      *)
(* answer is no older.  Earlier requests for the same parts are late then, *)
(* and what is shown of them is no longer the latest.                      *)
(***************************************************************************)
Job(op, k, todo) ==
    [op |-> op, key |-> k, todo |-> todo, id |-> 0, seen |-> <<>>, late |-> {}, gone |-> FALSE]
Effects(seqs, k) == {Job("effect", k, t) : t \in seqs}
After(j) == LET o == OpOf(j) IN {Job("after", IF o.now THEN key ELSE j.key, t) : t \in o.after}
Fetched(js) ==
    UNION {Head(j.todo).parts : j \in {i \in js : ~Head(i.todo).call /\ ~Head(i.todo).merges}}

FreeId(js) == CHOOSE i \in 1..(Cardinality(js) + 1) : \A j \in js : j.id # i
Seen(j, s) ==
    LET h == Head(j.todo)
    IN  CASE h.merges /\ h.call -> [p \in h.parts |-> shown[p].val]
          [] h.merges /\ ~h.call -> [p \in h.parts |-> j.seen[p] + 1]
          [] h.call /\ ~h.merges -> <<>>
          [] OTHER -> [p \in h.parts |-> s[p][KeyOf(p, j.key)]]
Begun(j, js, s) == [j EXCEPT !.id = FreeId(js), !.late = {}, !.seen = Seen(j, s)]
Overtaken(js, ps) == {[j EXCEPT !.late = @ \cup ps] : j \in js}
Sending(js, new, ps, s) ==
    Overtaken(js, ps \cup Fetched(new)) \cup {Begun(j, js, s) : j \in new}
Older(shows, ps) == [p \in Parts |-> IF p \in ps THEN [shows[p] EXCEPT !.latest = FALSE] ELSE shows[p]]

\* Mutant: what an operation changed is not fetched again.
NothingFollows(j) == IF Len(j.todo) > 1 THEN {[j EXCEPT !.todo = Tail(@)]} ELSE {}

\* A job's step is over: its next step, or what follows it.
Further(j) ==
    IF Len(j.todo) > 1 THEN {[j EXCEPT !.todo = Tail(@)]}
    ELSE IF IsOp(j) THEN After(j) ELSE {}

\* Mutant: a flag is cleared as soon as one of its calls is answered.
FreedEarly(j, ended) ==
    IF IsOp(j) /\ OpOf(j).flag # NoFlag THEN [busy EXCEPT ![OpOf(j).flag] = None] ELSE busy

\* The flag of a component that is gone is no more.
Freed(j, ended) ==
    IF ended /\ IsOp(j) /\ OpOf(j).flag # NoFlag /\ ~(j.gone /\ OpOf(j).flag \in panel.forgets)
    THEN [busy EXCEPT ![OpOf(j).flag] = None] ELSE busy

(***************************************************************************)
(* Selecting, clicking.                                                    *)
(***************************************************************************)
Act == acts < MaxActs /\ Cardinality(jobs) < MaxJobs /\ acts' = acts + 1

\* Mutant: the clean-up of an effect forgets its flag.
NeverDropped(j) == FALSE

\* Effects that no longer count once something else is selected.
Dropped(j) == panel.drops /\ j.op = "effect"

\* What goes on after a selection, some of it for components that are gone.
Left(js) == {[j EXCEPT !.gone = panel.forgets # {}] : j \in {i \in js : ~Dropped(i)}}

\* Some panels have nothing to select.
Selectable ==
    panel.keyed # {} \/ panel.select # {} \/ panel.forgets # {} \/ \E o \in panel.ops : o.perRow

Select(k) ==
    /\ Act /\ Selectable
    /\ (k # key \/ panel.reopens) /\ key' = k
    /\ LET new == Effects(panel.select, k)
           bare == [p \in Parts |-> IF p \in panel.clears THEN Nothing(FALSE) ELSE shown[p]]
       IN  /\ jobs' = Sending(Left(jobs), new, {}, srv)
           /\ shown' = Older(bare, Fetched(new))
           /\ missed' = missed \ Fetched(new)
    /\ busy' = [f \in Flags |-> IF f \in panel.forgets THEN None ELSE busy[f]]
    /\ UNCHANGED <<panel, srv>>

Offered(o) ==
    /\ \A p \in o.needs : shown[p].val # None
    /\ \A p \in o.typed : shown[p].val = None => p \notin Fetched(jobs)   \* still loading
    /\ o.flag # NoFlag => busy[o.flag] = None \/ (o.perRow /\ busy[o.flag] # key)

\* What is typed into a cell is sent for the row that is shown; a form that
\* could not be loaded is typed into, and sent, as it stands.
Object(o) ==
    LET ks == {shown[p].key : p \in o.typed} \ {None}
    IN  IF ks = {} THEN key ELSE CHOOSE k \in ks : TRUE
Typing(p) ==
    [key |-> IF shown[p].key = None THEN KeyOf(p, key) ELSE shown[p].key,
     val |-> IF shown[p].val = None THEN srv[p][KeyOf(p, key)] + 1 ELSE shown[p].val + 1,
     latest |-> TRUE]

Click(o) ==
    /\ Act
    /\ Offered(o)
    /\ LET j == Job(o.name, Object(o), o.steps)
           new == IF o.steps = <<>> THEN After(j) ELSE {j}
           cells == [p \in Parts |-> IF p \in o.typed THEN Typing(p) ELSE shown[p]]
       IN  /\ jobs' = Sending(jobs, new, o.typed, srv)
           /\ shown' = Older(cells, Fetched(new))
           /\ missed' = missed \ Fetched(new)
    /\ busy' = IF o.flag # NoFlag /\ o.steps # <<>> THEN [busy EXCEPT ![o.flag] = key] ELSE busy
    /\ UNCHANGED <<panel, key, srv>>

(***************************************************************************)
(* Answers.                                                                *)
(***************************************************************************)
\* Typed cells that an answer wrote over before the call ended, or may yet.
Crossed(j, s) ==
    {p \in IF IsOp(j) THEN OpOf(j).typed ELSE {} : shown[p].val # s[p][KeyOf(p, j.key)] \/ p \in Fetched(jobs)}

CallDone(j) ==
    /\ Head(j.todo).call /\ ~Head(j.todo).lags
    /\ srv' = Changed(Head(j.todo).parts, j.key)
    /\ LET told == Head(j.todo).tells
           new == IF told THEN {[j EXCEPT !.todo[1] = Answer(@)]} ELSE Further(j)
       IN  /\ jobs' = Sending(jobs \ {j}, new, {}, srv')
           /\ shown' = Older(shown, Fetched(new))
           /\ missed' = (missed \ Fetched(new)) \cup Crossed(j, srv')
                         \cup IF j.op = "stray" THEN Head(j.todo).parts ELSE {}
           /\ busy' = Freed(j, Len(j.todo) = 1 /\ ~told)
    /\ UNCHANGED <<panel, key, acts>>

\* A workflow was told; it makes the change when it gets to it.
CallTaken(j) ==
    /\ Head(j.todo).call /\ Head(j.todo).lags
    /\ LET new == Further(j) \cup {Job("workflow", j.key, <<Call(Head(j.todo).parts)>>)}
       IN  /\ jobs' = Sending(jobs \ {j}, new, {}, srv)
           /\ shown' = Older(shown, Fetched(new))
           /\ missed' = missed \ Fetched(new)
    /\ busy' = Freed(j, Len(j.todo) = 1)
    /\ UNCHANGED <<panel, key, srv, acts>>

\* What a job that ends early leaves behind: parts that its earlier calls
\* changed, and parts it would still have fetched.
CallsMade(j) == LET o == OpOf(j) IN SubSeq(o.steps, 1, Len(o.steps) - Len(j.todo))
PartsOf(t, called) == UNION {t[i].parts : i \in {x \in DOMAIN t : t[x].call = called}}
LeftBehind(j) == PartsOf(j.todo, FALSE) \cup IF IsOp(j) THEN PartsOf(CallsMade(j), TRUE) ELSE {}

\* Calls may still be on their way when nobody waits for them any more: one that was
\* lost, and those sent along with one that failed.  This is the job of the ones, from
\* the first such to the last, that come to the server in the end.
Plainly(step) == Call(step.parts)
Strays(j, first, last) ==
    LET todo == [i \in 1..((last - first) + 1) |-> Plainly(j.todo[(first + i) - 1])]
    IN  IF last < first THEN {} ELSE {Job("stray", j.key, todo)}

\* A refused call changed nothing; a lost one may have, or may yet.
CallFails(j, how, did) ==
    /\ IsOp(j) /\ Head(j.todo).call /\ (did => how = "lost")
    /\ srv' = IF did THEN Changed(Head(j.todo).parts, j.key) ELSE srv
    /\ \E last \in DOMAIN j.todo :
         LET goesOn == how \in Head(j.todo).deaf
             first == IF how = "lost" /\ ~did THEN 1 ELSE 2
             new == IF goesOn THEN Further(j) ELSE IF OpOf(j).anyway THEN After(j) ELSE {}
             left == IF goesOn THEN {} ELSE LeftBehind(j) \cup IF did THEN Head(j.todo).parts ELSE {}
         IN  /\ last > 1 => ~goesOn /\ \A k \in 1..(last - 1) : j.todo[k].along
             /\ \E rest \in {{}, Strays(j, first, last)} :
                  jobs' = Sending(jobs \ {j}, new \cup rest, {}, srv')
             /\ shown' = Older(shown, Fetched(new))
             /\ missed' = ((missed \cup left) \ Fetched(new)) \cup Crossed(j, srv')
             /\ busy' = Freed(j, (Len(j.todo) = 1 \/ ~goesOn) /\ how \notin OpOf(j).hangs)
    /\ UNCHANGED <<panel, key, acts>>

\* Each part is read on the server some time between request and answer; the
\* answer to a call was written when the call was done.
Readings(j) ==
    LET ps == Head(j.todo).parts
        now == IF Head(j.todo).tells THEN j.seen ELSE [p \in ps |-> srv[p][KeyOf(p, j.key)]]
    IN  {got \in [ps -> UNION {j.seen[p]..now[p] : p \in ps}] :
            \A p \in ps : got[p] \in j.seen[p]..now[p]}

\* The last answer is the one shown, whatever the order of the requests and
\* whatever is selected by now.
FetchDone(j) ==
    /\ ~Head(j.todo).call
    /\ \E got \in Readings(j) :
         shown' = Older([p \in Parts |-> IF p \in DOMAIN got
                           THEN [key |-> KeyOf(p, j.key), val |-> got[p], latest |-> p \notin j.late]
                           ELSE shown[p]], Fetched(Further(j)))
    /\ jobs' = Sending(jobs \ {j}, Further(j), {}, srv)
    /\ missed' = missed \ Fetched(Further(j))
    /\ busy' = Freed(j, Len(j.todo) = 1)
    /\ UNCHANGED <<panel, key, srv, acts>>

FetchFails(j, how) ==
    /\ ~Head(j.todo).call /\ (Head(j.todo).tells => how = "lost")
    /\ LET goesOn == how \in Head(j.todo).deaf
           new == IF goesOn THEN Further(j) ELSE {}
           blank == [p \in Parts |-> IF p \in Head(j.todo).parts \cap panel.blanks
                                     THEN Nothing(p \notin j.late) ELSE shown[p]]
       IN  /\ jobs' = Sending(jobs \ {j}, new, {}, srv)
           /\ shown' = Older(blank, Fetched(new))
           /\ missed' = (missed \ Fetched(new)) \cup Head(j.todo).parts
                         \cup IF goesOn THEN {} ELSE LeftBehind(j)
           /\ busy' = Freed(j, (Len(j.todo) = 1 \/ ~goesOn) /\ (IsOp(j) => how \notin OpOf(j).hangs))
    /\ UNCHANGED <<panel, key, srv, acts>>

(***************************************************************************)
(* The specification.  Any panel may be the one that is open.              *)
(***************************************************************************)
PanelInit ==
    /\ \E n \in DOMAIN Catalog : panel = [Catalog[n] EXCEPT !.name = n]
    /\ key = 1
    /\ srv = [p \in Parts |-> [k \in Keys |-> 0]]
    /\ shown = [p \in Parts |-> Nothing(FALSE)]
    /\ jobs = Sending({}, Effects(panel.mount, 1), {}, srv)
    /\ missed = {} /\ acts = 0
    /\ busy = [f \in Flags |-> None]

Answers(j) ==
    \/ CallDone(j) \/ CallTaken(j) \/ FetchDone(j)
    \/ \E how \in AnyFailure : FetchFails(j, how)
    \/ \E how \in AnyFailure, did \in BOOLEAN : CallFails(j, how, did)

PanelNext ==
    \/ \E k \in Keys : Select(k)
    \/ \E o \in panel.ops : Click(o)
    \/ \E j \in jobs : Answers(j)

PanelSpec == PanelInit /\ [][PanelNext]_vars
===============================================================================
