------------------------------- MODULE PanelOps -------------------------------
(***************************************************************************)
(* The vocabulary in which the data panels of the web application are      *)
(* described: the pieces of data a panel shows, when it fetches them, and  *)
(* what its buttons do.  The machine that runs them is module Panels.      *)
(***************************************************************************)
EXTENDS Naturals, Sequences, FiniteSets

(***************************************************************************)
(* A step of an operation is one awaited exchange with the server: a call  *)
(* that changes data, or a request that fetches data to show.  deaf: the   *)
(* failures after which the operation goes on as if the step had worked    *)
(* ("refused": an answer that is not ok; "lost": no answer).  tells: the   *)
(* panel shows the data in the call's own answer, or, if it merges, its    *)
(* copy of the time of the click with this change put in.  lags: the       *)
(* answer comes before the change is made.  along: the next call is sent   *)
(* together with this one.                                                 *)
(***************************************************************************)
Call(ps) ==
    [call |-> TRUE, parts |-> ps, deaf |-> {}, tells |-> FALSE, merges |-> FALSE, lags |-> FALSE,
     along |-> FALSE]
Fetch(ps) == [Call(ps) EXCEPT !.call = FALSE]
Answer(s) == [s EXCEPT !.call = FALSE]           \* of a call that tells

AnyFailure == {"refused", "lost"}
Unchecked(s) == [s EXCEPT !.deaf = {"refused"}]  \* no look at resp.ok
Ignored(s) == [s EXCEPT !.deaf = AnyFailure]     \* a catch that only reports
Also(ps, s) == [s EXCEPT !.parts = @ \cup ps]    \* changes these, too
Told(s) == [s EXCEPT !.tells = TRUE]             \* shows what the call answers
Merged(s) == [Told(s) EXCEPT !.merges = TRUE]    \* shows its own copy, changed
Lagging(s) == [s EXCEPT !.lags = TRUE]           \* a signal to a workflow
AllAtOnce(s) == <<[s EXCEPT !.along = TRUE], s>>  \* Promise.all of two calls

(***************************************************************************)
(* An operation: its steps, then the fetches it starts and does not wait   *)
(* for, each a sequence.  now: these are for the selection of that moment, *)
(* not of the click.  anyway: they start after a failure too.  flag: what  *)
(* disables the button while the operation runs (perRow: of the row it was *)
(* set for); hangs: the failures that leave it set.  uses: the shown data  *)
(* the operation acts on; needs: those without which it is not offered.    *)
(* typed: cells and fields that show the new data before the call.         *)
(***************************************************************************)
NoFlag == "none"
Op(name, steps, after) ==
    [name |-> name, steps |-> steps, after |-> after, now |-> FALSE, anyway |-> FALSE,
     flag |-> NoFlag, perRow |-> FALSE, hangs |-> {}, uses |-> {}, needs |-> {}, typed |-> {}]

Go(name, steps) == Op(name, steps, {})
Then(name, steps, step) == Op(name, steps, {<<step>>})
Do(name, steps, p) == Op(name, steps, {<<Fetch({p})>>})
Once(o) == [o EXCEPT !.flag = o.name]
Guarded(f, o) == [o EXCEPT !.flag = f]
PerRow(f, o) == [Guarded(f, o) EXCEPT !.perRow = TRUE]
Hangs(how, o) == [o EXCEPT !.hangs = how]
Using(ps, o) == [o EXCEPT !.uses = ps, !.needs = ps]
Blindly(ps, o) == [o EXCEPT !.uses = ps]
Latest(o) == [o EXCEPT !.now = TRUE]
Anyway(o) == [o EXCEPT !.anyway = TRUE]
Form(name, step) == [Op(name, <<step>>, {}) EXCEPT !.typed = step.parts, !.uses = step.parts]
Typed(name, step) == [Op(name, <<step>>, {}) EXCEPT !.typed = step.parts, !.needs = step.parts]
Again(name, step) == Op(name, <<>>, {<<step>>})
Refetch(name, ps) == Again(name, Fetch(ps))

(***************************************************************************)
(* A panel.  keyed: the parts that depend on what is selected (a row, a    *)
(* page, a filter, a parent).  views: the keyed parts that are one body of *)
(* data seen through a page or filter.  mount, select: the fetches that an *)
(* effect starts.  drops: an effect's answers no longer count once another *)
(* selection is made.  clears: parts emptied by a selection; blanks: parts *)
(* emptied by a fetch that fails.  reopens: what is selected may be        *)
(* selected again.  forgets: the flags of a component that every selection *)
(* mounts anew.                                                            *)
(***************************************************************************)
\* Of what a step changes, what the panel shows.
Own(ps, steps) == [i \in DOMAIN steps |-> [steps[i] EXCEPT !.parts = @ \cap ps]]

Relevant(ps, seqs) == {t \in seqs : \E i \in DOMAIN t : t[i].parts \cap ps # {}}

Panel(ps, ops) ==
    [name |-> "", parts |-> ps, keyed |-> {}, views |-> {}, mount |-> {<<Fetch({p})>> : p \in ps},
     select |-> {}, drops |-> FALSE, clears |-> {}, blanks |-> {}, reopens |-> FALSE, forgets |-> {},
     ops |-> {[o EXCEPT !.steps = Own(ps, @), !.after = {Own(ps, t) : t \in Relevant(ps, @)}] : o \in ops}]

\* A page of tabs, each with what it shows and what it offers.
Tab(ps, ops) == [parts |-> ps, ops |-> ops]
Page(tabs) == Panel(UNION {t.parts : t \in tabs}, UNION {t.ops : t \in tabs})

\* A panel about one thing that its parent selects: all of it is keyed.
Detail(ps, ops) ==
    [Panel(ps, ops) EXCEPT !.keyed = ps, !.select = {<<Fetch({p})>> : p \in ps}]

\* A list seen through a page or a filter.
Paged(p, ops) == [Detail({p}, ops) EXCEPT !.views = {p}]
===============================================================================
