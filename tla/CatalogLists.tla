----------------------------- MODULE CatalogLists -----------------------------
(***************************************************************************)
(* The list pages of the web application: users, models, datasets, APIs    *)
(* and AI agents.  Each has a provider (a page of rows fetched from the    *)
(* server, the applied filters, a dialog and what it acts on), a table     *)
(* with a filter form and a pager, and dialogs that change the server and  *)
(* fetch the page again.  They share their control and differ in the       *)
(* features the records below name.                                        *)
(*                                                                         *)
(* A step is one callback of the browser: a click, a timer, or the answer  *)
(* to a request.  Answers arrive in any order and may be failures.         *)
(***************************************************************************)
EXTENDS Naturals, Sequences, FiniteSets, SequencesExt

CONSTANTS
    Items,     \* what the server can list
    Stored,    \* the items the server has at first
    Ordered,   \* the server's order of any items, as its queries sort them
    Texts,     \* the items that contain the word one can type
    Ready,     \* the items of the status, or organisation, one can select
    MaxSent,   \* how many list requests each page sends
    MaxTimers, \* how many timers to clear the row, or searches of tables gone, run at once
    MaxWork,   \* how many confirmations run at once
    None

ASSUME ServerLists ==
    /\ Stored \subseteq Items
    /\ \A S \in SUBSET Items : Ordered[S] \in Seq(S) /\ IsInjective(Ordered[S]) /\ ToSet(Ordered[S]) = S
ASSUME FiltersSelectItems == Texts \subseteq Items /\ Ready \subseteq Items
ASSUME SomeTimers == MaxTimers \in Nat /\ MaxWork \in Nat

(***************************************************************************)
(* The dialogs: what each does to the server, and what it acts on, one     *)
(* row, the ticked rows, or what is typed into it.  The dialogs for one    *)
(* user, and those for the ticked ones, are one each: they differ only in  *)
(* what they do.                                                           *)
(***************************************************************************)
ForRow(op) == [op |-> op, on |-> "row"]
ForTicked(op) == [op |-> op, on |-> "ticked"]
Plain(op) == [op |-> op, on |-> "nothing"]

\* Users: a dialog closes itself by flipping, after the list was fetched again.
UsersDeleteDialog == ForRow("change")
UsersChangePasswordDialog == ForRow("change")
UsersActionDialog == {Plain("add"), ForRow("change")}
UsersStatusDialog == ForTicked("activate")     \* or deactivate

\* The others close first, and fetch the list then.
ModelsDeleteDialog == ForTicked("delete")
DatasetsAddDialog == Plain("add")
DatasetsDeleteDialog == ForRow("delete")
ApisAddDialog == Plain("add")                  \* goes on to the detail of what was added
AIAgentsAddDialog == Plain("add")
AIAgentsDeleteDialog == ForRow("delete")

(***************************************************************************)
(* What each page has.  flips: closing a dialog flips it, after the list   *)
(* was fetched again.  once: a confirmation cannot be repeated while it    *)
(* runs.                                                                   *)
(***************************************************************************)
Provider(dialogs, flips, once) ==
    LET On(what) == {d.op : d \in {e \in dialogs : e.on = what}}
    IN  [byRow |-> On("row"), byTicks |-> On("ticked"), plain |-> On("nothing"),
         flips |-> flips, once |-> once]

UsersProvider ==
    Provider({UsersDeleteDialog, UsersChangePasswordDialog, UsersStatusDialog} \cup UsersActionDialog, TRUE, FALSE)
ModelsProvider == Provider({ModelsDeleteDialog}, FALSE, TRUE)
DatasetsProvider == Provider({DatasetsAddDialog, DatasetsDeleteDialog}, FALSE, TRUE)
ApisProvider == Provider({ApisAddDialog}, FALSE, TRUE)
AIAgentsProvider == Provider({AIAgentsAddDialog, AIAgentsDeleteDialog}, FALSE, TRUE)

\* Nothing is no item, no dialog and no search.
ASSUME NoneIsNothing ==
    /\ None \notin Items /\ None \notin {"add", "change", "delete", "activate", "edit"}
    /\ None \notin [filter : [text : BOOLEAN, status : BOOLEAN], size : Nat]

\* The form of a table.  byButton: what is typed waits for a button, or Enter, and
\* otherwise for a pause in typing, unless Enter comes first.  selects: a select that
\* changes applies the form at once.  drops: selects and Enter drop the pause that is
\* running.  onMount: the form is the table's own: it is empty, and runs, when the
\* table mounts.
Form(byButton, selects, drops, onMount) ==
    [byButton |-> byButton, selects |-> selects, drops |-> drops, onMount |-> onMount]

UsersTable == Form(TRUE, FALSE, FALSE, FALSE)
DatasetsTable == Form(TRUE, TRUE, FALSE, FALSE)   \* its selects of organisation and system

\* Mutant: a select that changes leaves the pause running.
ModelsTableForgets == Form(FALSE, TRUE, FALSE, TRUE)

ModelsTable == Form(FALSE, TRUE, TRUE, TRUE)
ApisTable == Form(FALSE, TRUE, FALSE, FALSE)
AIAgentsTable == Form(FALSE, TRUE, FALSE, FALSE)

Providers == [users |-> UsersProvider, models |-> ModelsProvider, datasets |-> DatasetsProvider,
              apis |-> ApisProvider, agents |-> AIAgentsProvider]
Tables == [users |-> UsersTable, models |-> ModelsTable, datasets |-> DatasetsTable,
           apis |-> ApisTable, agents |-> AIAgentsTable]
ASSUME SomeRequests == \A k \in DOMAIN Providers : MaxSent[k] \in Nat

VARIABLES
    kind,       \* the list page that is open
    exist,      \* the items on the server
    page, size, \* the pager
    box,        \* what the filter form shows
    applied,    \* appliedFiltersRef
    pause,      \* the search waiting for a pause in typing, or None
    strays,     \* such searches of tables that are gone, in the order typed
    astray,     \* one of them was applied under a form that did not type it
    detail,     \* the item whose detail is open instead of the table, or None
    loading,    \* isLoading
    reqs,       \* the list requests on the way
    sent,       \* how many were sent
    shown,      \* the rows on the screen, and the request they answer
    picked,     \* rowSelection: the indices of the ticked rows
    targets,    \* selectedUsers / deleteTargetNames: what a bulk dialog acts on
    row,        \* currentRow / deleteTargetName: what a row dialog acts on
    open,       \* the dialog that is open
    clearing,   \* timers that will clear currentRow
    work        \* the confirmations on their way to the server

pager == <<page, size>>
form == <<box, applied, pause, strays, astray>>
list == <<loading, reqs, sent, shown>>
dialog == <<targets, row, open, clearing, work>>
listVars == <<kind, exist, detail, pager, form, list, picked, dialog>>

Has(f) == Providers[kind][f]
FormHas(f) == Tables[kind][f]
Dialogs == Has("byRow") \cup Has("byTicks") \cup Has("plain")
Sizes == {1, 2}
NoFilter == [text |-> FALSE, status |-> FALSE]
Modal == open # None /\ (open \in Has("byRow") => row # None)
AtTable == ~Modal /\ detail = None

(***************************************************************************)
(* The server: the rows of one page of what a filter selects.              *)
(***************************************************************************)
Selected(f) == {i \in exist : (f.text => i \in Texts) /\ (f.status => i \in Ready)}
Rows(r) ==
    LET all == Ordered[Selected(r.filter)]
        first == (r.page - 1) * r.size + 1
        last == IF r.page * r.size < Len(all) THEN r.page * r.size ELSE Len(all)
    IN  IF first > last THEN <<>> ELSE SubSeq(all, first, last)
Pages == (shown.total + size - 1) \div size

(***************************************************************************)
(* load: every request carries the page, size and filters of the moment it *)
(* was made; "from" says that its callback was made for another page or    *)
(* size than the pager's, "flip" is the dialog that waits for it, and      *)
(* "leads" the detail, or the table (None), its answer leads to.           *)
(***************************************************************************)
Request(n, p, s, f, from, d, to) ==
    [n |-> n, page |-> p, size |-> s, filter |-> f, stale |-> from, flip |-> d, leads |-> to]
Simple(n, s, f) == Request(n, 1, s, f, FALSE, None, {})
load(rs) ==
    /\ sent + Cardinality(rs) <= MaxSent[kind]
    /\ loading' = TRUE /\ reqs' = reqs \cup rs /\ sent' = sent + Cardinality(rs)
    /\ shown' = shown
loadNow(p, s, f) == load({Request(sent + 1, p, s, f, s # size, None, {})})

\* The last request answered is the one shown, whatever the order they were sent.
Answered(r) ==
    /\ shown' = [n |-> r.n, page |-> r.page, size |-> r.size, filter |-> r.filter,
                 stale |-> r.stale, rows |-> Rows(r), total |-> Cardinality(Selected(r.filter))]
Close(d) ==
    /\ open' = IF d = None THEN open ELSE IF open = d THEN None ELSE d
    /\ clearing' = IF d \in Has("byRow") /\ clearing < MaxTimers THEN clearing + 1 ELSE clearing

\* Mutant: new rows move the users that a bulk dialog acts on.
AnswerReselects(r) ==
    /\ Answered(r) /\ loading' = FALSE /\ reqs' = reqs \ {r} /\ sent' = sent
    /\ Close(r.flip)
    /\ targets' = IF kind = "users" THEN {Rows(r)[i] : i \in picked \cap DOMAIN Rows(r)} ELSE targets
    /\ UNCHANGED <<kind, exist, detail, pager, form, picked, row, work>>

\* A detail takes the place of the table: its pause runs on, out of reach.
Show(d) ==
    /\ detail' = d
    /\ IF detail = None /\ d # None /\ pause # None
       THEN Len(strays) < MaxTimers /\ strays' = Append(strays, pause) /\ pause' = None
       ELSE UNCHANGED <<pause, strays>>

Answer(r) ==
    /\ Answered(r) \/ shown' = shown
    /\ loading' = FALSE /\ reqs' = reqs \ {r} /\ sent' = sent
    /\ Close(r.flip)
    /\ \E d \in IF r.leads = {} THEN {detail} ELSE r.leads : Show(d)
    /\ UNCHANGED <<kind, exist, pager, box, applied, astray, picked, targets, row, work>>

(***************************************************************************)
(* The pager.                                                              *)
(***************************************************************************)
handleSetPage(p) ==
    /\ AtTable /\ p \in 1..Pages
    /\ page' = p /\ loadNow(p, size, applied)
    /\ UNCHANGED <<kind, exist, detail, size, form, picked, dialog>>

\* Mutant: the page is kept when its size changes.
handleSetPageSizeKeepsPage(s) ==
    /\ AtTable /\ s # size
    /\ size' = s /\ page' = page
    /\ load({Simple(sent + 1, s, applied), Simple(sent + 2, s, NoFilter)})
    /\ UNCHANGED <<kind, exist, detail, form, picked, dialog>>

\* The handler loads with the applied filters, and the effect on the page size
\* loads once more without any.
handleSetPageSize(s) ==
    /\ AtTable /\ s # size
    /\ size' = s /\ page' = 1
    /\ load({Simple(sent + 1, s, applied), Simple(sent + 2, s, NoFilter)})
    /\ UNCHANGED <<kind, exist, detail, form, picked, dialog>>

(***************************************************************************)
(* The filter form.                                                        *)
(***************************************************************************)
apply(f, s) == applied' = f /\ page' = 1 /\ loadNow(1, s, f)
search(f) == apply(f, size) /\ astray' = FALSE

\* Typing starts the pause again; the search it will run, and the page size, are
\* those of now.
handleSearchChange ==
    /\ AtTable
    /\ box' = [box EXCEPT !.text = ~@]
    /\ pause' = IF FormHas("byButton") THEN None ELSE [filter |-> box', size |-> size]
    /\ UNCHANGED <<kind, exist, detail, pager, applied, strays, astray, list, picked, dialog>>

\* The searches of tables that are gone were typed first, and are run first.
PauseOver ==
    /\ \/ /\ strays # <<>>
          /\ apply(Head(strays).filter, Head(strays).size)
          /\ strays' = Tail(strays) /\ pause' = pause /\ astray' = FormHas("onMount")
       \/ /\ strays = <<>> /\ pause # None
          /\ apply(pause.filter, pause.size)
          /\ pause' = None /\ strays' = strays /\ astray' = FALSE
    /\ UNCHANGED <<kind, exist, detail, size, box, picked, dialog>>

\* Enter.  (With a button, Enter is the button: handleSearch.)
handleSearchKeyDown ==
    /\ AtTable /\ ~FormHas("byButton")
    /\ search(box) /\ pause' = IF FormHas("drops") THEN None ELSE pause
    /\ UNCHANGED <<kind, exist, detail, size, box, strays, picked, dialog>>

\* (The filters beside the button wait like its text: handleSearchChange.)
selectFilter ==
    /\ AtTable /\ FormHas("selects")
    /\ box' = [box EXCEPT !.status = ~@]
    /\ search(box') /\ pause' = IF FormHas("drops") THEN None ELSE pause
    /\ UNCHANGED <<kind, exist, detail, size, strays, picked, dialog>>

handleSearch ==
    /\ AtTable /\ FormHas("byButton") /\ search(box)
    /\ UNCHANGED <<kind, exist, detail, size, box, pause, strays, picked, dialog>>

\* Only the models table fetches twice: its effect follows the selects.
handleClear ==
    /\ AtTable /\ kind \in {"users", "datasets", "models"}
    /\ box' = NoFilter /\ pause' = None
    /\ CASE kind = "users" -> UNCHANGED <<page, applied, astray, list>>
         [] kind = "datasets" -> search(NoFilter)
         [] kind = "models" ->
              /\ applied' = NoFilter /\ page' = 1 /\ astray' = FALSE
              /\ load({Simple(sent + i, size, NoFilter) : i \in IF box.status THEN 1..2 ELSE 1..1})
    /\ UNCHANGED <<kind, exist, detail, size, strays, picked, dialog>>

(***************************************************************************)
(* The detail of an item.  For the models any other view is one: their     *)
(* page opens on the tab of the dashboard, and tabs unmount what they hide.*)
(***************************************************************************)
openDetail(i) ==
    /\ AtTable /\ kind \in {"models", "apis", "agents"}
    /\ kind # "models" => ~loading /\ i \in ToSet(shown.rows)
    /\ Show(i)
    /\ UNCHANGED <<kind, exist, pager, box, applied, astray, list, picked, dialog>>

\* The table mounts.
closeDetail ==
    /\ ~Modal /\ detail # None /\ detail' = None
    /\ IF FormHas("onMount") THEN box' = NoFilter /\ search(NoFilter)
       ELSE UNCHANGED <<box, applied, astray, page, list>>
    /\ UNCHANGED <<kind, exist, size, pause, strays, picked, dialog>>

(***************************************************************************)
(* Ticks.  They are kept by the row's index, over pages and answers.       *)
(***************************************************************************)
Ticked(idx, rows) == {rows[i] : i \in idx \cap DOMAIN rows}

toggleRow(i) ==
    /\ AtTable /\ ~loading /\ Has("byTicks") # {} /\ i \in DOMAIN shown.rows
    /\ picked' = (picked \ {i}) \cup ({i} \ picked)
    /\ targets' = IF kind = "users" THEN Ticked(picked', shown.rows) ELSE targets
    /\ UNCHANGED <<kind, exist, detail, pager, form, list, row, open, clearing, work>>

resetRowSelection ==
    /\ AtTable /\ Ticked(picked, shown.rows) # {}
    /\ picked' = {}
    /\ targets' = IF kind = "users" THEN {} ELSE targets
    /\ UNCHANGED <<kind, exist, detail, pager, form, list, row, open, clearing, work>>

(***************************************************************************)
(* Dialogs.  setOpen flips: opening the dialog that is open closes it.     *)
(***************************************************************************)
setOpen(d) == IF open = d THEN None ELSE d

OpenPlain(d) ==
    /\ AtTable /\ d \in Has("plain") /\ open' = setOpen(d)
    /\ UNCHANGED <<kind, exist, detail, pager, form, list, picked, targets, row, clearing, work>>

\* The models page takes a copy of the ticked names; the users page has one.
OpenTicked(d) ==
    /\ AtTable /\ d \in Has("byTicks")
    /\ kind = "models" => Ticked(picked, shown.rows) # {}
    /\ targets' = IF kind = "models" THEN Ticked(picked, shown.rows) ELSE targets
    /\ open' = setOpen(d)
    /\ UNCHANGED <<kind, exist, detail, pager, form, list, picked, row, clearing, work>>

\* An agent is deleted from its detail, the others from their row.
OpenRow(d, i) ==
    /\ ~Modal /\ d \in Has("byRow")
    /\ IF kind = "agents" THEN i = detail ELSE ~loading /\ i \in ToSet(shown.rows)
    /\ row' = i /\ open' = setOpen(d)
    /\ UNCHANGED <<kind, exist, detail, pager, form, list, picked, targets, clearing, work>>

\* Mutant: the row is dropped and the dialog stays.
DismissRowOnly ==
    /\ Modal /\ row' = None
    /\ UNCHANGED <<kind, exist, detail, pager, form, list, picked, targets, open, clearing, work>>

\* Escape, Cancel or a click outside.
Dismiss ==
    /\ Modal
    /\ IF Has("flips") THEN Close(open) /\ row' = row
       ELSE open' = None /\ clearing' = clearing /\ row' = IF kind = "datasets" THEN None ELSE row
    /\ UNCHANGED <<kind, exist, detail, pager, form, list, picked, targets, work>>

\* Half a second after a row dialog of the users page closed.
ClearRow ==
    /\ clearing > 0 /\ clearing' = clearing - 1 /\ row' = None
    /\ UNCHANGED <<kind, exist, detail, pager, form, list, picked, targets, open, work>>

\* A call to the server holds the targets, page and size of its render.
Calls(op, ids) ==
    /\ Cardinality(work) < MaxWork
    /\ LET free == CHOOSE i \in 1..MaxWork : \A w \in work : w.id # i
       IN  work' = work \cup {[id |-> free, op |-> op, ids |-> ids, page |-> page, size |-> size]}

Confirmed == IF open \in Has("byRow") THEN {row} ELSE IF open \in Has("byTicks") THEN targets ELSE {}
Confirm ==
    /\ Modal /\ Calls(open, Confirmed)
    /\ Has("once") => \A w \in work : w.op # open
    /\ UNCHANGED <<kind, exist, detail, pager, form, list, picked, targets, row, open, clearing>>

\* The detail of an API edits or deletes it, as often as one clicks.
DetailCall(op) ==
    /\ ~Modal /\ kind = "apis" /\ detail # None /\ op \in {"edit", "delete"}
    /\ Calls(op, {detail})
    /\ UNCHANGED <<kind, exist, detail, pager, form, list, picked, targets, row, open, clearing>>

Effect(w, i) ==
    CASE w.op = "delete" -> exist' = exist \ w.ids
      [] w.op = "change" -> exist' = exist \/ exist' = exist \ w.ids
      [] w.op = "add" -> exist' = exist \cup {i}
      [] OTHER -> exist' = exist

\* Where the answer to the refresh leads: to the API added, or off the one deleted.
Leads(w, i) ==
    IF kind # "apis" \/ w.op = "edit" THEN {} ELSE IF w.op = "add" THEN {i} ELSE {None}

\* Fetch the page again: the page and size are those of the confirmation's
\* render, the filters are read now.
Refresh(w, d, to) ==
    load({Request(sent + 1, w.page, w.size, applied, w.page # page \/ w.size # size, d, to)})

\* (The detail of an API fetches itself first, which may fail.)
WorkDone(w) ==
    /\ work' = work \ {w}
    /\ \E i \in Items :
          /\ Effect(w, i)
          /\ \/ Refresh(w, IF Has("flips") THEN w.op ELSE None, Leads(w, i))
             \/ w.op = "edit" /\ UNCHANGED list
    /\ IF Has("flips") \/ w.op \notin Dialogs THEN UNCHANGED <<open, row, picked, targets>>
       ELSE /\ open' = None
            /\ row' = IF w.op = "delete" THEN None ELSE row
            /\ picked' = IF kind = "models" THEN {} ELSE picked
            /\ targets' = IF kind = "models" THEN {} ELSE targets
    /\ detail' = IF kind = "agents" /\ w.op = "delete" THEN None ELSE detail
    /\ UNCHANGED <<kind, pager, form, clearing>>

WorkFailed(w) ==
    /\ work' = work \ {w}
    /\ UNCHANGED <<kind, exist, detail, pager, form, list, picked, targets, row, open, clearing>>

(***************************************************************************)
(* The specification.                                                      *)
(***************************************************************************)
\* The page mounts: the first page without filters is asked for.  The address may
\* name an API or an agent, whose detail opens at once.
ListInit ==
    /\ kind \in DOMAIN Providers
    /\ exist = Stored
    /\ detail \in CASE kind = "models" -> Items
                    [] kind \in {"apis", "agents"} -> Items \cup {None}
                    [] OTHER -> {None}
    /\ page = 1 /\ size = 1 /\ box = NoFilter /\ applied = NoFilter
    /\ pause = None /\ strays = <<>> /\ astray = FALSE
    /\ sent = 1 /\ reqs = {Simple(1, 1, NoFilter)}
    /\ loading = TRUE
    /\ shown = [n |-> 0, page |-> 1, size |-> 1, filter |-> NoFilter, stale |-> FALSE, rows |-> <<>>, total |-> 0]
    /\ picked = {} /\ targets = {} /\ row = None /\ open = None /\ clearing = 0 /\ work = {}

ListNext ==
    \/ \E r \in reqs : Answer(r)
    \/ \E p \in 1..Cardinality(Items) : handleSetPage(p)
    \/ \E s \in Sizes : handleSetPageSize(s)
    \/ handleSearchChange \/ PauseOver \/ handleSearchKeyDown \/ selectFilter
    \/ handleSearch \/ handleClear
    \/ \E i \in Sizes : toggleRow(i)
    \/ resetRowSelection
    \/ \E d \in Dialogs : OpenPlain(d) \/ OpenTicked(d) \/ \E i \in Items : OpenRow(d, i)
    \/ \E i \in Items : openDetail(i)
    \/ closeDetail
    \/ \E op \in {"edit", "delete"} : DetailCall(op)
    \/ Dismiss \/ ClearRow \/ Confirm
    \/ \E w \in work : WorkDone(w) \/ WorkFailed(w)

ListSpec == ListInit /\ [][ListNext]_listVars
-----------------------------------------------------------------------------
(* What the list pages promise. *)

\* Once every answer has arrived and the last request's came last, the rows are
\* those of the page and page size the pager shows: paging, resizing, searching and
\* the refresh after a dialog leave them in step.  Two requests may not: the refresh of
\* a dialog that was confirmed on another page or size than the pager shows now, and
\* the search typed before the page was resized, which has the page size of the typing.
RowsAnswerThePager ==
    reqs = {} /\ shown.n = sent /\ ~shown.stale => shown.page = page /\ shown.size = size

\* Where the table shows and a select applies at once, the status (the organisation,
\* for datasets) that is applied is the one shown, and the text too where it applies by
\* itself, once no search is waiting.  In the tables of APIs and agents a pause may
\* bring back an older status.  The models table has no such pause, but it forgets its
\* form and not its pause when a detail takes its place: the search typed before is
\* then applied under an empty form (astray).
FormIsApplied ==
    detail = None /\ pause = None /\ strays = <<>> /\ ~astray =>
        /\ ~FormHas("byButton") => applied.text = box.text
        /\ kind \in {"models", "datasets"} => applied.status = box.status

\* A dialog for one row has its row, on the pages that close a dialog and drop
\* its row together.
OpenDialogHasRow == ~Has("flips") /\ open \in Has("byRow") => row # None

\* While a dialog stays open, nothing that arrives changes what it acts on.
DialogKeepsItsTargets ==
    [][Modal /\ open' = open => targets' = targets /\ row' \in {row, None}]_listVars

\* users-provider.tsx: "Handle page size change. Resets to page 1 and preserves
\* the currently applied filters."
PageSizeKeepsFilters == kind = "users" /\ reqs = {} /\ shown.n = sent => shown.filter = applied
=============================================================================
