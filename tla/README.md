# Argus Catalog: specifications, checks and proofs

TLA+ models of the parts of Argus Catalog whose correctness depends on the order
in which things happen: on the server, requests that overlap, transactions that
commit one by one, a workflow engine that repeats what it cannot confirm, a peer
that changes while it is read; in the browser, answers that arrive late, fail, or
belong to what is no longer selected. Each module is a translation of the source
under `backend/app` (Python) or `frontend/apps/web` (TypeScript); names are those of
the source where TLA+ allows it, and `PROJECT.json` gives the lines behind every
definition.

Contents: [1 The system](#1-the-system) ·
[2 Modules](#2-modules-and-their-correspondence-to-the-code) ·
[3 What is checked](#3-what-is-checked) · [4 Fairness](#4-fairness) ·
[5 What is proved](#5-what-is-proved) ·
[6 What does not hold](#6-what-does-not-hold) ·
[7 Not modelled](#7-not-modelled-and-why) · [8 Plan](#8-plan)

## 1 The system

A FastAPI server (async SQLAlchemy over PostgreSQL at READ COMMITTED, rows
are read without locks), a Temporal worker, a Next.js client and command line clients. One
request is one task on the server's event loop and one database session; between
two `await`s it runs alone, across an `await` everybody else runs. The database's
transactions, the process's memory, the Temporal server, the disk, the object
store and the peers are separate stores that nothing keeps in step but the order
of the statements. That is where the models of the server look.

The web application is one process per tab. Its callbacks run one at a time, but
every exchange with the server is an `await` across which the person clicks on,
timers fire and other answers come in. A component keeps what it was last told, and
nothing ties an answer to the selection it was asked for unless the component does
so itself. That is where the models of the browser look.

### 1.1 Parts that are modelled

**change_mgmt - change requests.** *State:* a change request (CR) with a status,
its approval steps, the link to a Temporal workflow, the columns of the dataset
it changes, notices to consumers; in Temporal, the workflow's position, signals
and timers. *Operations:* create, submit, decide, cancel (HTTP); analyse, record
a decision, write a status, notify, apply (activities). *Interaction:* handlers
start and signal the workflow, the workflow schedules activities, activities
write the database the handlers read. *Hard:* starting the workflow and
committing the submission are not atomic; a decision is chosen from the database
and sent to the workflow; activities run at least once and can outlive their
timeout; waits of seven days; failed activities end the run. *Correct when:* the
columns change only after every step has consented, in order, in one run; a
decision that was accepted counts; the status tells where the CR is; every run
ends; consumers are told only of what was agreed.

**federation/breaker - circuit breaker.** *State:* failures and a cooldown per
peer, in memory. *Operations:* ask, record a success, record a failure, reset.
*Hard:* any number of calls is under way between asking and recording.
*Correct when:* it opens only for failures in a row, and closes again.

**federation/harvester - mirror of a peer.** *State:* mirrored rows, their
embeddings, a history of runs; at the peer, datasets and their time stamps.
*Operations:* a full or incremental run: fetch pages, upsert, embed, prune,
replace the lineage. *Interaction:* HTTP to the peer's export; the scheduler and
administrators start runs. *Hard:* a page at a time from a list that changes, a
commit at a time, failures and kills between two commits, two runs at once.
*Correct when:* a run that ends well leaves the mirror as the peer is, what is
pruned is gone, what is embedded is current, every run ends and says how.

**external - metadata cache.** *State:* an LRU map with a TTL, shared by all
requests. *Operations:* read by URN or id, with or without the cache; invalidate,
clear, reconfigure. *Hard:* a request reads the database and fills the cache
later; the catalogue changes without telling. *Correct when:* answers are never
older than the TTL and the requests they passed through, the limit holds,
invalidation invalidates.

**usermgr and auth - administrators.** *State:* role and status of users, role
claims in tokens. *Operations:* add, promote, demote, activate, deactivate,
delete; login, refresh, expiry. *Hard:* the last administrator is looked for
before the change is committed; tokens outlive what they claim. *Correct when:*
somebody can administer, and who was deleted stays deleted.

**comments.** *State:* threads with a count of replies per comment. *Operations:*
post, reply, delete, list. *Hard:* the count is kept by requests that overlap and
decides what is listed. *Correct when:* the count is right, and never more than the
replies there are.

**models - model registry.** *State:* registered models with a status and a version
counter, their versions with a status, and on disk a directory per model. *Operations:*
register, rename, delete softly or for good; create a version, finalize it, delete it.
*Interaction:* a client (MLflow) creates a version, writes its files to the location it
is told and finalizes; every request names the model again. *Hard:* counter and status
are read in one statement and written in another; the directory goes after the commit.
*Correct when:* a number is given once, a version ends once, a deleted model has nothing
left to end, a READY version has its own files.

**web: sessions** (`features/auth`, the guards, the login and password pages).
*State:* the token pair in `sessionStorage`, the user and access token in React
state, one refresh timer, the permissions of the dashboard, the route. *Operations:*
restore at start, sign-in, refresh, sign-out, change of a password, avatar.
*Hard:* each operation writes storage, token and user in several steps with waits
between, and any two may overlap; the guards run after every render. *Correct when:*
one account signs the requests and is shown, nobody gets past a guard, a token is
renewed before it expires, signing out leaves nothing.

**web: lists** (users, models, datasets, APIs, agents: provider, table, dialogs).
*State:* a page of rows, the pager, a filter form and the filters applied, ticks, a
dialog and what it acts on. *Operations:* page, resize, type, select, tick, open,
confirm, dismiss. *Hard:* the last answer is shown whichever request it answers;
a pause in typing races a button; a timer drops the row of a closed dialog.
*Correct when:* rows, pager and filters agree, a dialog acts on what it was opened for.

**web: data panels** (nearly a hundred components: standards, tags, taxonomies, change
requests, the page of a dataset, data sources, federation, OCI hub, models, agents,
APIs, search, files, settings). *State:* pieces of data fetched for a selection,
flags that disable buttons. *Operations:* select, edit, save, delete, test, import;
each is one or more calls and the fetches that follow. *Hard:* answers out of order,
failures between two steps, a second click, a selection changed under way.
*Correct when:* what is shown is what the server has and what is selected, a button
acts on what is shown, an operation runs once.

**web: glossary tree.** *State:* the tree as fetched, ticks, a move of several
categories under way. *Operations:* tick, move, create, delete; others change the tree
meanwhile. *Hard:* one call per category on a stale tree, any of which may fail.
*Correct when:* a move moves what was ticked and makes no cycle.

### 1.2 Other parts

| Part | State and operations | Hard behaviour | Correct when |
|---|---|---|---|
| oci_hub | models and versions beside an object store; import, finalise, delete | long imports, deletion after the commit | a ready version has its files |
| catalog | datasets, columns, lineage, taxonomy; synchronisation from sources | two writers of the columns, two moves in the taxonomy | columns of one version, no cycle |
| embedding | vectors per entity, a table of pending tasks | debounced, cancelled at any point | the last text is embedded in the end |
| quality | rules, results, a scheduler | retries at every tick | each dataset is checked when it is due |
| ai | logged suggestions, applied later | applied twice or out of date | what was shown is what is applied |
| alert | rules, alerts, notifications | webhooks before the commit | a webhook has its alert |
| apis, agents | specifications, versions, telemetry | current flags, recomputed counts | one current specification, counts exact |
| federation: search, import, samples | fan-out, copies, files | one session used by two tasks, files beside rows | partial failures are reported |
| standard, settings, permissions, search, filesystemmgr | tables and files, one transaction each | nothing beyond the database's own guarantees | - |
| core, worker, agent, sdk, quality batch, tools, deploy | wiring and clients | - | - |

## 2 Modules and their correspondence to the code

| Module | Models | Extended by |
|---|---|---|
| `ApprovalGate` | abstract: the columns change only while a gate stands open that opens after every step | refined by `ChangeApproval` (`GateSpec`, `LateGateSpec`) |
| `ChangeApproval` | `change_mgmt/router.py`, `service.py`, `workflow.py`, `activities.py` | `ChangeApprovalProperties`, `ChangeApprovalProofs`, `MCChangeApproval` |
| `CircuitBreaker` | `federation/breaker.py` and its callers in `federation/service.py` | `FederationProofs`, `MCCircuitBreaker` |
| `FederationHarvest` | `federation/harvester.py`, the export in `federation/service.py` | `FederationProofs`, `MCFederationHarvest` |
| `MetadataCache` | `external/cache.py`, `service.py`, `router.py` | `MetadataCacheProofs`, `MCMetadataCache` |
| `UserAdmin` | `usermgr/service.py`, `auth/router.py`, `core/auth.py` | `RequestProofs`, `MCUserAdmin` |
| `Comments` | `comments/service.py` | `RequestProofs`, `MCComments` |
| `ModelRegistry` | `models/service.py`, `models/models.py` | `ModelRegistryProofs`, `MCModelRegistry` |
| `WebSession` | `features/auth`, the login and password pages, the dashboard's layout | `WebSessionProofs`, `MCWebSession` |
| `CatalogLists` | providers, tables and dialogs of the five list pages | `CatalogListsProofs`, `MCCatalogLists` |
| `PanelOps` | the vocabulary of panels: steps, operations, panels | `Clients` |
| `Clients` | the functions of `features/*/api.ts` through which panels reach the server, and no others | `GovernancePanels` ... |
| `GovernancePanels`, `WorkflowPanels`, `DatasetPanels`, `RegistryPanels`, `ExplorePanels`, `AgentPanels`, `AdminPanels` | the panels, one record each, grouped by the part of the application | one another, then `Panels` |
| `Panels` | the machine that runs any panel | `PanelsProperties`, `WebPagesProofs`, `MCWebPages` |
| `GlossaryTree` | the tree of `glossary/page.tsx` | `WebPagesProofs`, `MCWebPages` |

`MCWebPages` composes the last two: a page with a panel is open, or the glossary.

A definition that a comment calls *Mutant* is no part of the model. It is a
variant of the definition below it with a bug that is easily made, kept to show
that each property can tell the two apart.

### ChangeApproval

The variables come in four groups: the database (`status`, `linked`, `decision`,
`schema`), the API server (`submit`, `calls`), the Temporal server (`pc`, `idx`,
`pending`, `cancelled`, `taken`, `result`, `tries`, `done`) and the world
(`late`, `notices`).

- A submission is `SubmitCheck` (the CR is a DRAFT), `SubmitStart`
  (`client.start_workflow`) and `SubmitCommit` (status and `workflow_id`), with
  `SubmitRefused` and `SubmitCrash` as its other ends. Two may overlap.
- A decision is `DecideRead` (the lowest PENDING step is looked up) and
  `DecideSend` (the signal). `Cancel` only signals.
- `pc` is the `await` at which `run()` stands. At an activity, `ActivityCommits`
  is an attempt's transaction, `ActivityCompletes` its result reaching the
  workflow; `ActivityFails`, `ResultLost`, `ActivityTimesOut` and `LateCommit` are
  what the retry policy is for. `Commit` says what each activity writes,
  `Resume` where the workflow goes next.
- `TakeDecision`, `SeeCancel` and `StepTimesOut` are the three ways out of
  `wait_condition`; `TimerFires` the sleeps before and between notices and until
  `scheduled_at`. Whether there is a `scheduled_at` is left open.
- Data is abstracted to what the properties tell apart: the columns are "old" or
  "new", a notice is its stage, an approver is the step.

### CircuitBreaker

`failures` stops counting at the threshold (the code compares with `>=` only) and
`open_until` is the time left, `cooling`. There is no half-open state in the code:
once the cooldown is over every caller is let through. `CallBegins` is `is_open` with the start of
the call, which no `await` separates; `CallSucceeds`, `CallFails` and `CallIsCancelled`
are how the call ends, in any order. HTTP errors and refused
connections are the same here as in the code.

### FederationHarvest

The peer's `clock` ticks with every commit, from 1 on (0 stands for no change and no
watermark); `text` is what a dataset says (the
tick of its last change, 0 when it is not exported), `stamp` its `updated_at`,
which PostgreSQL takes at the beginning of the transaction: `Edit` may commit up
to `MaxLag` ticks later. The hub's database holds `mirror`, `emb` and `run`; a task's
local variables are `job`. `Begin`, `Fetch`, `Store`, `Scan`, `Embed`,
`EmbedEnds`, `Prune` and `Finish` are the stretches of `harvest_instance` between
two commits or requests. The code commits embeddings in batches of twenty, the model
one by one, which allows every extent to which a batch may have been stored.
`Fail` is any exception, and says what the handler really does: `Reported` tells
when it gets as far as writing FAILED. `Mishaps` says which of
failures, kills, removals and column changes an instance allows. `changed`,
`shrunk` and `sound` are history, used by the properties alone; `sound` says that
nothing has happened since the mirror was new or fully synchronised that a
watermark cannot account for. Samples are switched off,
and the replacement of lineage edges is part of `Finish`.

### MetadataCache

`cache` is the `OrderedDict` as a sequence, the least recently used entry first, of
which no key has two (`OneEntryPerKey`);
`Get` and `Put` are its two methods, each under the lock and so one step. A
request goes `AskByUrn`, `Query`, `Found`, `Build`, `Built` and may be answered
from the cache on the way; `AskById` and `FindById` are the other entrance.
`owners` and `past` are history: which datasets have had a URN, and how long ago each
content was said by one of them. A renamed dataset takes its URN along while the
cached mapping goes on naming it, so an answer may be about a dataset that *had* the
URN; the code keeps to that for one TTL, and no more can be asked of it. Alias tables
and the environment suffix of old URNs are left out, and so is the mutation of a
cached dictionary by its `_cache` note, which no property is about. A cache that is
switched off is a cache of whose requests each has `noCache`.

### UserAdmin

`Check` is what a deletion, a demotion or a deactivation reads, `Apply` what it
commits; between them anything may happen. `claims` holds the role claims of a
user's access tokens that have not expired: a refresh adds one and ends none. A
superuser may do no more here than a user and is one. `raced` is history: two requests
that delete or demote have been past their check at once.

### Comments

`Load` is the read of the comment a reply or a deletion is about, `Reply` and
`Delete` the transaction that follows. The listing itself is not modelled: it reads
what the counts say.

### ModelRegistry

`model` and `version` are the rows, `disk` the files in each version's directory by the
client that wrote them, `task` what a client or a request has read so far.

- A request whose outcome depends on what it has read earlier is two steps:
  `create_model_version` and `VersionCommits`, `finalize_model_version` and
  `FinalizationCommits`, `delete_registered_model` and `DeletionCommits`,
  `hard_delete_registered_model` and `Sweep`. Where a query and the statement after it
  say the same, or the database says it (a unique name), it is one. `Fails` is
  an error, a kill, or a client that gives up.
- A client is a task too: `Upload` comes between creating and finalizing, and takes
  the directory of the model it was told, whatever became of it.
- PostgreSQL makes the writers of a row wait for each other. A soft deletion flushes the
  status when it queries the pending versions (SQLAlchemy's autoflush), so other writers
  of the model wait for its commit (`Locked`). A row that is gone when an
  update is flushed makes the request fail: the deletions drop the tasks that
  hold one.
- A directory bears the name its model was *registered* by; a renamed model keeps it.
  A hard deletion removes the directory of the name the model has *now*.

Four variables are history, used by the exceptions of the properties alone: `recycled`
(a version was deleted while a creation held its number), `outlived` (a creation
committed after the soft deletion of its model), `crossed` (an end of a version and
another end, or the deletion of its model, were read before either was committed),
`estranged` (a directory that two models, or a model and a removal, may share). Leaving
out any one of them makes TLC refute the property it belongs to.

### WebSession

`stored` is what `auth-context.tsx` keeps in `sessionStorage`, `access`, `user`,
`loading` and `timer` its React state and its timer, `page` the route. A token pair is a
number, `owner` and `life` say for whom it was issued and how far its expiry is:
more than a minute, less, or over. An operation that waits is a record of `jobs`
with the token it read before it waited, and each answer is an action of its own,
success and failure apart. `Render` is the end of every callback: the guards run,
and the dashboard loads its permissions when it mounts. `crossed` and `half` are
history, used by the properties alone. `crossed` becomes true when a session ends or
begins while an operation that writes tokens or the user, or a refresh timer, of
another is pending; `half` when a sign-in has stored its tokens and then failed.
One tab is modelled: `sessionStorage` is not shared.

### CatalogLists

`Providers` and `Tables` are what the five pages have, composed from their provider, dialogs and table:
which dialogs act on a row, on the ticks or on nothing; whether closing flips the
dialog; whether the form applies by a button, by selects at once, after a pause, when
the table mounts. A pause (`pause`) holds the filters and the page size of the moment one
typed. `detail` takes the place of the table: a form that is the table's own is gone with
it and its pause is not (`strays`, in the order typed; `astray` once one of them was
applied under a form that did not type it). In the models page any other view is a
detail. `reqs` are the requests on the way, `shown` the last answer that came. `clearing`
are the timers that drop the row of a closed dialog half a second later. The server
answers with the rows it has at some moment between request and answer, in its own
order (`Ordered`), which is any.

### Panels, their catalogue, and Clients

Each of nearly a hundred components fetches, shows, and sends in the same few ways, and
what goes wrong goes wrong in how they are combined. So there is one machine, and a
record for each component:

- A *step* is one awaited exchange: `Fetch(parts)` or `Call(parts)`, the parts being
  the pieces of data that are fetched, or changed on the server. Modifiers say what the
  code does with it: `Unchecked` (no look at `resp.ok`), `Ignored` (a `catch` that
  only reports), `Told` (the answer of the call is shown), `Merged` (the
  component's own copy, changed, is shown), `Lagging` (answered before it is done),
  `AllAtOnce` (two calls by `Promise.all`).
- An *operation* is a handler: its steps in order (`Go`), then the fetches it starts
  without waiting (`Do`, `Then`). `Once`, `Guarded`, `PerRow` name the state variable
  that disables its button and `Hangs` the failures after which it stays set.
  `Using`, `Blindly`, `Form`, `Typed` name the shown data it acts on.
- A *panel* is a component: its parts, which of them depend on the selection, the
  fetches of its effects, whether an effect's clean-up drops late answers, what a
  selection clears, and what it forgets: the flags of a component that its `key` mounts
  anew (`datasources/page.tsx:1388`).
- A function of a client (`api.ts`) is a step of `Clients`, so that a panel's
  operation is written with the functions that its handler calls.

`srv` counts the changes of each part on the server; `shown` is the count a part was
shown with, for which selection, and whether it answers the latest request for it;
`jobs` are handlers and effects under way. `Select`, `Click` and the answers
(`CallDone`, `CallTaken`, `FetchDone`, `FetchFails`, `CallFails`) are all there is;
a fetch returns any state of its parts between request and answer, part by part.
A call may come to the server when its handler has ended: one that was lost, or that was
sent along with one that failed. `Strays` are the jobs of such calls; they may land at
any later time, or never. `missed` is history: parts whose fetch failed, that an
operation that ended early has changed and not fetched, or that a stray changed since
they were asked for; the code reports these or does not, and the properties
do not speak of them. The page of a dataset, of an agent and of an API are panels of
several tabs, each with its own fetches and operations.

`PanelsProperties` says of a record, without running it, why its panel keeps the
properties: `Empties` and `KeepsUp` are the two ways in which a part follows the
selection, `StaysCurrent` is what operations do about a part that they change. That every
panel but the listed exceptions is so described is an assumption on the catalogue
(`FollowTheSelection`, `ActOnWhatFollows`, `FetchWhatChanged`), which TLC evaluates in
the run `pages`, panel by panel and part by part; the theorems of section 5 rest on it.

### GlossaryTree

`tree` is the server's, `view` what the page last fetched, `checked` the ticks, `moves`
the loops of calls under way, two at most, as the picker stays open meanwhile. `FolderTreePicker` offers targets from the view;
`updateGlossaryTerm` is one call of the loop, which the server stores whatever parent it
names; a call that fails ends the loop with nothing fetched. `Other` is another
person. `crossed` is history: a move began on a view that was out of date or beside
another move, or was met by another change.

## 3 What is checked

Eleven runs pass and one refutes what the source says (section 6).

| Run | Instance | Shows |
|---|---|---|
| `approval` | two racing submissions, two steps, four verdicts, two attempts | `ConsentPastGate`: past the loop every step was asked and none rejects; `SettledStatus`: a closed run's CR says how it ended; `GateSpec`: refinement of `ApprovalGate` |
| `approval_worker` | one submission at a time, three verdicts with PENDING, two decisions in flight, one attempt may outlive its timeout, fair worker | `AskedStepIsAwaited`, `NoticesFollowConsent`, `AppliedWithConsent`, `DecidedInOrder`; liveness: `RunCloses`, `ApprovedIsApplied`, `CancelBeforeDecisionWins` |
| `breaker` | four calls, threshold 3, cooldown 5 | `OpenMeansThreshold`; liveness: `OpenEnds` |
| `harvest` | one task, pages of one, every mishap, late commits, fair task | `FullSyncRepairs`, `EmbeddingsFollow`, `CaughtUp`; liveness: `HarvestEnds` |
| `cache` | two URNs, renames, limits 1 and 2, one request at a time | `AnswerWasTrue`, `SizeWithinLimit` |
| `user_admin` | three users, two protected requests | `AdminRemainsUnlessRaced`, `DeletedStaysGone` |
| `comments` | five comments, two requests | `CountNeverOver` |
| `registry` | two models, two names, two tasks, two numbers | `CounterCovers`: a counter is the highest number given; `DeletedIsClosed`: nothing of a deleted model is still being registered; `ReadyHasItsFiles`: a READY version has its client's files and no other's; `SettledStays`: READY and FAILED are final |
| `web_session` | two accounts, two token pairs, two operations at once | `OneIdentity`: the stored pair, the token in use, the user shown and the permissions are one account's; `SignedOutIsSignedOut`, `DashboardIsGuarded`, `KeptAlive`; liveness: `TokenIsRenewed` |
| `lists` | the five lists, two items, pages of one and two, a word and a status, three or four list requests | `RowsAnswerThePager`, `FormIsApplied`, `OpenDialogHasRow`, `DialogKeepsItsTargets` |
| `pages` | every panel of the catalogue, two selections, three acts; the glossary with three categories, four clicks and one change by somebody else | `ShownIsCurrent`: once all is answered, what is shown is what the server has; `SelectionWins`: and belongs to what is selected; `ActsOnSelected`; `OneAtATime`, with every flag that outlives a selection; `ForestUnlessCrossed`, `MoveMovesWhatIsElsewhere` |

The type invariants are not among the runs' properties: those of `ChangeApproval`,
`CircuitBreaker`, `FederationHarvest`, `UserAdmin`, `WebSession`, `ModelRegistry` and
`CatalogLists` are proved (section 5), as `HarvestTypesHold`, `ListTypes` and so on;
the other modules say the types of their variables where they declare them.

The properties of `pages` hold for every panel but the ones that
`PanelsProperties` lists by name (section 6). The lists are part of what is said of the
code: they name the components that behave otherwise, and every other one is held to the
property.

`FullSyncRepairs` and `CaughtUp` divide the mirror's promise. A full run alone
repairs whatever earlier runs have missed. An incremental run misses nothing, *unless*
a run was ended or the peer changed between two of its pages, columns changed, or an
edit committed later than its stamp: `sound` names exactly these, and leaving out any
one of them makes TLC refute `CaughtUp` on the same instance.

### Bounds, and why they are enough

- *Change requests:* two steps make a first, a last and a step before another;
  one CR is enough because CRs share nothing but their dataset. Two attempts
  of five: the second is the retry, a third repeats it. Two decisions in flight
  make an earlier and a later one for the same step; one late attempt is a
  race with its successor. Two handlers make a race for the start; with
  one, submissions follow each other, also after a run has closed. Step orders are
  1 and 2, the only ones the web form makes; the theorems about one submission hold of
  chains with gaps as well (section 5). Both runs have PENDING among the decisions.
- *Breaker:* four calls reach the threshold at once with one call to spare.
- *Harvest:* two datasets in pages of one are a page before and a page after a
  change; `MaxClock` leaves two changes after the initial two, enough to move
  a dataset, hide one behind the watermark and change it again, and removals do not
  count against it. `MaxPages` is never reached before the end of the list.
- *Cache:* two URNs have four keys against limits of 1 and 2, so that everything can
  be evicted; one request after another makes the stalest answer, one that used what an
  earlier one cached: a TTL of one tick and a flight of one make `Staleness` 3, which
  the run reaches, and `Ancient` lies beyond it. (Two requests at once were checked
  over one URN, with the same result.)
- *Users:* three users are an administrator, a second one and a bystander.
- *Registry:* two models are one that goes and the next of its name, or two that come
  to share a directory; two names are one left and one taken; two tasks are two
  clients, or a client and a request that overtakes it; two numbers are one
  that is read and the next. `MaxGiven` bounds the numbers given to
  both models together. Identities are used up: a model that is gone does not come back,
  a new one takes its name.
- *Web session:* two accounts are one that leaves and one that comes; two pairs
  are one before a refresh or a sign-in and one after. The safety invariants were also
  checked with three pairs, and are proved for any number of each. The proof found an
  interleaving that needs more pairs than TLC was given (section 6).
- *Lists:* two items are two pages of one row or one page of two; four list requests
  (models, datasets) are the one at the start and three that may overtake one another, or
  a resize and the search typed before it; three (users, APIs, agents) are a pause and an
  Enter.
- *Panels:* two selections are the one left and the one chosen; three acts are two
  that race and one that follows, or a selection, an operation and a selection back.
  An act is only made while fewer than two jobs are under way; what these start comes
  on top.
- *Glossary:* three categories are a chain with one in the middle, and a cycle needs
  two moves; four clicks are two ticks, a move and one click beside it.
- *Comments:* five comments hold a root, replies, and replies to them.

Deadlock is not checked where a system of requests may simply stop when the bound
of an instance is used up: no more comments, no more changes, no more models, a closed run, a person
who has clicked enough.

## 4 Fairness

- `ChangeApproval`: weak fairness of the worker's steps (Temporal retries, fires
  timers and resumes a workflow as long as a worker polls its queue) and of a
  submission's next step (a request is answered or its process dies). Nobody owes
  a decision, a cancellation or a submission. An activity may fail every time:
  `ApprovedIsApplied` then ends with the failure of the run.
- `CircuitBreaker`: time passes. No call is assumed to end.
- `FederationHarvest`: a task at work goes on or fails; every request to a peer
  has a timeout in the HTTP client (`federation/client.py`), and the hub's database
  is taken to answer or to drop the connection: no statement timeout is configured, and
  a run waits for no lock longer than another page's commit takes. That a run
  has success is not assumed.
- `WebSession`: time passes, the browser fires a timer that is due, and a refresh is
  answered or fails, for its promise is settled either way. Nobody has to sign in, sign out or
  click.
- Registry, lists, panels and the glossary: none. Their properties are about safety; a request
  that is never answered is allowed.

## 5 What is proved

TLAPS checks the theorems for every value of the constants, under the
assumptions the modules state: chains are finite sets of positive numbers,
verdicts are those of the enum, bounds are natural numbers; threshold and cooldown
are natural numbers; users are finitely many and the first administrator is one; so are the categories of a glossary; `None`
is none of the values it stands beside; limits of the cache are positive and its TTLs
have a largest (the settings are ranges, `external/schemas.py:60`); the operations of a panel have names of
their own and steps that speak of its parts (`InSteps`), and the panels are described as section 2 says. TLC
evaluates each of these assumptions in the runs.

| Theorem | Statement | Argument |
|---|---|---|
| `TypeCorrect` | `Spec => []TypeOK` (ChangeApproval) | `TypeInv` adds what types need: an attempt at `record` has a decision (`Recording`), only activities count attempts and no more than allowed (`Attempts`), the loop variable's range at each point of `run()` (`LoopVariable`). Without the last, `idx <= N + 1` is not inductive. |
| `GateHasConsent` | `MaxLate = 0 => (Spec => []ConsentPastGate)` | `ConsentInv` says of *every* step the loop has left behind, not only at the gate, that it exists and is not rejected (`Consents`), and that an attempt that has committed has written the decision the workflow is about to act on (`RecordedStep`). |
| `ImplementsGate` | `MaxLate = 0 => (Spec => GateSpec)` | the refinement mapping is `Phase` and `idx - 1`; each action is a step of the gate or a stutter, by `ConsentInv` |
| `ImplementsLateGate` | one submission at a time, any `MaxLate`: `Spec => LateGateSpec` | by `StepOfGate` too, and by `SingleInv`: an attempt at `apply` that is late was begun past the gate, and no later run has moved the loop variable back (`LateWrites`). TLC finds `GateSpec` violated once an attempt can be late, and `LateGateSpec` once two requests submit as well. |
| `StatusSettles` | `MaxLate = 0 => (Spec => []SettledStatus)` | `StatusOnTheWay`: before a run ends it has written its last status, and only the commit of a submission can write another |
| `ConsentOfEveryApprover`, `NoNoticeAhead`, `ChainInOrder`, `AskedIsAwaited`, `GateHasEveryConsent` | one submission at a time, any `MaxLate`: `AppliedWithConsent`, `NoticesFollowConsent`, `DecidedInOrder`, `AskedStepIsAwaited`, `ConsentPastGate` | `SingleInv`: the loop variable splits the chain, passed steps before it without a gap, of which only the last may be PENDING, and nothing decided behind it (`Front`); a step is asked, signalled and taken only when none before it is open (`InTurn`), so that a run that has gone on from a PENDING step never gets another answer; what a late attempt will write is on record already, or is what the run was recording (`LateWrites`), so that no write takes a decision back (`OnRecordStays`); schema and notices come after the last step (`Published`); and a run begins before there is any decision (`Linkage`, `Untouched`), which is what a second submission would break. Past the loop 1..N are steps of the chain, and by counting its only ones (`EveryStepPassed`) |
| `AnswersWereTrue` | `Spec => []AnswerWasTrue` (MetadataCache) | an entry, a request at each point and an answer stand for a fact that was read from the catalogue; `Inv` says how many ticks ago at most (`Kept`, `Sound`). Changes make no fact older, since a URN never goes from one dataset to another without having had none (`CommitKeeps`), and `Tick` ages facts and what stands for them alike (`MappedAges`, `ToldAges`). A mapping that is used at the end of its TTL by a request that takes its time is why the bound counts two requests. |
| `StaysWithinLimit`, `OneEntryPerKey` | `Spec => []SizeWithinLimit`, `Spec => []Dictionary` | what each operation of the cache does to the length and to the keys of any sequence of entries (`WithoutKeeps`, `PutKeeps`, `NewestKeeps`, `WithoutLeavesNone`, `PutApart`) |
| `BreakerTypeCorrect`, `OpenIsJustified` | `BreakerSpec => []TypeOK`, `BreakerSpec => []OpenMeansThreshold` (CircuitBreaker) | both together are inductive |
| `HarvestTypesHold` | `Spec => []HarvestTypes` (FederationHarvest) | inductive by itself, for any number of tasks |
| `EmbeddingsFollowAlways` | `OneJob`: `Spec => EmbeddingsFollow` | `EmbedInv`: what was scanned and waits to be embedded is what the mirror says (`ScanIsFresh`), once it is embedded nothing is missing, and a row that is gone has no embedding. The property alone, which speaks of successful runs, says nothing of the task in between. |
| `FullSyncRepairsAlways` | `OneJob`, `Fits`: `Spec => FullSyncRepairs` | `FullInv`: what a run has read and nobody changed since is still so (`Faithful`); a full run has read everything the peer lists before the place it has reached (`Swept`), after its last page the whole list (`Whole`), and its pruning leaves the mirror exact (`Exact`). While the peer only lists more, a dataset's place moves only backwards (`TurnGrows`), so what a page leaves out comes after its end; an empty page is past everything (`PageTakes`, `RankOnto`). That the peer listed less is what `shrunk` excludes. |
| `CaughtUpAlways` | `OneJob`, `Fits`: `Spec => CaughtUp` | `CaughtInv`, for as long as `sound`: as long as a run has stored no page, the watermark tells what is not mirrored (`Known`); after that each exported dataset is in the page at hand, mirrored as it is, changed meanwhile with a stamp after all that is mirrored, or still to come (`Caught`). The last page is what turns what was still to come into one of the others. |
| `UserTypeCorrect` | `Spec => []TypeOK` (UserAdmin) | inductive by itself |
| `AdminProtected` | `Spec => []AdminRemainsUnlessRaced` | Until two requests that delete or demote overlap, at most one of them is past its check (`OneUnmaking`), and it leaves another administrator behind (`CheckedLeavesAnother`): promotions only add administrators, and the one request that takes one away is this one. |
| `GoneForGood` | `Spec => DeletedStaysGone` | a deleted account is inactive (`GoneIsInactive`): the operations that change a row and those that issue a token ask for an account that exists, and the late commit of a request that was checked before leaves the row as it is (`GoneNext`) |
| `NeverCountedOver` | `CommentsSpec => []CountNeverOver` (Comments) | with types it is inductive, once they say that a row not written yet counts nothing and is counted nowhere (`Blank`): a reply adds one to the count and one to what is counted (`InsertCounts`), a deletion takes one from the count and at most one from what is counted (`DeleteCounts`), at most, since somebody else may have deleted the comment between load and write. That is where `CountIsExact` fails. |
| `RegistryTypes` | `Spec => []TypeOK` (ModelRegistry) | `TypeInv` adds what types need: a model that was registered has a directory (`Named`), and what a task carries is there: a number of the range, a model, a version (`Carries`) |
| `CounterCoversAlways` | `Spec => []CounterCovers` | `CounterInv` adds `Held`: a creation under way holds the next number, or one that a version has, so that its commit fails; a deletion that takes such a version away is what `recycled` records. `CounterCovers` alone says nothing of what creations hold. |
| `DeletedIsClosedAlways` | `Spec => []DeletedIsClosed` | `ClosedInv` adds `Closing`: a deletion that has the row locked has seen every version that is pending, as no creation commits meanwhile, and is the only one |
| `SettledStaysAlways` | `Spec => SettledStays` | `SettledInv`: what a finalization or a deletion is about to end is still pending, unless its task is one of `crossed` (`ReadsHold`), and two that may end the same version both are (`Met`) |
| `ReadyHasItsFilesAlways` | `Spec => []ReadyHasItsFiles` | `DirectoryInv`: a directory that is not `estranged` is one model's, is about to be swept, or is empty. On it rests `FilesInv`: of a model that gave every number once, nothing is stored under a number not given yet (`Fresh`), one client at most handles a number (`Alone`), and it has put there what its operation says (`Handled`). `ReadyHasItsFiles` alone says nothing of the version that will be registered over what is left on the disk. |
| `TypesHold`, `GuardsHold` | `Spec => []TypeOK`, `Spec => []DashboardIsGuarded` (WebSession) | `Sound`: every operation but signing in and out carries a pair of its own account (`JobsOwnTheirTokens`), the login page shows nobody, permissions belong to a dashboard that is up (`Screens`). Most actions only have to show what they hand to `Render`; lemma `Rendering` does the guards once for all. |
| `OneIdentityHolds` | `Spec => []OneIdentity` | `OnePhase`: unless sessions crossed, a tab shows *nobody*, and then one operation at most is bringing somebody, with the pair that is stored; or *somebody*, and then every pair and every pending writer is that account's. `OneIdentity` alone says nothing of the operations under way, whose answers are what could break it. |
| `TokensHold` | `Spec => [](KeptAlive /\ SignedOutIsSignedOut)` | `Scheduled` and `Accounted` on top of `Inv`: a token with time left has its timer or its refresh; a pair without a user belongs to an operation on its way, to the restore, or to a sign-in that failed. `SignedOutHolds` states its second half alone. |
| `ListTypes`, `RowsAnswerAlways` | `ListSpec => []TypeOK`, `ListSpec => []RowsAnswerThePager` (CatalogLists) | `Latest`: what is true of the answer shown is true of the requests still on the way. The last one that is not stale asks for the page and size of the pager, since whatever sets either sends a request with it (lemmas `Loads`, `LoadsOne`, `LoadsTwo`); stale are a refresh confirmed on another page and a search typed before a resize. |
| `FormIsAppliedAlways` | `ListSpec => []FormIsApplied` | `Pausing`: for APIs and agents, the pause that will end last (`Due`), of this table or of one that is gone, has the text that the form shows; for models the pause of this table, or else what is applied, is the form itself unless `astray` says otherwise |
| `OpenDialogKeepsRow`, `TargetsKept` | `ListSpec => []OpenDialogHasRow`, `ListSpec => DialogKeepsItsTargets` | `Steady`: where dialogs do not flip, no timer runs that would clear the row and no answer waits to open a dialog; which dialogs act on a row is computed from the records of the pages (`DialogsApart`) |
| `OneAtATimeHolds` | `PanelSpec => []OneAtATime` (Panels) | for every catalogue, not only this one: a flag that an operation holds is set (`HolderIsMarked`), and what follows a job is the job itself, one step further, or holds nothing (lemmas `SentHolders`, `Follows`, `Answered`). Flags that a selection forgets are excepted by name (`Exclusive`). |
| `SelectionWinsAlways`, `ActsOnSelectedAlways` | `PanelSpec => []SelectionWins`, `PanelSpec => []ActsOnSelected` | `FollowInv`: a job that brings a part is for what is selected, unless its answer is late or dropped (`JobsFollow`), and what is shown of the part is for what is selected, or a job is to bring it (`RowsFollow`). A part that is emptied (`Empties`) is never shown for anything else; one that keeps up (`KeepsUp`) is, for a while. Why nothing but one fetch may bring such a part shows in `FurtherFits`: a job that fetched it in its second step would bring it for the selection it began with. |
| `ShownIsCurrentAlways` | `PanelSpec => []ShownIsCurrent` | `CurrentInv`: the latest answer for a part, shown or on its way, is what the server has, unless a job owes another fetch of the part (`Owes`) or has yet to save what was typed (`Writes`). A debt is never lost: the job that owes it sends the fetch, hands the debt on (`DebtGoesOn`), or fails and leaves the part behind in `missed` (`DebtIsLeft`); and what changes a part owes its fetch from then on, or is a stray, which owes nothing and leaves the part in `missed` too (`StrayFits`, `CallOnPart`). `ShownIsCurrent` alone speaks of the end, when no job is left. |
| `ForestHolds` | `TreeSpec => []ForestUnlessCrossed` (GlossaryTree) | `Away`: the target of a move is below none of the categories it has still to move. A forest is a tree without a set of categories that no parent leaves (`ForestHasNoLoop`), `collectIds` the least set that contains its root and all children of its members (`CollectsAll`, `CollectsNoMore`: as many rounds as there are categories are enough, by counting); from these follow what one call of a move does to loops (`MovedForest`) and to what is below another category (`MovedBelow`). |
| `EveryTickMoves` | `TreeSpec => MoveMovesWhatIsElsewhere` | `Moved`: what a move has no more to move is at the target, was below it, and still is (`TargetKeeps`), so that a fetch in the middle of the move changes nothing |

The theorems about change requests need one of two hypotheses, and the states they
leave out are real. `MaxLate = 0` means that no attempt outlives its start-to-close
timeout; then any number of submissions may race. The others let any number of attempts
be late, but one request submits at a time (`OneSubmitter`); of the chain and of the
decisions they assume nothing that the API does not see to. An order may be missing from
the chain (`schemas.py:73` asks only for `ge=1`), and PENDING may be sent as a decision
(`schemas.py:47`); what comes of either is part of the properties: `AskedStepIsAwaited`
names both as the cases in which the step asked is not the step awaited, and
`EveryoneConsented` says that a last step passed by PENDING has no consent on record. When two submissions race, a late attempt
of an earlier run, or a decision that was on its way to it, may be written into a
later one (section 6). The run `approval` is an instance of the first kind and
`approval_worker` of the second.

The theorems about the mirror need two. `OneJob`: one harvest of a peer is at work at a
time. The code does not see to this, since the scheduler and an administrator can start
one each, and two of them can leave the mirror wrong: each prunes and embeds by what it
alone has read. `Fits`: what the peer exports fits into `MAX_PAGES` pages. When it does
not, a full run that stops at the last page would prune what it never came to
read; in the code that is 10 000 pages of 200 datasets. The run `harvest` is an instance with
both. `HarvestTypesHold` needs neither.

The three theorems about what panels show hold for any catalogue that is described as
its modules assume, whatever the number of selections, operations and answers under way.
The run `pages` evaluates those assumptions for the panels of the application, and
checks the properties on each of them.

Model-checked only: liveness, since fairness and ENABLED are beyond the prover
(`RunCloses`, `ApprovedIsApplied`, `CancelBeforeDecisionWins`, `OpenEnds`, `HarvestEnds`,
`TokenIsRenewed`). Every other property of a run that passes is stated by a theorem,
under the hypotheses above. What a recursive function computes is proved
in one place, `collectIds`, by induction over sets of levels (lemma `Steps`).

## 6 What does not hold

This run's one property TLC refutes; it states what the source itself says, and
`PROJECT.json` quotes the line.

| Run | Property | What happens |
|---|---|---|
| `lists_resize` | `PageSizeKeepsFilters` | a new page size is loaded twice, with the filters by the handler and without them by an effect; the second answer stays |

Five more are kept as configurations that TLC refutes as well when it is started on
them (`tlc -config <configuration> <module>`):

| Configuration | Property | What happens |
|---|---|---|
| `MCChangeApprovalInbox` | `InboxShowsAwaitedCR` | SUBMITTED is written over what the workflow has already written, and no inbox shows a CR that waits for an approver |
| `MCFederationHarvestUnreported` | `RunningIsAtWork` | the failure handler fails and the row stays RUNNING |
| `MCMetadataCacheInvalidate` | `InvalidatedIsGone` | the invalidation of a dataset by id removes other keys than entries are stored under (`external/router.py:127`, `service.py:163`) |
| `MCUserAdminRace` | `AdminRemains` | two requests each leave the other's administrator |
| `MCCommentsTwice` | `CountIsExact` | one reply is subtracted twice |

The models also show the following, which no run claims or denies; the
instances are small changes of those above.

- Change requests: a decision PENDING, which the enum admits, passes a step and leaves
  it undecided. At the last step the change is then applied without that approver's
  consent, and consumers are told of it (`EveryoneConsented` has this as its exception);
  at an earlier step the API goes on asking the step passed while the workflow waits for
  the next, until it times out. A decision is accepted for a step whose decision the
  workflow has just taken, and is never read. With step orders 1 and 3 the workflow
  waits for step 2, which nobody is asked for, until it times out. `AppliedWithConsent` fails when two
  submissions race: a rejection that was accepted during the first run is recorded by the
  second. `DecidedInOrder` fails when, besides, PENDING is sent as a decision.
- Breaker: once the cooldown is over, all callers probe the peer at once, where
  `breaker.py:47` says one; a late success of a call from before closes the circuit.
- Harvest: each of the disturbances that `sound` names loses a change until the next
  full run. With two runs of one peer beside each other a full run can succeed and
  leave a removed dataset in the mirror (`FullSyncRepairs` has one task); a removal
  between two pages of a full run prunes a dataset that is still exported.
- Cache: a request with `no_cache` still uses the cached mapping of its URN; a
  request in flight fills a cache that was cleared meanwhile; after a rename a URN
  may answer with another dataset's metadata for up to two TTLs.
- Users: an inactive administrator counts, so the last active one may be
  deactivated.
- Comments: a reply to a deleted reply is not listed once its grandparent is
  deleted as well, for only direct replies are counted.

- Registry: a number is not "atomically incremented" (`models/service.py:699`,
  `models/models.py:44`) but read and written back. Of two creations that overlap one
  fails on the unique constraint; with a deletion of the first's version between them
  the number is given again (`recycled`), and one that comes late sets the counter back,
  so that later creations fail. A creation under way slips past the
  deletion that closes what is pending (`models/service.py:562`), and nothing can
  finalize its version (`outlived`). A finalization and a soft deletion, or two
  finalizations, overwrite each other's end (`crossed`). A renamed model keeps its
  directory: a new model of the old name writes into it, and the hard deletion of either
  removes the directory of its present name, which is not its own or not only its
  own; a client that still uploads, or finalizes by name what it created for
  a model deleted meanwhile, reaches the next one (`estranged`).

What the exceptions of the web application say of the code, by the operator of
`PanelsProperties` that lists them:

- `Unfetched`: what an operation changes and nothing fetches again. The word counts
  beside the dictionaries; the list behind the dialog that adds an alert rule; the
  runs of an instance after a harvest; a folder after files were dropped on it; the card
  and the policy of an agent whose tools have changed.
- `Outrun`: a decision, a submission or a cancellation is a signal; the pages of change
  requests fetch when it is sent, which may be before the workflow acts on it.
- `Overwritten`: an applied suggestion is put into the copy of the dataset of the time
  of the click, over what another operation has fetched meanwhile.
- `StaleReloads`: an operation that ends after the selection has changed fetches for the
  page, filter, dictionary or folder that it began with.
- `LateAnswers`: an answer for what was selected before is shown, and acted on. The
  dialog that deletes a data source decides whether to force the deletion by the number of
  datasets it was told (`datasources/page.tsx:537`); after a quick change of
  source that may be the other's.
- `BlindForms`: settings whose fetch failed show defaults, which can be saved.
- `forgets`, in the records of the data source and the topology: the form of a data
  source and that of a system are mounted anew by their `key`
  (`datasources/page.tsx:1388`). Save one, select another and come back, and the same
  form can be sent again while the first call runs.

And, of the rest of the web application:

- A refresh that fails signs the person out and leaves the timer that a password
  change has set meanwhile (`auth-context.tsx:99`). If the next sign-in stores its pair
  and then fails, that timer may refresh the pair while a third account signs in, whose
  user is then shown over the second one's token. The proof of `OneIdentity` asked for
  this case, which takes more token pairs than TLC was given; `crossed` names it.
- A sign-in whose user cannot be fetched leaves its tokens stored (`half`); the next
  start restores them.
- Datasets are mapped to a category, and siblings put in order, by `Promise.all`
  (`taxonomies/page.tsx:204`, `:246`). When one call is refused the handler reports it and
  fetches nothing, while the others are still on their way: a fetch that somebody's next
  click starts may be answered before they land (`missed`). So may a call that was lost.
- A test of a connection that gets no answer leaves its button disabled.
- A move of categories on a tree that somebody else has changed, or beside another
  move, can make a cycle, which the page cannot show (`crossed` of `GlossaryTree`).
- In the tables of APIs and agents a pause in typing may bring back an older status, as
  neither selects nor Enter drop it (`FormIsApplied`). The models table forgets its form
  when a detail or another tab takes its place, and not its pause
  (`models-table-wrapper.tsx:10`): the old search is applied to the rows of an empty form
  (`astray`). A search has the page size of the moment one typed (`models-table.tsx:101`):
  after a resize during the pause the rows are of the old size (`RowsAnswerThePager`).
- A dialog that is dismissed before its call returns refreshes the
  page it was confirmed on (`RowsAnswerThePager`); the dialogs of users can be confirmed
  again while the call runs, and a timer may take the row from a dialog opened within
  half a second (`OpenDialogHasRow`).

## 7 Not modelled, and why

*Server.* Parts that only read, or write one row in one transaction, have nothing that
a model would add to the database's own guarantees (`standard`, `settings`,
`permissions`, `search`, `filesystemmgr`). `oci_hub`, `alert`, `quality`,
`catalog`, `embedding`, `ai`, `agents` and `apis` are modelled from the browser's side
only, as the data that a call changes; their own races (a debounced embedding cancelled while it writes, suggestions
applied twice, moves in the taxonomy) are not. Within the modelled parts: the
object store, parsed metadata (`catalog_models`), stages, metrics, cards, lineage and downloads
of the model registry; the merge of
columns (`_merge_schema`), acknowledgements, consumers and CR numbers; two writers of
one dataset's columns (`activities.py:495`); two harvests of one peer, sample files,
lineage edges and the choice of due peers (`harvester.py:128`, `:284`,
`scheduler.py:83`); the session shared by the two halves of a search
(`federation/service.py:1333`); Avro schemas, URN aliases and statistics of the cache;
passwords, profiles and external identity; the text of comments and their pages.

*Web application.* What has no exchange with the server, or only one at a time: layout,
formatting, sorting and hidden columns, drag and drop, the drawing of graphs,
ontologies and topologies, the editors of Markdown and comments, generated pipelines and
code examples (Airflow, NiFi, Kestra, PySpark), the stream of the assistant, favourites
kept in the browser. Validation of forms is left out: an operation is offered whenever its
data is there. Several tabs share the server only.

Clients, packaging and documentation are no part of the system's state.

## 8 Plan

The modules above are done. What would come next, in this order:

1. `SchemaApply` (`activities.py`, `catalog/service.py`, `catalog/sync.py`): two
   writers of one dataset's columns, composed with `ChangeApproval` through the columns.
2. `EmbeddingDebounce` (`embedding/service.py`): liveness of the last text.
3. `HarvestScheduler` (`scheduler.py`, `harvest_all`, samples): several peers,
   one of which fails; files beside rows.
4. Proofs: what remains of `CaughtUp` when two harvests of one peer overlap, and of
   `ShownIsCurrent` in the parts that are fetched from a copy (`Merged`).
