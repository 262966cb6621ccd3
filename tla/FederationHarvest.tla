--------------------------- MODULE FederationHarvest ---------------------------
(***************************************************************************)
(* HARVEST of one federation peer: the hub mirrors the datasets a peer     *)
(* exports (federation/harvester.py), page by page over HTTP, one database *)
(* transaction per page.  The peer goes on changing between two pages, a   *)
(* run may fail or be killed between two commits, and the scheduler        *)
(* (federation/scheduler.py) and an administrator may each have a run of   *)
(* the same peer at work.                                                  *)
(*                                                                         *)
(* The peer's clock ticks with every change it commits.  What a dataset    *)
(* says is identified with the tick of its last change; its updated_at is  *)
(* the tick at which the transaction that last wrote its own row began.    *)
(* federation_harvest_samples is off: the sample phase returns at once.    *)
(***************************************************************************)
EXTENDS Integers, FiniteSets, FiniteSetsExt, Functions

CONSTANTS
    Jobs,      \* tasks that harvest the peer: the scheduler, an administrator
    Size,      \* the peer's datasets have the ids 1 .. Size
    PageSize,  \* _PAGE_SIZE
    MaxPages,  \* _MAX_PAGES
    MaxClock,  \* bound: changes the peer commits
    MaxLag,    \* bound: ticks the peer's update transactions stay open
    Mishaps    \* what may happen: "failure", "crash", "removal", "schema_edit"

ASSUME BoundsAssumption ==
    /\ Size \in Nat /\ MaxPages \in Nat
    /\ PageSize \in Nat \ {0}
    /\ MaxClock \in Nat /\ MaxLag \in Nat
ASSUME MishapsAssumption ==
    Mishaps \subseteq {"failure", "crash", "removal", "schema_edit"}

VARIABLES
    \* the peer
    clock,    \* changes committed so far
    text,     \* what each dataset says; 0 when it is not exported
    stamp,    \* Dataset.updated_at
    \* the hub's database
    mirror,   \* FederatedDataset rows: source_text and remote_updated_at
    emb,      \* FederatedDatasetEmbedding.source_text, 0 when there is none
    run,      \* the status of each task's last FederationSyncRun
    \* the tasks
    job,      \* the local variables of harvest_instance
    \* history
    changed,  \* datasets the peer changed since the task's run began
    shrunk,   \* the peer stopped exporting one of them since
    sound     \* nothing has happened that the watermark cannot account for

peer == <<clock, text, stamp>>
hub == <<mirror, emb, run>>
history == <<changed, shrunk, sound>>
vars == <<peer, hub, job, history>>
-----------------------------------------------------------------------------
Datasets == 1 .. Size
Ticks == 1 .. MaxClock   \* 0 stands for no change and no watermark
NoRow == [text |-> 0, stamp |-> 0]

Exported == {d \in Datasets : text[d] # 0}
Mirrored == {d \in Datasets : mirror[d] # NoRow}

\* func.max(remote_updated_at) of the mirror; 0 stands for no watermark.
Watermark == Max({0} \cup {mirror[d].stamp : d \in Datasets})

\* page and scan hold what was read of the peer and of the mirror.
IdleJob == [pc |-> "idle", full |-> FALSE, since |-> 0, offset |-> 0,
            page |-> <<>>, last |-> FALSE, seen |-> {}, scan |-> <<>>]

Init ==
    /\ clock = Size
    /\ text = [d \in Datasets |-> d]
    /\ stamp = [d \in Datasets |-> d]
    /\ mirror = [d \in Datasets |-> NoRow]
    /\ emb = [d \in Datasets |-> 0]
    /\ run = [j \in Jobs |-> "NONE"]
    /\ job = [j \in Jobs |-> IdleJob]
    /\ changed = [j \in Jobs |-> {}]
    /\ shrunk = [j \in Jobs |-> FALSE]
    /\ sound = TRUE
-----------------------------------------------------------------------------
(* The peer. *)

AtWork == {j \in Jobs : job[j].pc # "idle"}
Noted(d) == changed' = [j \in Jobs |-> IF j \in AtWork THEN changed[j] \cup {d} ELSE {}]

\* A run is between the first and the last of its pages: a change of the peer
\* shifts the offsets of the pages to come, an end leaves them unfetched.
Midway ==
    \E j \in Jobs : \/ job[j].pc = "fetch" /\ job[j].offset > 0
                    \/ job[j].pc = "store" /\ (job[j].offset > 0 \/ ~job[j].last)

\* A transaction that began at tick s writes dataset d and commits.
Edit(d, s) ==
    /\ clock < MaxClock
    /\ clock' = clock + 1
    /\ s \in clock' - MaxLag .. clock'
    /\ text' = [text EXCEPT ![d] = clock']
    /\ stamp' = [stamp EXCEPT ![d] = s]
    /\ Noted(d)
    /\ sound' = (sound /\ s = clock' /\ ~Midway)
    /\ UNCHANGED <<hub, job, shrunk>>

\* The columns are replaced (apply_change of change_mgmt, metadata sync): rows of
\* another table, Dataset.updated_at stays.
EditSchema(d) ==
    /\ "schema_edit" \in Mishaps
    /\ clock < MaxClock
    /\ d \in Exported
    /\ clock' = clock + 1
    /\ text' = [text EXCEPT ![d] = clock']
    /\ Noted(d)
    /\ sound' = FALSE
    /\ UNCHANGED <<stamp, hub, job, shrunk>>

\* The dataset is marked removed, or the visibility policy comes to exclude it.
Remove(d) ==
    /\ "removal" \in Mishaps
    /\ d \in Exported
    /\ text' = [text EXCEPT ![d] = 0]
    /\ Noted(d)
    /\ shrunk' = [j \in Jobs |-> j \in AtWork]
    /\ sound' = (sound /\ ~Midway)
    /\ UNCHANGED <<clock, stamp, hub, job>>

\* Mutant: an incremental run skips the tick after the watermark.
MatchingLate(since) ==
    {d \in Exported : stamp[d] > IF since = 0 THEN 0 ELSE since + 1}
\* build_export_datasets: the rows that changed after since, in id order.
Matching(since) == {d \in Exported : stamp[d] > since}
Rank(d, S) == Cardinality({e \in S : e < d})
Page(since, offset) ==
    [d \in {d \in Matching(since) :
              Rank(d, Matching(since)) \in offset .. offset + PageSize - 1} |->
        [text |-> text[d], stamp |-> stamp[d]]]
-----------------------------------------------------------------------------
(* The hub: harvest_instance. *)

\* The watermark is read, a RUNNING row committed.  Without a watermark the
\* synchronisation is a full one.
Begin(j, full) ==
    LET since == IF full THEN 0 ELSE Watermark IN
    /\ job[j].pc = "idle"
    /\ job' = [job EXCEPT ![j] = [IdleJob EXCEPT !.pc = "fetch",
                                                 !.since = since,
                                                 !.full = (since = 0)]]
    /\ run' = [run EXCEPT ![j] = "RUNNING"]
    /\ UNCHANGED <<peer, mirror, emb, history>>

\* One GET export/datasets.  It is the last one when the peer has no more, or
\* after _MAX_PAGES.
Fetch(j) ==
    LET k == job[j]
        page == Page(k.since, k.offset)
        next == k.offset + Cardinality(DOMAIN page) IN
    /\ k.pc = "fetch"
    /\ job' = [job EXCEPT ![j].page = page,
                          ![j].pc = IF page = <<>> THEN "scan" ELSE "store",
                          ![j].last = \/ next >= Cardinality(Matching(k.since))
                                      \/ next >= MaxPages * PageSize]
    /\ UNCHANGED <<peer, hub, history>>

\* Mutant: the next page is asked for at the same offset.
StoreNotAdvancing(j) ==
    LET k == job[j] IN
    /\ k.pc = "store"
    /\ mirror' = [d \in Datasets |->
                     IF d \in DOMAIN k.page THEN k.page[d] ELSE mirror[d]]
    /\ job' = [job EXCEPT ![j].seen = k.seen \cup DOMAIN k.page,
                          ![j].page = <<>>,
                          ![j].pc = IF k.last THEN "scan" ELSE "fetch"]
    /\ UNCHANGED <<peer, emb, run, history>>

\* The page is upserted, row by row, and committed.
Store(j) ==
    LET k == job[j] IN
    /\ k.pc = "store"
    /\ mirror' = [d \in Datasets |->
                     IF d \in DOMAIN k.page THEN k.page[d] ELSE mirror[d]]
    /\ job' = [job EXCEPT ![j].seen = k.seen \cup DOMAIN k.page,
                          ![j].offset = k.offset + Cardinality(DOMAIN k.page),
                          ![j].page = <<>>,
                          ![j].pc = IF k.last THEN "scan" ELSE "fetch"]
    /\ UNCHANGED <<peer, emb, run, history>>

\* Mutant: only the rows this run has fetched are embedded.
ScanSeen(j) ==
    /\ job[j].pc = "scan"
    /\ job' = [job EXCEPT ![j].pc = "embed",
                          ![j].scan = [d \in Mirrored \cap job[j].seen |-> mirror[d].text]]
    /\ UNCHANGED <<peer, hub, history>>

\* The EMBED phase reads every row of the mirror, not only those of this run.
Scan(j) ==
    /\ job[j].pc = "scan"
    /\ job' = [job EXCEPT ![j].pc = "embed",
                          ![j].scan = [d \in Mirrored |-> mirror[d].text]]
    /\ UNCHANGED <<peer, hub, history>>

\* A row is embedded from the text that was scanned; the embedding of a row that
\* is gone violates its foreign key (Fail).
Embed(j) ==
    /\ job[j].pc = "embed"
    /\ \E d \in DOMAIN job[j].scan \cap Mirrored :
          /\ emb' = [emb EXCEPT ![d] = job[j].scan[d]]
          /\ job' = [job EXCEPT ![j].scan = Restrict(@, DOMAIN @ \ {d})]
    /\ UNCHANGED <<peer, mirror, run, history>>

EmbedEnds(j) ==
    /\ job[j].pc = "embed"
    /\ job[j].scan = <<>>
    /\ job' = [job EXCEPT ![j].pc = "prune"]
    /\ UNCHANGED <<peer, hub, history>>

\* Mutant: the rows that were not seen are kept.
PruneNothing(j) ==
    /\ job[j].pc = "prune"
    /\ job' = [job EXCEPT ![j].pc = "lineage"]
    /\ UNCHANGED <<peer, hub, history>>

\* A full run deletes the rows it has not seen, their embeddings by cascade.
Prune(j) ==
    LET gone == IF job[j].full THEN Datasets \ job[j].seen ELSE {} IN
    /\ job[j].pc = "prune"
    /\ mirror' = [d \in Datasets |-> IF d \in gone THEN NoRow ELSE mirror[d]]
    /\ emb' = [d \in Datasets |-> IF d \in gone THEN 0 ELSE emb[d]]
    /\ job' = [job EXCEPT ![j].pc = "lineage"]
    /\ UNCHANGED <<peer, run, history>>

\* The task is done, its history forgotten.
Ends(j) ==
    /\ job' = [job EXCEPT ![j] = IdleJob]
    /\ changed' = [changed EXCEPT ![j] = {}]
    /\ shrunk' = [shrunk EXCEPT ![j] = FALSE]

\* The lineage is replaced, best effort; the run row says SUCCESS.
Finish(j) ==
    /\ job[j].pc = "lineage"
    /\ run' = [run EXCEPT ![j] = "SUCCESS"]
    /\ Ends(j)
    /\ sound' = (sound \/ (job[j].full /\ changed[j] = {}))
    /\ UNCHANGED <<peer, mirror, emb>>

\* rollback() expires the objects of a session that has a transaction open, and
\* the handler goes on to read instance.instance_key, which cannot be loaded
\* outside of an await: it raises itself.  Only between two pages, after the
\* commit of one, does a failure find no transaction open.
Reported(j) == job[j].pc = "fetch" /\ job[j].offset > 0

\* Any exception: the open transaction is rolled back, and the run row says FAILED
\* if the handler gets that far.
Fail(j) ==
    /\ \/ "failure" \in Mishaps /\ job[j].pc # "idle"
       \/ job[j].pc = "embed" /\ ~(DOMAIN job[j].scan \subseteq Mirrored)
    /\ run' = IF Reported(j) THEN [run EXCEPT ![j] = "FAILED"] ELSE run
    /\ Ends(j)
    /\ sound' = (sound /\ ~Midway)
    /\ UNCHANGED <<peer, mirror, emb>>

\* The hub's process dies; the rows that say RUNNING go on saying it.
Crash ==
    /\ "crash" \in Mishaps
    /\ AtWork # {}
    /\ job' = [j \in Jobs |-> IdleJob]
    /\ changed' = [j \in Jobs |-> {}]
    /\ shrunk' = [j \in Jobs |-> FALSE]
    /\ sound' = (sound /\ ~Midway)
    /\ UNCHANGED <<peer, hub>>

Works(j) ==
    \/ Fetch(j) \/ Store(j)
    \/ Scan(j) \/ Embed(j) \/ EmbedEnds(j)
    \/ Prune(j) \/ Finish(j)

Next ==
    \/ \E d \in Datasets : EditSchema(d) \/ Remove(d) \/ \E s \in Ticks : Edit(d, s)
    \/ \E j \in Jobs : Works(j) \/ Fail(j) \/ \E full \in BOOLEAN : Begin(j, full)
    \/ Crash

Spec == Init /\ [][Next]_vars

\* A task at work goes on; the peer answers or the request times out.
FairSpec == Spec /\ \A j \in Jobs : WF_vars(Works(j) \/ Fail(j))
-----------------------------------------------------------------------------
\* Task j's run ends well in this step.
Succeeds(j) == job[j].pc = "lineage" /\ run'[j] = "SUCCESS"

\* A full run repairs the mirror whatever earlier runs left behind: failed, killed
\* or incremental ones, and changes no watermark shows.  Unless the peer stops
\* exporting something meanwhile, every dataset it does not change during the run
\* is mirrored as it is, and none is mirrored that it no longer exports.
FullSyncRepairs ==
    [][\A j \in Jobs : Succeeds(j) /\ job[j].full /\ ~shrunk[j] =>
          \A d \in Datasets \ changed[j] : mirror[d].text = text[d]]_vars

\* An incremental run misses nothing the watermark can tell it of.  Let the mirror
\* be new or fully synchronised, and since then no run be disturbed or ended between
\* two of its pages, no columns be changed and no edit commit later than its stamp:
\* then a run that ends well leaves every dataset mirrored that the peer exports and
\* has not changed since the run began.  Changes before, after and on one page are
\* harmless, and so are a failure or a kill before the first page or after the last.
CaughtUp ==
    [][\A j \in Jobs : Succeeds(j) /\ sound =>
          \A d \in Exported \ changed[j] : mirror[d].text = text[d]]_vars

\* Semantic search finds what the mirror says: a run that ends well leaves every
\* row embedded from its current text, also rows that a run before it had written
\* and failed to embed, and no embedding of a row that is gone.
EmbeddingsFollow ==
    [][\A j \in Jobs : Succeeds(j) =>
          \A d \in Datasets : emb[d] = mirror[d].text]_vars

\* A run comes to an end though the peer goes on changing and datasets vanish under
\* its pages.
HarvestEnds == \A j \in Jobs : job[j].pc # "idle" ~> job[j].pc = "idle"

\* harvester.py:115, a failure is reported as FAILED and not raised: a run row that
\* a client polls says RUNNING only while the run is at work.
RunningIsAtWork == \A j \in Jobs : run[j] = "RUNNING" => job[j].pc # "idle"
=============================================================================
