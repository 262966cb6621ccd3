---------------------------- MODULE ModelRegistry ----------------------------
(***************************************************************************)
(* The model registry (models/service.py): registered models, their        *)
(* versions and the directories the versions' files lie in.  An operation  *)
(* reads over its database session, and commits in a later step; others    *)
(* come between.  A client (MLflow) has a version created, writes its      *)
(* files to the version's directory and has it finalized, each by the name *)
(* it knows the model under.                                               *)
(*                                                                         *)
(* Rows behave as PostgreSQL's at READ COMMITTED: whoever has written a    *)
(* row keeps the other writers of that row waiting until it commits.  Left *)
(* out: the object store, catalog_models (a row of the same name and       *)
(* number makes a finalization fail, and any may fail here), stages,       *)
(* metrics, cards and lineage, storage locations chosen by the caller.     *)
(***************************************************************************)
EXTENDS Integers, FiniteSets

CONSTANTS
    Models,       \* RegisteredModel.id, as many as are ever registered
    Names,        \* model names; a directory has the name its model was registered by
    Tasks,        \* clients and requests at work at the same time
    MaxVersions,  \* bound on the version numbers of a model
    MaxGiven,     \* bound on the numbers given altogether
    None          \* in place of a row that is not there

ASSUME VersionsAssumption == MaxVersions \in Nat
ASSUME NoneAssumption ==
    /\ None \notin Models /\ None \notin Names
    /\ None \notin [status : {"PENDING", "READY", "FAILED"}, by : Tasks]

VARIABLES
    model,      \* the RegisteredModel rows: [status, name, dir, max]
    version,    \* the ModelVersion rows by model and number: [status, by]
    disk,       \* whose files are in each version's directory
    task,       \* what each task has read and is about to do
    given,      \* history: the highest number a model has given to a version
    recycled,   \* history: models that lost a version whose number a creation held
    outlived,   \* history: models that got a version after their deletion
    crossed,    \* history: tasks at an end or a deletion that met another of the model
    estranged   \* history: directories that are not one model's any more

rows == <<model, version>>
histories == <<given, recycled, outlived, crossed, estranged>>
vars == <<rows, disk, task, histories>>
-----------------------------------------------------------------------------
Numbers == 1..MaxVersions
Settled == {"READY", "FAILED"}

\* What a task is at: a client between two requests, or an operation that has read
\* and not committed, with the model it read, a name, a number and the versions seen.
Between == {"created", "uploaded"}
Operations == {"create", "ready", "fail", "delete", "sweep"}
Doing(op, id, name, n, seen) == [op |-> op, id |-> id, name |-> name, n |-> n, seen |-> seen]
Idle == Doing("idle", None, None, 0, {})

ModelRows == [status : {"none", "active", "deleted", "gone"}, name : Names \cup {None},
              dir : Names \cup {None}, max : 0..MaxVersions]
VersionRows == [status : Settled \cup {"PENDING"}, by : Tasks]
TaskRecords == [op : {"idle"} \cup Between \cup Operations, id : Models \cup {None},
                name : Names \cup {None}, n : 0..MaxVersions, seen : SUBSET Numbers]

TypeOK ==
    /\ model \in [Models -> ModelRows]
    /\ version \in [Models -> [Numbers -> VersionRows \cup {None}]]
    /\ disk \in [Names -> [Numbers -> SUBSET Tasks]]
    /\ task \in [Tasks -> TaskRecords]
    /\ given \in [Models -> 0..MaxVersions]
    /\ recycled \subseteq Models /\ outlived \subseteq Models /\ crossed \subseteq Tasks
    /\ estranged \subseteq Names

NoModel == [status |-> "none", name |-> None, dir |-> None, max |-> 0]

Init ==
    /\ model = [id \in Models |-> NoModel]
    /\ version = [id \in Models |-> [n \in Numbers |-> None]]
    /\ disk = [x \in Names |-> [n \in Numbers |-> {}]]
    /\ task = [t \in Tasks |-> Idle]
    /\ given = [id \in Models |-> 0]
    /\ recycled = {} /\ outlived = {} /\ crossed = {} /\ estranged = {}

Exists(id) == model[id].status \in {"active", "deleted"}
Versions(id) == {n \in Numbers : version[id][n] # None}
Pending(id) == {n \in Versions(id) : version[id][n].status = "PENDING"}

At(op, id) == {t \in Tasks : task[t].op = op /\ task[t].id = id}
Ending(id, n) == {t \in At("ready", id) \cup At("fail", id) : task[t].n = n}
Becomes(t, new) == task' = [task EXCEPT ![t] = new]
Meets(t, others) == crossed' = IF others = {} THEN crossed ELSE crossed \cup others \cup {t}
-----------------------------------------------------------------------------
(* Names. *)

\* Mutant: the models that were deleted do not hold their names.
NameTakenByActive(name) == \E id \in Models : model[id].status = "active" /\ model[id].name = name
\* A deleted model keeps its name: it is looked for, and the column is unique.
NameTaken(name) == \E id \in Models : Exists(id) /\ model[id].name = name

\* Mutant: the deletion reads the pending versions before it flushes anything.
NeverLocked(id) == FALSE
\* A deletion has flushed the status of the row and not committed it.
Locked(id) == At("delete", id) # {}
-----------------------------------------------------------------------------
(* Registered models. *)

\* The unique name decides when the row is inserted; the query before it only says
\* the same earlier.
create_registered_model(id, name) ==
    /\ model[id].status = "none"
    /\ ~NameTaken(name)
    /\ model' = [model EXCEPT ![id] = [status |-> "active", name |-> name, dir |-> name, max |-> 0]]
    /\ estranged' = IF \/ \E t \in Tasks : task[t].op = "sweep" /\ task[t].name = name
                       \/ \E other \in Models : Exists(other) /\ model[other].dir = name /\ model[other].name # name
                    THEN estranged \cup {name} ELSE estranged
    /\ UNCHANGED <<version, disk, task, given, recycled, outlived, crossed>>

\* The storage location stays what it was.
update_registered_model(id, name) ==
    /\ model[id].status = "active" /\ ~Locked(id)
    /\ ~NameTaken(name)
    /\ model' = [model EXCEPT ![id].name = name]
    /\ UNCHANGED <<version, disk, task, histories>>

\* The status is flushed by the query for the pending versions, which the row then
\* locked keeps from becoming more.
delete_registered_model(t, id) ==
    /\ task[t] = Idle
    /\ model[id].status = "active"
    /\ ~Locked(id)
    /\ Becomes(t, Doing("delete", id, None, 0, Pending(id)))
    /\ Meets(t, At("ready", id) \cup At("fail", id))
    /\ UNCHANGED <<rows, disk, given, recycled, outlived, estranged>>

DeletionCommits(t) ==
    LET id == task[t].id IN
    /\ task[t].op = "delete"
    /\ model' = [model EXCEPT ![id].status = "deleted"]
    /\ version' = [version EXCEPT ![id] = [n \in Numbers |->
           IF n \in task[t].seen THEN [version[id][n] EXCEPT !.status = "FAILED"]
           ELSE version[id][n]]]
    /\ Becomes(t, Idle)
    /\ crossed' = crossed \ {t}
    /\ UNCHANGED <<disk, given, recycled, outlived, estranged>>

\* The rows of a model by that name, deleted or not, are removed in one commit.
hard_delete_registered_model(t, id) ==
    /\ task[t] = Idle
    /\ Exists(id) /\ ~Locked(id)
    /\ model' = [model EXCEPT ![id] = [status |-> "gone", name |-> None,
                                           dir |-> model[id].dir, max |-> 0]]
    /\ version' = [version EXCEPT ![id] = [n \in Numbers |-> None]]
    /\ task' = [u \in Tasks |->
           IF u = t THEN Doing("sweep", None, model[id].name, 0, {})
           ELSE IF task[u].id = id /\ task[u].op \notin Between THEN Idle ELSE task[u]]
    /\ crossed' = {u \in crossed : task'[u] # Idle}
    /\ estranged' = IF model[id].name # model[id].dir \/ At("created", id) # {}
                    THEN estranged \cup {model[id].name, model[id].dir} ELSE estranged
    /\ given' = [given EXCEPT ![id] = 0]
    /\ recycled' = recycled \ {id} /\ outlived' = outlived \ {id}
    /\ UNCHANGED disk

\* Then the directory of the model's name goes.
Sweep(t) ==
    /\ task[t].op = "sweep"
    /\ disk' = [disk EXCEPT ![task[t].name] = [n \in Numbers |-> {}]]
    /\ Becomes(t, Idle)
    /\ UNCHANGED <<rows, histories>>
-----------------------------------------------------------------------------
(* Versions. *)

NextNumber(id) == model[id].max + 1

create_model_version(t, id) ==
    /\ task[t] = Idle
    /\ model[id].status = "active"
    /\ NextNumber(id) \in Numbers
    /\ Cardinality({p \in Models \X Numbers : p[2] <= given[p[1]]}) < MaxGiven
    /\ Becomes(t, Doing("create", id, model[id].name, NextNumber(id), {}))
    /\ UNCHANGED <<rows, disk, histories>>

\* Mutant: the number is not unique among the model's versions.
VersionCommitsAnyway(t) ==
    LET id == task[t].id
        n == task[t].n
    IN
    /\ task[t].op = "create"
    /\ Exists(id) /\ ~Locked(id)
    /\ model' = [model EXCEPT ![id].max = n]
    /\ version' = [version EXCEPT ![id][n] = [status |-> "PENDING", by |-> t]]
    /\ given' = [given EXCEPT ![id] = IF n > @ THEN n ELSE @]
    /\ outlived' = IF model[id].status = "deleted" THEN outlived \cup {id} ELSE outlived
    /\ Becomes(t, Doing("created", id, task[t].name, n, {}))
    /\ UNCHANGED <<disk, recycled, crossed, estranged>>

\* The counter read is written back, whatever the row has come to, and the number is
\* unique among the model's versions.
VersionCommits(t) ==
    LET id == task[t].id
        n == task[t].n
    IN
    /\ task[t].op = "create"
    /\ Exists(id) /\ ~Locked(id)
    /\ version[id][n] = None
    /\ model' = [model EXCEPT ![id].max = n]
    /\ version' = [version EXCEPT ![id][n] = [status |-> "PENDING", by |-> t]]
    /\ given' = [given EXCEPT ![id] = IF n > @ THEN n ELSE @]
    /\ outlived' = IF model[id].status = "deleted" THEN outlived \cup {id} ELSE outlived
    /\ Becomes(t, Doing("created", id, task[t].name, n, {}))
    /\ UNCHANGED <<disk, recycled, crossed, estranged>>

\* The client writes to the storage location it was told.
Upload(t) ==
    /\ task[t].op = "created"
    /\ disk' = [disk EXCEPT ![model[task[t].id].dir][task[t].n] = @ \cup {t}]
    /\ Becomes(t, Doing("uploaded", task[t].id, task[t].name, task[t].n, {}))
    /\ UNCHANGED <<rows, histories>>

\* Mutant: the status is not looked at.
FinalizableAtAll(id) == Versions(id)
Finalizable(id) == Pending(id)

\* The client names model and number; what it could not upload it fails.
finalize_model_version(t, id, op) ==
    LET n == task[t].n IN
    /\ task[t].op = (IF op = "ready" THEN "uploaded" ELSE "created")
    /\ model[id].status = "active" /\ model[id].name = task[t].name
    /\ n \in Finalizable(id)
    /\ Becomes(t, Doing(op, id, None, n, {}))
    /\ Meets(t, At("delete", id) \cup Ending(id, n))
    /\ estranged' = IF id # task[t].id THEN estranged \cup {model[id].dir} ELSE estranged
    /\ UNCHANGED <<rows, disk, given, recycled, outlived>>

FinalizationCommits(t) ==
    LET id == task[t].id
        n == task[t].n
    IN
    /\ task[t].op \in {"ready", "fail"}
    /\ n \in Versions(id)
    /\ version' = [version EXCEPT ![id][n].status =
           IF task[t].op = "ready" THEN "READY" ELSE "FAILED"]
    /\ Becomes(t, Idle)
    /\ crossed' = crossed \ {t}
    /\ UNCHANGED <<model, disk, given, recycled, outlived, estranged>>

\* What has read the row cannot commit any more.  The files stay.
delete_model_version(id, n) ==
    /\ model[id].status = "active"
    /\ n \in Versions(id)
    /\ version' = [version EXCEPT ![id][n] = None]
    /\ task' = [t \in Tasks |->
           IF \/ t \in Ending(id, n)
              \/ t \in At("delete", id) /\ n \in task[t].seen
           THEN Idle ELSE task[t]]
    /\ crossed' = {t \in crossed : task'[t] # Idle}
    /\ recycled' = IF \E t \in At("create", id) : task[t].n = n
                   THEN recycled \cup {id} ELSE recycled
    /\ UNCHANGED <<model, disk, given, outlived, estranged>>

\* The commit fails, the process is killed, the client gives up; the rows stay as they
\* were, and files that were to be deleted stay too.
Fails(t) ==
    /\ task[t] # Idle
    /\ Becomes(t, Idle)
    /\ estranged' = IF task[t].op = "sweep" THEN estranged \cup {task[t].name} ELSE estranged
    /\ crossed' = crossed \ {t}
    /\ UNCHANGED <<rows, disk, given, recycled, outlived>>
-----------------------------------------------------------------------------
Next ==
    \/ \E id \in Models :
        \/ \E name \in Names : create_registered_model(id, name) \/ update_registered_model(id, name)
        \/ \E n \in Numbers : delete_model_version(id, n)
    \/ \E t \in Tasks :
        \/ DeletionCommits(t) \/ VersionCommits(t) \/ FinalizationCommits(t)
        \/ Sweep(t) \/ Upload(t) \/ Fails(t)
        \/ \E id \in Models :
            \/ delete_registered_model(t, id)
            \/ hard_delete_registered_model(t, id)
            \/ create_model_version(t, id)
            \/ \E op \in {"ready", "fail"} : finalize_model_version(t, id, op)

Spec == Init /\ [][Next]_vars
-----------------------------------------------------------------------------
(* Properties. *)

\* The counter of a model is the highest number it has ever given to a version, so no
\* number is given twice; unless a version was deleted while a creation that had read
\* the counter before held the same number (service.py:699, which writes back what it
\* read, and the unique constraint of ModelVersion, which only sees the rows there are).
CounterCovers == \A id \in Models : Exists(id) => model[id].max = given[id] \/ id \in recycled

\* A deleted model has no version that is still being registered, which nothing could
\* finalize any more; unless a creation that had found the model commits after the
\* deletion (service.py:575-583 closes those it can see).
DeletedIsClosed ==
    \A id \in Models : model[id].status = "deleted" => Pending(id) = {} \/ id \in outlived

\* A version that is READY has the files of the client it was created for, all of them
\* and no other's, however versions and models come and go; unless its model gave a
\* number twice, or its directory was shared: by a rename, which leaves the directory
\* behind, or by a hard deletion that a client or the next model of the name overlaps
\* or that leaves the files where they are.
ReadyHasItsFiles ==
    \A id \in Models, n \in Numbers :
        /\ Exists(id) /\ n \in Versions(id)
        /\ version[id][n].status = "READY"
        /\ id \notin recycled /\ model[id].dir \notin estranged
        => disk[model[id].dir][n] = {version[id][n].by}

\* Once READY or FAILED a version stays so as long as it exists: neither a second end nor
\* the deletion of the model changes it; unless two of them had read it before either
\* was committed.
StaysSettled ==
    \A id \in Models, n \in Numbers :
        /\ n \in Versions(id) /\ n \in Versions(id)'
        /\ version[id][n].status \in Settled
        /\ \A t \in crossed : task[t].id # id
        => version'[id][n].status = version[id][n].status
SettledStays == [][StaysSettled]_vars
=============================================================================
