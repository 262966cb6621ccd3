-------------------------- MODULE ModelRegistryProofs --------------------------
(***************************************************************************)
(* What holds of the model registry for every number of models, names,     *)
(* tasks and versions: the counter covers the numbers given, a deleted     *)
(* model is closed, a settled version stays as it is, and a READY version  *)
(* has the files of its client.                                            *)
(***************************************************************************)
EXTENDS ModelRegistry, TLAPS

\* What has a directory has a name for it.
Named ==
    \A id \in Models :
        /\ model[id].status # "none" => model[id].dir \in Names
        /\ Exists(id) => model[id].name \in Names
        /\ model[id].status = "none" => given[id] = 0

\* What a task carries: a number, and rows that are still there.
Carries ==
    \A t \in Tasks :
        /\ task[t].op \notin {"idle", "sweep"} => task[t].id \in Models
        /\ task[t].op \in Between \cup {"create"} =>
               task[t].n \in Numbers /\ model[task[t].id].status # "none"
        /\ task[t].op \in {"create", "delete"} => Exists(task[t].id)
        /\ task[t].op \in {"ready", "fail"} => task[t].n \in Versions(task[t].id)
        /\ task[t].op = "delete" => task[t].seen \subseteq Versions(task[t].id)
        /\ task[t].op = "sweep" => task[t].name \in Names

TypeInv == TypeOK /\ Named /\ Carries

\* The number a creation holds is the next one, or there is a version of that number.
Held ==
    \A t \in Tasks :
        task[t].op = "create" /\ task[t].id \notin recycled =>
            /\ task[t].n <= model[task[t].id].max + 1
            /\ task[t].n <= model[task[t].id].max => task[t].n \in Versions(task[t].id)

CounterInv == CounterCovers /\ Held

\* One deletion of a model at a time, which has seen all that is pending.
Closing ==
    \A t \in Tasks :
        task[t].op = "delete" =>
            /\ model[task[t].id].status = "active"
            /\ Pending(task[t].id) \subseteq task[t].seen
            /\ \A u \in Tasks : task[u].op = "delete" /\ task[u].id = task[t].id => u = t

ClosedInv == DeletedIsClosed /\ Closing

\* What an end or a deletion has read still holds unless it met another.
ReadsHold ==
    \A t \in Tasks \ crossed :
        /\ task[t].op \in {"ready", "fail"} => task[t].n \in Pending(task[t].id)
        /\ task[t].op = "delete" => task[t].seen \subseteq Pending(task[t].id)

\* Two that may write the same version have met.
Met ==
    \A t, u \in Tasks :
        /\ t # u
        /\ task[t].op \in {"ready", "fail"}
        /\ task[t].id = task[u].id
        /\ task[u].op = "delete" \/ (task[u].op \in {"ready", "fail"} /\ task[u].n = task[t].n)
        => t \in crossed /\ u \in crossed

SettledInv == ReadsHold /\ Met
-----------------------------------------------------------------------------

\* A task at nothing.
LEMMA IdleRecord == Idle \in TaskRecords /\ Idle.op = "idle"
BY VersionsAssumption DEF Idle, Doing, TaskRecords

\* What a task becomes changes nothing of the others.
LEMMA OneBecomes ==
    ASSUME task \in [Tasks -> TaskRecords], NEW t \in Tasks, NEW new \in TaskRecords,
           Becomes(t, new)
    PROVE  /\ task' \in [Tasks -> TaskRecords]
           /\ task'[t] = new
           /\ \A u \in Tasks \ {t} : task'[u] = task[u]
BY DEF Becomes

\* A task at something.
LEMMA RecordsBegun ==
    ASSUME NEW op \in {"idle"} \cup Between \cup Operations, NEW id \in Models \cup {None},
           NEW name \in Names \cup {None}, NEW n \in 0..MaxVersions, NEW seen \in SUBSET Numbers
    PROVE  Doing(op, id, name, n, seen) \in TaskRecords
BY DEF Doing, TaskRecords

\* A row of a model with its status changed keeps its other fields.
LEMMA RowDeleted ==
    ASSUME NEW row \in ModelRows
    PROVE  [row EXCEPT !.status = "deleted"]
               = [status |-> "deleted", name |-> row.name, dir |-> row.dir, max |-> row.max]
BY DEF ModelRows

\* A row of a model with one field changed.
LEMMA RowChanged ==
    ASSUME NEW row \in ModelRows
    PROVE  /\ \A name \in Names : [row EXCEPT !.name = name] \in ModelRows
           /\ \A max \in 0..MaxVersions : [row EXCEPT !.max = max] \in ModelRows
           /\ \A status \in {"active", "deleted"} : [row EXCEPT !.status = status] \in ModelRows
           /\ row.dir \in Names \cup {None} /\ row.name \in Names \cup {None}
           /\ row.max \in 0..MaxVersions
BY DEF ModelRows

\* A row of a version that ends.
LEMMA VersionEnds ==
    ASSUME NEW row \in VersionRows, NEW status \in Settled
    PROVE  [row EXCEPT !.status = status] \in VersionRows
BY DEF VersionRows, Settled

\* Every step keeps the variables in their sets.
LEMMA TypeStep == TypeInv /\ [Next]_vars => TypeOK'
<1> SUFFICES ASSUME TypeInv, [Next]_vars PROVE TypeOK'
  OBVIOUS
<1> USE VersionsAssumption, NoneAssumption DEF TypeInv, TypeOK
<1>1. ASSUME NEW id \in Models, NEW name \in Names, create_registered_model(id, name)
      PROVE TypeOK'
  <2>1. model' \in [Models -> ModelRows]
    BY <1>1, RowChanged DEF create_registered_model, ModelRows
  <2>2. version' \in [Models -> [Numbers -> VersionRows \cup {None}]]
    BY <1>1, VersionEnds DEF create_registered_model
  <2>3. task' \in [Tasks -> TaskRecords]
    BY <1>1, IdleRecord, RecordsBegun DEF create_registered_model
  <2>4. disk' \in [Names -> [Numbers -> SUBSET Tasks]]
    BY <1>1 DEF create_registered_model
  <2>5. /\ given' \in [Models -> 0..MaxVersions]
        /\ recycled' \subseteq Models /\ outlived' \subseteq Models
    BY <1>1 DEF create_registered_model
  <2>6. crossed' \subseteq Tasks /\ estranged' \subseteq Names
    BY <1>1 DEF create_registered_model
  <2> QED BY <2>1, <2>2, <2>3, <2>4, <2>5, <2>6
<1>2. ASSUME NEW id \in Models, NEW name \in Names, update_registered_model(id, name)
      PROVE TypeOK'
  <2>1. model' \in [Models -> ModelRows]
    BY <1>2, RowChanged DEF update_registered_model
  <2>2. version' \in [Models -> [Numbers -> VersionRows \cup {None}]]
    BY <1>2, VersionEnds DEF update_registered_model
  <2>3. task' \in [Tasks -> TaskRecords]
    BY <1>2, IdleRecord, RecordsBegun DEF update_registered_model
  <2>4. disk' \in [Names -> [Numbers -> SUBSET Tasks]]
    BY <1>2 DEF update_registered_model
  <2>5. /\ given' \in [Models -> 0..MaxVersions]
        /\ recycled' \subseteq Models /\ outlived' \subseteq Models
    BY <1>2 DEF update_registered_model, histories
  <2>6. crossed' \subseteq Tasks /\ estranged' \subseteq Names
    BY <1>2 DEF update_registered_model, histories
  <2> QED BY <2>1, <2>2, <2>3, <2>4, <2>5, <2>6
<1>3. ASSUME NEW id \in Models, NEW n \in Numbers, delete_model_version(id, n) PROVE TypeOK'
  <2>1. model' \in [Models -> ModelRows]
    BY <1>3, RowChanged DEF delete_model_version
  <2>2. version' \in [Models -> [Numbers -> VersionRows \cup {None}]]
    BY <1>3, VersionEnds DEF delete_model_version
  <2>3. task' \in [Tasks -> TaskRecords]
    BY <1>3, IdleRecord, RecordsBegun DEF delete_model_version
  <2>4. disk' \in [Names -> [Numbers -> SUBSET Tasks]]
    BY <1>3 DEF delete_model_version
  <2>5. /\ given' \in [Models -> 0..MaxVersions]
        /\ recycled' \subseteq Models /\ outlived' \subseteq Models
    BY <1>3 DEF delete_model_version
  <2>6. crossed' \subseteq Tasks /\ estranged' \subseteq Names
    BY <1>3 DEF delete_model_version
  <2> QED BY <2>1, <2>2, <2>3, <2>4, <2>5, <2>6
<1>4. ASSUME NEW t \in Tasks, DeletionCommits(t) PROVE TypeOK'
  <2>0. task[t].id \in Models /\ task[t].n \in 0..MaxVersions
    BY <1>4 DEF DeletionCommits, Carries, TaskRecords
  <2>1. model' \in [Models -> ModelRows]
    <3>1. model[task[t].id] \in ModelRows
      BY <2>0
    <3>2. [model[task[t].id] EXCEPT !.status = "deleted"] \in ModelRows
      BY <3>1, RowChanged
    <3> QED BY <1>4, <2>0, <3>2 DEF DeletionCommits
  <2>2. version' \in [Models -> [Numbers -> VersionRows \cup {None}]]
    <3>1. \A n \in task[t].seen : n \in Numbers /\ version[task[t].id][n] \in VersionRows
      BY <1>4, <2>0 DEF DeletionCommits, Carries, Versions
    <3>2. \A n \in task[t].seen : [version[task[t].id][n] EXCEPT !.status = "FAILED"] \in VersionRows
      BY <3>1, VersionEnds DEF Settled
    <3> QED BY <1>4, <2>0, <3>2 DEF DeletionCommits
  <2>3. task' \in [Tasks -> TaskRecords]
    BY <1>4, IdleRecord, RecordsBegun DEF DeletionCommits, Becomes
  <2>4. disk' \in [Names -> [Numbers -> SUBSET Tasks]]
    BY <1>4 DEF DeletionCommits
  <2>5. /\ given' \in [Models -> 0..MaxVersions]
        /\ recycled' \subseteq Models /\ outlived' \subseteq Models
    BY <1>4 DEF DeletionCommits
  <2>6. crossed' \subseteq Tasks /\ estranged' \subseteq Names
    BY <1>4 DEF DeletionCommits
  <2> QED BY <2>1, <2>2, <2>3, <2>4, <2>5, <2>6
<1>5. ASSUME NEW t \in Tasks, VersionCommits(t) PROVE TypeOK'
  <2>0. task[t].id \in Models /\ task[t].n \in 0..MaxVersions
    BY <1>5 DEF VersionCommits, Carries, TaskRecords
  <2>1. model' \in [Models -> ModelRows]
    <3>1. model[task[t].id] \in ModelRows
      BY <2>0
    <3>2. [model[task[t].id] EXCEPT !.max = task[t].n] \in ModelRows
      BY <2>0, <3>1, RowChanged
    <3> QED BY <1>5, <2>0, <3>2 DEF VersionCommits
  <2>2. version' \in [Models -> [Numbers -> VersionRows \cup {None}]]
    BY <1>5, VersionEnds, <2>0 DEF VersionCommits, Carries, VersionRows
  <2>3. task' \in [Tasks -> TaskRecords]
    <3>1. task[t].name \in Names \cup {None} /\ {} \in SUBSET Numbers
      BY DEF TaskRecords
    <3>2. "created" \in {"idle"} \cup Between \cup Operations
      BY DEF Between
    <3>3. Doing("created", task[t].id, task[t].name, task[t].n, {}) \in TaskRecords
      BY <2>0, <3>1, <3>2, RecordsBegun
    <3> QED BY <1>5, <3>3 DEF VersionCommits, Becomes
  <2>4. disk' \in [Names -> [Numbers -> SUBSET Tasks]]
    BY <1>5 DEF VersionCommits
  <2>5. /\ given' \in [Models -> 0..MaxVersions]
        /\ recycled' \subseteq Models /\ outlived' \subseteq Models
    BY <1>5 DEF VersionCommits, Carries, Numbers
  <2>6. crossed' \subseteq Tasks /\ estranged' \subseteq Names
    BY <1>5 DEF VersionCommits
  <2> QED BY <2>1, <2>2, <2>3, <2>4, <2>5, <2>6
<1>6. ASSUME NEW t \in Tasks, FinalizationCommits(t) PROVE TypeOK'
  <2>0. task[t].id \in Models /\ task[t].n \in 0..MaxVersions
    BY <1>6 DEF FinalizationCommits, Carries, TaskRecords
  <2>1. model' \in [Models -> ModelRows]
    BY <1>6, RowChanged, <2>0 DEF FinalizationCommits
  <2>2. version' \in [Models -> [Numbers -> VersionRows \cup {None}]]
    <3>1. task[t].n \in Numbers /\ version[task[t].id][task[t].n] \in VersionRows
      BY <1>6, <2>0 DEF FinalizationCommits, Versions
    <3>2. \A s \in Settled : [version[task[t].id][task[t].n] EXCEPT !.status = s] \in VersionRows
      BY <3>1, VersionEnds
    <3>3. (IF task[t].op = "ready" THEN "READY" ELSE "FAILED") \in Settled
      BY DEF Settled
    <3> QED BY <1>6, <2>0, <3>1, <3>2, <3>3 DEF FinalizationCommits
  <2>3. task' \in [Tasks -> TaskRecords]
    BY <1>6, IdleRecord, RecordsBegun DEF FinalizationCommits, Becomes
  <2>4. disk' \in [Names -> [Numbers -> SUBSET Tasks]]
    BY <1>6 DEF FinalizationCommits
  <2>5. /\ given' \in [Models -> 0..MaxVersions]
        /\ recycled' \subseteq Models /\ outlived' \subseteq Models
    BY <1>6 DEF FinalizationCommits
  <2>6. crossed' \subseteq Tasks /\ estranged' \subseteq Names
    BY <1>6 DEF FinalizationCommits
  <2> QED BY <2>1, <2>2, <2>3, <2>4, <2>5, <2>6
<1>7. ASSUME NEW t \in Tasks, Sweep(t) PROVE TypeOK'
  <2>1. model' \in [Models -> ModelRows]
    BY <1>7, RowChanged DEF Sweep, rows
  <2>2. version' \in [Models -> [Numbers -> VersionRows \cup {None}]]
    BY <1>7, VersionEnds DEF Sweep, rows
  <2>3. task' \in [Tasks -> TaskRecords]
    BY <1>7, IdleRecord, RecordsBegun DEF Sweep, Becomes
  <2>4. disk' \in [Names -> [Numbers -> SUBSET Tasks]]
    BY <1>7 DEF Sweep
  <2>5. /\ given' \in [Models -> 0..MaxVersions]
        /\ recycled' \subseteq Models /\ outlived' \subseteq Models
    BY <1>7 DEF Sweep, histories
  <2>6. crossed' \subseteq Tasks /\ estranged' \subseteq Names
    BY <1>7 DEF Sweep, histories
  <2> QED BY <2>1, <2>2, <2>3, <2>4, <2>5, <2>6
<1>8. ASSUME NEW t \in Tasks, Upload(t) PROVE TypeOK'
  <2>1. model' \in [Models -> ModelRows]
    BY <1>8, RowChanged DEF Upload, rows
  <2>2. version' \in [Models -> [Numbers -> VersionRows \cup {None}]]
    BY <1>8, VersionEnds DEF Upload, rows, Carries
  <2>3. task' \in [Tasks -> TaskRecords]
    BY <1>8, IdleRecord, RecordsBegun DEF Upload, Becomes, Between, TaskRecords, Pending,
       Finalizable, NextNumber, Exists
  <2>4. disk' \in [Names -> [Numbers -> SUBSET Tasks]]
    BY <1>8 DEF Upload, Carries, Named, Between
  <2>5. /\ given' \in [Models -> 0..MaxVersions]
        /\ recycled' \subseteq Models /\ outlived' \subseteq Models
    BY <1>8 DEF Upload, histories
  <2>6. crossed' \subseteq Tasks /\ estranged' \subseteq Names
    BY <1>8 DEF Upload, histories
  <2> QED BY <2>1, <2>2, <2>3, <2>4, <2>5, <2>6
<1>9. ASSUME NEW t \in Tasks, Fails(t) PROVE TypeOK'
  <2>1. model' \in [Models -> ModelRows]
    BY <1>9, RowChanged DEF Fails, rows
  <2>2. version' \in [Models -> [Numbers -> VersionRows \cup {None}]]
    BY <1>9, VersionEnds DEF Fails, rows
  <2>3. task' \in [Tasks -> TaskRecords]
    BY <1>9, IdleRecord, RecordsBegun DEF Fails, Becomes
  <2>4. disk' \in [Names -> [Numbers -> SUBSET Tasks]]
    BY <1>9 DEF Fails
  <2>5. /\ given' \in [Models -> 0..MaxVersions]
        /\ recycled' \subseteq Models /\ outlived' \subseteq Models
    BY <1>9 DEF Fails
  <2>6. crossed' \subseteq Tasks /\ estranged' \subseteq Names
    BY <1>9 DEF Fails, Carries
  <2> QED BY <2>1, <2>2, <2>3, <2>4, <2>5, <2>6
<1>10. ASSUME NEW t \in Tasks, NEW id \in Models, delete_registered_model(t, id) PROVE TypeOK'
  <2>1. model' \in [Models -> ModelRows]
    BY <1>10, RowChanged DEF delete_registered_model, rows
  <2>2. version' \in [Models -> [Numbers -> VersionRows \cup {None}]]
    BY <1>10, VersionEnds DEF delete_registered_model, rows
  <2>3. task' \in [Tasks -> TaskRecords]
    <3>1. Pending(id) \in SUBSET Numbers /\ 0 \in 0..MaxVersions
      BY DEF Pending, Versions
    <3>2. "delete" \in {"idle"} \cup Between \cup Operations
      BY DEF Operations
    <3>3. Doing("delete", id, None, 0, Pending(id)) \in TaskRecords
      BY <3>1, <3>2, RecordsBegun
    <3> QED BY <1>10, <3>3 DEF delete_registered_model, Becomes
  <2>4. disk' \in [Names -> [Numbers -> SUBSET Tasks]]
    BY <1>10 DEF delete_registered_model
  <2>5. /\ given' \in [Models -> 0..MaxVersions]
        /\ recycled' \subseteq Models /\ outlived' \subseteq Models
    BY <1>10 DEF delete_registered_model
  <2>6. crossed' \subseteq Tasks /\ estranged' \subseteq Names
    BY <1>10 DEF delete_registered_model, Meets, At
  <2> QED BY <2>1, <2>2, <2>3, <2>4, <2>5, <2>6
<1>11. ASSUME NEW t \in Tasks, NEW id \in Models, hard_delete_registered_model(t, id)
      PROVE TypeOK'
  <2>1. model' \in [Models -> ModelRows]
    BY <1>11, RowChanged DEF hard_delete_registered_model, ModelRows
  <2>2. version' \in [Models -> [Numbers -> VersionRows \cup {None}]]
    BY <1>11, VersionEnds DEF hard_delete_registered_model
  <2>3. task' \in [Tasks -> TaskRecords]
    <3>1. {} \in SUBSET Numbers /\ 0 \in 0..MaxVersions /\ model[id].name \in Names \cup {None}
      BY DEF ModelRows
    <3>2. "sweep" \in {"idle"} \cup Between \cup Operations
      BY DEF Operations
    <3>3. Doing("sweep", None, model[id].name, 0, {}) \in TaskRecords
      BY <3>1, <3>2, RecordsBegun
    <3> QED BY <1>11, <3>3, IdleRecord DEF hard_delete_registered_model
  <2>4. disk' \in [Names -> [Numbers -> SUBSET Tasks]]
    BY <1>11 DEF hard_delete_registered_model
  <2>5. /\ given' \in [Models -> 0..MaxVersions]
        /\ recycled' \subseteq Models /\ outlived' \subseteq Models
    BY <1>11 DEF hard_delete_registered_model
  <2>6. crossed' \subseteq Tasks /\ estranged' \subseteq Names
    BY <1>11 DEF hard_delete_registered_model, Named, Exists
  <2> QED BY <2>1, <2>2, <2>3, <2>4, <2>5, <2>6
<1>12. ASSUME NEW t \in Tasks, NEW id \in Models, create_model_version(t, id) PROVE TypeOK'
  <2>1. model' \in [Models -> ModelRows]
    BY <1>12, RowChanged DEF create_model_version, rows
  <2>2. version' \in [Models -> [Numbers -> VersionRows \cup {None}]]
    BY <1>12, VersionEnds DEF create_model_version, rows
  <2>3. task' \in [Tasks -> TaskRecords]
    BY <1>12, IdleRecord, RecordsBegun DEF create_model_version, Becomes, Operations, Numbers,
       Exists, Named
  <2>4. disk' \in [Names -> [Numbers -> SUBSET Tasks]]
    BY <1>12 DEF create_model_version
  <2>5. /\ given' \in [Models -> 0..MaxVersions]
        /\ recycled' \subseteq Models /\ outlived' \subseteq Models
    BY <1>12 DEF create_model_version, histories
  <2>6. crossed' \subseteq Tasks /\ estranged' \subseteq Names
    BY <1>12 DEF create_model_version, histories
  <2> QED BY <2>1, <2>2, <2>3, <2>4, <2>5, <2>6
<1>13. ASSUME NEW t \in Tasks, NEW id \in Models, NEW op \in {"ready", "fail"},
              finalize_model_version(t, id, op)
      PROVE TypeOK'
  <2>1. model' \in [Models -> ModelRows]
    BY <1>13, RowChanged DEF finalize_model_version, rows
  <2>2. version' \in [Models -> [Numbers -> VersionRows \cup {None}]]
    BY <1>13, VersionEnds DEF finalize_model_version, rows
  <2>3. task' \in [Tasks -> TaskRecords]
    BY <1>13, IdleRecord, RecordsBegun DEF finalize_model_version, Becomes, Operations, Pending,
       Versions, Finalizable, Numbers
  <2>4. disk' \in [Names -> [Numbers -> SUBSET Tasks]]
    BY <1>13 DEF finalize_model_version
  <2>5. /\ given' \in [Models -> 0..MaxVersions]
        /\ recycled' \subseteq Models /\ outlived' \subseteq Models
    BY <1>13 DEF finalize_model_version
  <2>6. crossed' \subseteq Tasks /\ estranged' \subseteq Names
    BY <1>13 DEF finalize_model_version, Meets, At, Ending, Named
  <2> QED BY <2>1, <2>2, <2>3, <2>4, <2>5, <2>6
<1>14. CASE UNCHANGED vars
  BY <1>14 DEF vars, rows, histories
<1> QED BY <1>1, <1>2, <1>3, <1>4, <1>5, <1>6, <1>7, <1>8, <1>9, <1>10, <1>11, <1>12, <1>13,
           <1>14 DEF Next

\* What the commit of a deletion does to the rows: the versions stay, and those it has
\* seen fail.
DeletionWritten(t) ==
    /\ task[t].id \in Models /\ Exists(task[t].id)
    /\ \A id \in Models :
           /\ Versions(id)' = Versions(id)
           /\ model'[id].status = IF id = task[t].id THEN "deleted" ELSE model[id].status
           /\ \A n \in Numbers :
                  version'[id][n].status = IF id = task[t].id /\ n \in task[t].seen
                                           THEN "FAILED" ELSE version[id][n].status
    /\ \A id \in Models : model'[id].max = model[id].max /\ model'[id].dir = model[id].dir
                          /\ model'[id].name = model[id].name

LEMMA DeletionWrites ==
    ASSUME TypeInv, NEW t \in Tasks, DeletionCommits(t)
    PROVE  DeletionWritten(t)
<1> USE DEF TypeInv, TypeOK, DeletionWritten
<1>1. task[t].id \in Models /\ Exists(task[t].id)
  BY DEF DeletionCommits, Carries
<1>2. \A n \in task[t].seen : n \in Numbers /\ version[task[t].id][n] \in VersionRows
  BY <1>1 DEF DeletionCommits, Carries, Versions
<1>3. \A n \in task[t].seen : [version[task[t].id][n] EXCEPT !.status = "FAILED"] # None
                              /\ [version[task[t].id][n] EXCEPT !.status = "FAILED"].status = "FAILED"
  BY <1>2, VersionEnds, NoneAssumption DEF VersionRows, Settled
<1>4. \A id \in Models, n \in Numbers :
         IF id = task[t].id /\ n \in task[t].seen
         THEN version'[id][n] = [version[task[t].id][n] EXCEPT !.status = "FAILED"]
         ELSE version'[id][n] = version[id][n]
  BY <1>1 DEF DeletionCommits
<1>5. \A n \in task[t].seen : version[task[t].id][n] # None
  BY <1>2, NoneAssumption DEF VersionRows, Settled
<1>6. \A id \in Models : Versions(id)' = Versions(id)
  <2> SUFFICES ASSUME NEW id \in Models, NEW n \in Numbers
               PROVE  version'[id][n] = None <=> version[id][n] = None
    BY DEF Versions
  <2>1. CASE id = task[t].id /\ n \in task[t].seen
    BY <1>3, <1>4, <1>5, <2>1
  <2>2. CASE ~(id = task[t].id /\ n \in task[t].seen)
    BY <1>4, <2>2
  <2> QED BY <2>1, <2>2
<1>7. \A id \in Models, n \in Numbers :
         version'[id][n].status = IF id = task[t].id /\ n \in task[t].seen
                                  THEN "FAILED" ELSE version[id][n].status
  <2> SUFFICES ASSUME NEW id \in Models, NEW n \in Numbers
               PROVE  version'[id][n].status = IF id = task[t].id /\ n \in task[t].seen
                                               THEN "FAILED" ELSE version[id][n].status
    OBVIOUS
  <2>1. CASE id = task[t].id /\ n \in task[t].seen
    BY <1>3, <1>4, <2>1
  <2>2. CASE ~(id = task[t].id /\ n \in task[t].seen)
    BY <1>4, <2>2
  <2> QED BY <2>1, <2>2
<1>8. model[task[t].id] \in ModelRows
  BY <1>1
<1>9. [model[task[t].id] EXCEPT !.status = "deleted"]
         = [status |-> "deleted", name |-> model[task[t].id].name,
            dir |-> model[task[t].id].dir, max |-> model[task[t].id].max]
  BY <1>8, RowDeleted
<1>10. \A id \in Models :
          IF id = task[t].id THEN model'[id] = [model[task[t].id] EXCEPT !.status = "deleted"]
          ELSE model'[id] = model[id]
  BY <1>1 DEF DeletionCommits
<1> QED BY <1>1, <1>6, <1>7, <1>9, <1>10

\* What the commit of a finalization does to them: the one version ends.
VersionEnded(t) ==
    /\ task[t].id \in Models /\ task[t].n \in Numbers
    /\ \A id \in Models :
           /\ Versions(id)' = Versions(id)
           /\ \A n \in Numbers :
                  \/ version'[id][n].status = version[id][n].status
                  \/ /\ id = task[t].id /\ n = task[t].n
                     /\ version'[id][n].status \in Settled

LEMMA FinalizationWrites ==
    ASSUME TypeInv, NEW t \in Tasks, FinalizationCommits(t)
    PROVE  VersionEnded(t)
<1> USE DEF TypeInv, TypeOK, VersionEnded
<1>1. task[t].id \in Models /\ task[t].n \in Numbers
  BY DEF FinalizationCommits, Carries, Versions
<1>2. version[task[t].id][task[t].n] \in VersionRows
  BY <1>1 DEF FinalizationCommits, Versions
<1>3. \A s \in Settled : [version[task[t].id][task[t].n] EXCEPT !.status = s] # None
                         /\ [version[task[t].id][task[t].n] EXCEPT !.status = s].status = s
  BY <1>2, VersionEnds, NoneAssumption DEF VersionRows, Settled
<1>4. PICK s \in Settled : \A id \in Models, n \in Numbers :
         IF id = task[t].id /\ n = task[t].n
         THEN version'[id][n] = [version[task[t].id][task[t].n] EXCEPT !.status = s]
         ELSE version'[id][n] = version[id][n]
  BY <1>1 DEF FinalizationCommits, Settled
<1>5. version[task[t].id][task[t].n] # None
  BY <1>1 DEF FinalizationCommits, Versions
<1>6. \A id \in Models : Versions(id)' = Versions(id)
  <2> SUFFICES ASSUME NEW id \in Models, NEW n \in Numbers
               PROVE  version'[id][n] = None <=> version[id][n] = None
    BY DEF Versions
  <2>1. CASE id = task[t].id /\ n = task[t].n
    BY <1>3, <1>4, <1>5, <2>1
  <2>2. CASE ~(id = task[t].id /\ n = task[t].n)
    BY <1>4, <2>2
  <2> QED BY <2>1, <2>2
<1>7. \A id \in Models, n \in Numbers :
         \/ version'[id][n].status = version[id][n].status
         \/ id = task[t].id /\ n = task[t].n /\ version'[id][n].status \in Settled
  <2> TAKE id \in Models, n \in Numbers
  <2>1. CASE id = task[t].id /\ n = task[t].n
    <3>1. version'[task[t].id][task[t].n] = [version[task[t].id][task[t].n] EXCEPT !.status = s]
      BY <1>4, <2>1
    <3> QED BY <1>3, <2>1, <3>1
  <2>2. CASE ~(id = task[t].id /\ n = task[t].n)
    BY <1>4, <2>2
  <2> QED BY <2>1, <2>2
<1> QED BY <1>1, <1>6, <1>7

\* Every step keeps the names of the models there are.
LEMMA NamedStep == TypeInv /\ [Next]_vars => Named'
<1> SUFFICES ASSUME TypeInv, [Next]_vars PROVE Named'
  OBVIOUS
<1> USE DEF TypeInv, TypeOK
<1>1. ASSUME NEW id \in Models, NEW name \in Names, create_registered_model(id, name)
      PROVE Named'
  BY <1>1 DEF create_registered_model, Named, Exists
<1>2. ASSUME NEW id \in Models, NEW name \in Names, update_registered_model(id, name)
      PROVE Named'
  BY <1>2 DEF update_registered_model, Named, Exists, histories
<1>3. ASSUME NEW id \in Models, NEW n \in Numbers, delete_model_version(id, n) PROVE Named'
  BY <1>3 DEF delete_model_version, Named, Exists
<1>4. ASSUME NEW t \in Tasks, DeletionCommits(t) PROVE Named'
  <2>1. DeletionWritten(t)
    BY <1>4, DeletionWrites
  <2> QED BY <1>4, <2>1 DEF DeletionWritten, DeletionCommits, Named, Exists
<1>5. ASSUME NEW t \in Tasks, VersionCommits(t) PROVE Named'
  BY <1>5 DEF VersionCommits, Named, Exists
<1>6. ASSUME NEW t \in Tasks, FinalizationCommits(t) PROVE Named'
  BY <1>6 DEF FinalizationCommits, Named, Exists
<1>7. ASSUME NEW t \in Tasks, Sweep(t) PROVE Named'
  BY <1>7 DEF Sweep, Named, Exists, rows, histories
<1>8. ASSUME NEW t \in Tasks, Upload(t) PROVE Named'
  BY <1>8 DEF Upload, Named, Exists, rows, histories, Carries
<1>9. ASSUME NEW t \in Tasks, Fails(t) PROVE Named'
  BY <1>9 DEF Fails, Named, Exists, rows
<1>10. ASSUME NEW t \in Tasks, NEW id \in Models, delete_registered_model(t, id) PROVE Named'
  BY <1>10 DEF delete_registered_model, Named, Exists, rows
<1>11. ASSUME NEW t \in Tasks, NEW id \in Models, hard_delete_registered_model(t, id)
      PROVE Named'
  BY <1>11 DEF hard_delete_registered_model, Named, Exists
<1>12. ASSUME NEW t \in Tasks, NEW id \in Models, create_model_version(t, id) PROVE Named'
  BY <1>12 DEF create_model_version, Named, Exists, rows, histories
<1>13. ASSUME NEW t \in Tasks, NEW id \in Models, NEW op \in {"ready", "fail"},
              finalize_model_version(t, id, op)
      PROVE Named'
  BY <1>13 DEF finalize_model_version, Named, Exists, rows
<1>14. CASE UNCHANGED vars
  BY <1>14 DEF vars, rows, histories, Named, Exists
<1> QED BY <1>1, <1>2, <1>3, <1>4, <1>5, <1>6, <1>7, <1>8, <1>9, <1>10, <1>11, <1>12, <1>13,
           <1>14 DEF Next

\* Every step leaves the other tasks with rows that are there, or stops them.
LEMMA CarriesStep == TypeInv /\ [Next]_vars => Carries'
<1> SUFFICES ASSUME TypeInv, [Next]_vars PROVE Carries'
  OBVIOUS
<1> USE DEF TypeInv, TypeOK
<1>1. ASSUME NEW id \in Models, NEW name \in Names, create_registered_model(id, name)
      PROVE Carries'
  BY <1>1 DEF create_registered_model, Carries, Exists, Versions
<1>2. ASSUME NEW id \in Models, NEW name \in Names, update_registered_model(id, name)
      PROVE Carries'
  BY <1>2 DEF update_registered_model, Carries, Exists, Versions
<1>3. ASSUME NEW id \in Models, NEW n \in Numbers, delete_model_version(id, n) PROVE Carries'
  BY <1>3 DEF delete_model_version, Carries, Exists, Doing, Idle, Between, Versions, At, Numbers,
     NextNumber, Ending
<1>4. ASSUME NEW t \in Tasks, DeletionCommits(t) PROVE Carries'
  <2>1. DeletionWritten(t)
    BY <1>4, DeletionWrites
  <2> QED BY <1>4, <2>1 DEF DeletionWritten, DeletionCommits, Carries, Becomes, Doing, Idle,
     Between, Exists
<1>5. ASSUME NEW t \in Tasks, VersionCommits(t) PROVE Carries'
  BY <1>5 DEF VersionCommits, Carries, Exists, Becomes, Doing, Versions, NextNumber
<1>6. ASSUME NEW t \in Tasks, FinalizationCommits(t) PROVE Carries'
  <2>1. VersionEnded(t)
    BY <1>6, FinalizationWrites
  <2> QED BY <1>6, <2>1 DEF VersionEnded, FinalizationCommits, Carries, Becomes, Doing, Idle,
     Between, Exists
<1>7. ASSUME NEW t \in Tasks, Sweep(t) PROVE Carries'
  BY <1>7 DEF Sweep, Carries, Exists, rows, Becomes, Doing, Idle, Between, Versions
<1>8. ASSUME NEW t \in Tasks, Upload(t) PROVE Carries'
  BY <1>8 DEF Upload, Carries, Exists, rows, histories, Becomes, Doing, Idle, Between, Versions,
     Pending, Finalizable, At, Ending
<1>9. ASSUME NEW t \in Tasks, Fails(t) PROVE Carries'
  BY <1>9 DEF Fails, Carries, Exists, rows, Becomes, Doing, Idle, Between, Versions
<1>10. ASSUME NEW t \in Tasks, NEW id \in Models, delete_registered_model(t, id) PROVE Carries'
  BY <1>10 DEF delete_registered_model, Carries, Exists, rows, Becomes, Doing, Between, Versions,
     Pending
<1>11. ASSUME NEW t \in Tasks, NEW id \in Models, hard_delete_registered_model(t, id)
      PROVE Carries'
  BY <1>11 DEF hard_delete_registered_model, Carries, Named, Exists, Doing, Idle, Between, Versions
<1>12. ASSUME NEW t \in Tasks, NEW id \in Models, create_model_version(t, id) PROVE Carries'
  BY <1>12 DEF create_model_version, Carries, Exists, rows, Becomes, Doing, Versions
<1>13. ASSUME NEW t \in Tasks, NEW id \in Models, NEW op \in {"ready", "fail"},
              finalize_model_version(t, id, op)
      PROVE Carries'
  BY <1>13 DEF finalize_model_version, Carries, Exists, rows, Becomes, Doing, Versions, Pending,
     Finalizable
<1>14. CASE UNCHANGED vars
  BY <1>14 DEF vars, rows, Carries, Exists, Versions
<1> QED BY <1>1, <1>2, <1>3, <1>4, <1>5, <1>6, <1>7, <1>8, <1>9, <1>10, <1>11, <1>12, <1>13,
           <1>14 DEF Next

\* A creation that commits gives the next number: a smaller one would still be there.
LEMMA CounterStep == TypeInv /\ CounterInv /\ [Next]_vars => CounterInv'
<1> SUFFICES ASSUME TypeInv, CounterInv, [Next]_vars PROVE CounterInv'
  OBVIOUS
<1> USE DEF TypeInv, TypeOK, CounterInv
<1>1. ASSUME NEW id \in Models, NEW name \in Names, create_registered_model(id, name)
      PROVE CounterInv'
  BY <1>1 DEF create_registered_model, CounterCovers, Held, Named, Carries, Exists, Versions
<1>2. ASSUME NEW id \in Models, NEW name \in Names, update_registered_model(id, name)
      PROVE CounterInv'
  BY <1>2 DEF update_registered_model, CounterCovers, Held, Exists, histories, Versions
<1>3. ASSUME NEW id \in Models, NEW n \in Numbers, delete_model_version(id, n) PROVE CounterInv'
  BY <1>3 DEF delete_model_version, CounterCovers, Held, Exists, Doing, Idle, Versions, At
<1>4. ASSUME NEW t \in Tasks, DeletionCommits(t) PROVE CounterInv'
  <2>1. DeletionWritten(t)
    BY <1>4, DeletionWrites
  <2>2. \A id \in Models : Exists(id)' <=> Exists(id)
    BY <2>1 DEF DeletionWritten, Exists
  <2>3. given' = given /\ recycled' = recycled /\ task'[t].op = "idle"
        /\ \A u \in Tasks \ {t} : task'[u] = task[u]
    BY <1>4 DEF DeletionCommits, Becomes, Doing, Idle
  <2>4. CounterCovers'
    BY <2>1, <2>2, <2>3 DEF DeletionWritten, CounterCovers
  <2>5. Held'
    BY <2>1, <2>3 DEF DeletionWritten, Held, Carries
  <2> QED BY <2>4, <2>5
<1>5. ASSUME NEW t \in Tasks, VersionCommits(t) PROVE CounterInv'
  <2> DEFINE i == task[t].id
             n == task[t].n
  <2>1. i \in Models /\ n \in Numbers /\ Exists(i) /\ n \notin Versions(i)
    BY <1>5 DEF VersionCommits, Carries, Versions
  <2>0. n \in Nat /\ \A j \in Models : model[j].max \in Nat /\ given[j] \in Nat
    BY <2>1, VersionsAssumption DEF ModelRows, Numbers
  <2>2. \A j \in Models : /\ model'[j].max = IF j = i THEN n ELSE model[j].max
                          /\ Exists(j)' <=> Exists(j)
    BY <1>5, <2>1 DEF VersionCommits, Exists, ModelRows
  <2>3. \A j \in Models : given'[j] = IF j = i /\ n > given[i] THEN n ELSE given[j]
    BY <1>5, <2>1 DEF VersionCommits
  <2>4. version'[i][n] # None
    BY <1>5, <2>1, NoneAssumption DEF VersionCommits
  <2>5. \A j \in Models : Versions(j) \subseteq Versions(j)' /\ (j = i => n \in Versions(j)')
    BY <1>5, <2>1, <2>4 DEF VersionCommits, Versions
  <2>6. recycled' = recycled /\ task'[t].op = "created" /\ \A u \in Tasks \ {t} : task'[u] = task[u]
    BY <1>5 DEF VersionCommits, Becomes, Doing
  <2> HIDE DEF TypeInv, TypeOK, CounterInv
  <2>7. i \notin recycled => n = model[i].max + 1
    <3>1. ASSUME i \notin recycled PROVE n <= model[i].max + 1 /\ ~(n <= model[i].max)
      BY <1>5, <2>1, <3>1 DEF VersionCommits, Held, CounterInv
    <3>2. n \in Nat /\ model[i].max \in Nat
      BY <2>0, <2>1
    <3> QED BY <3>1, <3>2
  <2>8. CounterCovers'
    BY <2>0, <2>1, <2>2, <2>3, <2>6, <2>7 DEF CounterCovers, CounterInv
  <2>9. Held'
    <3> SUFFICES ASSUME NEW u \in Tasks \ {t}, task[u].op = "create", task[u].id \notin recycled
                 PROVE  /\ task[u].n <= model'[task[u].id].max + 1
                        /\ task[u].n <= model'[task[u].id].max => task[u].n \in Versions(task[u].id)'
      BY <2>6 DEF Held
    <3>1. task[u].id \in Models /\ task[u].n \in Nat
      BY VersionsAssumption DEF Carries, Numbers, TypeInv
    <3>4. /\ task[u].n <= model[task[u].id].max + 1
          /\ task[u].n <= model[task[u].id].max => task[u].n \in Versions(task[u].id)
      BY DEF Held, CounterInv
    <3>5. model[task[u].id].max \in Nat /\ n \in Nat
      BY <2>0, <3>1
    <3>2. CASE task[u].id = i
      <4>1. n = model[task[u].id].max + 1 /\ model'[task[u].id].max = n
        BY <2>1, <2>2, <2>7, <3>2
      <4>2. task[u].n = n \/ task[u].n <= model[task[u].id].max
        BY <3>1, <3>4, <3>5, <4>1
      <4>3. task'[u] = task[u]
        BY <2>6
      <4>4. Versions(task[u].id) \subseteq Versions(task[u].id)' /\ n \in Versions(task[u].id)'
        BY <2>5, <3>1, <3>2, <4>3
      <4> QED BY <3>1, <3>4, <3>5, <4>1, <4>2, <4>4
    <3>3. CASE task[u].id # i
      <4>1. model'[task[u].id].max = model[task[u].id].max
        BY <2>2, <3>1, <3>3
      <4>2. task'[u] = task[u]
        BY <2>6
      <4>3. Versions(task[u].id) \subseteq Versions(task[u].id)'
        BY <2>5, <3>1, <4>2
      <4> QED BY <3>1, <3>4, <4>1, <4>3
    <3> QED BY <3>2, <3>3
  <2> QED BY <2>8, <2>9 DEF CounterInv
<1>6. ASSUME NEW t \in Tasks, FinalizationCommits(t) PROVE CounterInv'
  <2>1. VersionEnded(t)
    BY <1>6, FinalizationWrites
  <2> QED BY <1>6, <2>1 DEF VersionEnded, FinalizationCommits, CounterCovers, Held, Becomes, Doing,
     Idle, Exists, Carries
<1>7. ASSUME NEW t \in Tasks, Sweep(t) PROVE CounterInv'
  <2>1. /\ model' = model /\ version' = version /\ given' = given /\ recycled' = recycled
        /\ task'[t].op = "idle" /\ \A u \in Tasks \ {t} : task'[u] = task[u]
    BY <1>7, IdleRecord DEF Sweep, rows, histories, Becomes
  <2> HIDE DEF TypeInv, TypeOK
  <2> QED BY <2>1 DEF CounterCovers, Held, Exists, Versions
<1>8. ASSUME NEW t \in Tasks, Upload(t) PROVE CounterInv'
  <2>1. /\ model' = model /\ version' = version /\ given' = given /\ recycled' = recycled
        /\ task'[t].op = "uploaded" /\ \A u \in Tasks \ {t} : task'[u] = task[u]
    BY <1>8 DEF Upload, rows, histories, Becomes, Doing
  <2> HIDE DEF TypeInv, TypeOK
  <2> QED BY <2>1 DEF CounterCovers, Held, Exists, Versions
<1>9. ASSUME NEW t \in Tasks, Fails(t) PROVE CounterInv'
  <2>1. /\ model' = model /\ version' = version /\ given' = given /\ recycled' = recycled
        /\ task'[t].op = "idle" /\ \A u \in Tasks \ {t} : task'[u] = task[u]
    BY <1>9, IdleRecord DEF Fails, rows, Becomes
  <2> HIDE DEF TypeInv, TypeOK
  <2> QED BY <2>1 DEF CounterCovers, Held, Exists, Versions
<1>10. ASSUME NEW t \in Tasks, NEW id \in Models, delete_registered_model(t, id)
      PROVE CounterInv'
  BY <1>10 DEF delete_registered_model, CounterCovers, Held, Exists, rows, Becomes, Doing, Versions
<1>11. ASSUME NEW t \in Tasks, NEW id \in Models, hard_delete_registered_model(t, id)
      PROVE CounterInv'
  <2>1. \A j \in Models : Exists(j)' => j # id /\ Exists(j)
    BY <1>11 DEF hard_delete_registered_model, Exists
  <2>2. \A j \in Models \ {id} :
           /\ model'[j] = model[j] /\ version'[j] = version[j] /\ given'[j] = given[j]
           /\ j \in recycled' <=> j \in recycled
    BY <1>11 DEF hard_delete_registered_model
  <2>3. \A u \in Tasks : task'[u].op = "create" => task'[u] = task[u] /\ task[u].id # id
    BY <1>11 DEF hard_delete_registered_model, Doing, Idle, Between
  <2>4. CounterCovers'
    BY <2>1, <2>2 DEF CounterCovers
  <2>5. Held'
    BY <2>2, <2>3 DEF Held, Carries, Versions
  <2> QED BY <2>4, <2>5
<1>12. ASSUME NEW t \in Tasks, NEW id \in Models, create_model_version(t, id) PROVE CounterInv'
  BY <1>12 DEF create_model_version, CounterCovers, Held, Exists, rows, histories, Becomes, Doing,
     Versions, NextNumber
<1>13. ASSUME NEW t \in Tasks, NEW id \in Models, NEW op \in {"ready", "fail"},
              finalize_model_version(t, id, op)
      PROVE CounterInv'
  BY <1>13 DEF finalize_model_version, CounterCovers, Held, Named, Exists, rows, Becomes, Doing,
     Versions
<1>14. CASE UNCHANGED vars
  BY <1>14 DEF vars, rows, histories, CounterCovers, Held, Exists, Versions
<1> QED BY <1>1, <1>2, <1>3, <1>4, <1>5, <1>6, <1>7, <1>8, <1>9, <1>10, <1>11, <1>12, <1>13,
           <1>14 DEF Next

\* While a deletion holds the row nothing becomes pending that it has not seen.
LEMMA ClosedStep == TypeInv /\ ClosedInv /\ [Next]_vars => ClosedInv'
<1> SUFFICES ASSUME TypeInv, ClosedInv, [Next]_vars PROVE ClosedInv'
  OBVIOUS
<1> USE DEF TypeInv, TypeOK, ClosedInv
<1>1. ASSUME NEW id \in Models, NEW name \in Names, create_registered_model(id, name)
      PROVE ClosedInv'
  BY <1>1 DEF create_registered_model, DeletedIsClosed, Closing, Versions, Pending
<1>2. ASSUME NEW id \in Models, NEW name \in Names, update_registered_model(id, name)
      PROVE ClosedInv'
  BY <1>2 DEF update_registered_model, DeletedIsClosed, Closing, histories, Versions, Pending
<1>3. ASSUME NEW id \in Models, NEW n \in Numbers, delete_model_version(id, n) PROVE ClosedInv'
  BY <1>3 DEF delete_model_version, DeletedIsClosed, Closing, Named, Carries, Exists, rows,
     histories, Becomes, Doing, Idle, Versions, Pending, At, Locked, ModelRows
<1>4. ASSUME NEW t \in Tasks, DeletionCommits(t) PROVE ClosedInv'
  <2>1. DeletionWritten(t)
    BY <1>4, DeletionWrites
  <2>2. outlived' = outlived /\ task'[t].op = "idle" /\ \A u \in Tasks \ {t} : task'[u] = task[u]
    BY <1>4 DEF DeletionCommits, Becomes, Doing, Idle
  <2>3. \A id \in Models : Pending(id)' \subseteq Pending(id)
    BY <2>1 DEF DeletionWritten, Pending, Versions
  <2>4. Pending(task[t].id) \subseteq task[t].seen
    BY <1>4 DEF DeletionCommits, Closing
  <2>5. \A n \in task[t].seen : version'[task[t].id][n].status # "PENDING"
    BY <2>1, <1>4 DEF DeletionCommits, Carries, Versions
  <2>6. \A n \in Numbers :
           version'[task[t].id][n].status = "PENDING" /\ n \in Versions(task[t].id)
             => n \in Pending(task[t].id)
    BY <2>1 DEF DeletionWritten, Pending
  <2>7. DeletedIsClosed'
    <3> SUFFICES ASSUME NEW id \in Models, model'[id].status = "deleted", id \notin outlived,
                        NEW n \in Pending(id)'
                 PROVE  FALSE
      BY <2>2 DEF DeletedIsClosed
    <3>1. CASE id = task[t].id
      <4>1. n \in Numbers /\ n \in Versions(id) /\ version'[id][n].status = "PENDING"
        BY <2>1 DEF DeletionWritten, Pending, Versions
      <4> QED BY <2>4, <2>5, <2>6, <3>1, <4>1
    <3>2. CASE id # task[t].id
      BY <2>1, <2>3, <3>2 DEF DeletionWritten, DeletedIsClosed
    <3> QED BY <3>1, <3>2
  <2>8. Closing'
    <3>1. \A u \in Tasks : task'[u].op = "delete" =>
             u # t /\ task'[u] = task[u] /\ task[u].id \in Models /\ task[u].id # task[t].id
      BY <1>4, <2>2 DEF DeletionCommits, Closing, Carries
    <3>2. \A id \in Models \ {task[t].id} : model'[id].status = model[id].status
      BY <2>1 DEF DeletionWritten
    <3>3. \A u \in Tasks : task'[u].op = "delete" => Pending(task[u].id)' \subseteq task[u].seen
      BY <2>2, <2>3, <3>1 DEF Closing
    <3> QED BY <3>1, <3>2, <3>3 DEF Closing
  <2> QED BY <2>7, <2>8
<1>5. ASSUME NEW t \in Tasks, VersionCommits(t) PROVE ClosedInv'
  BY <1>5 DEF VersionCommits, DeletedIsClosed, Closing, Named, Carries, Exists, rows, histories,
     Becomes, Doing, Idle, Versions, Pending, At, Locked, ModelRows
<1>6. ASSUME NEW t \in Tasks, FinalizationCommits(t) PROVE ClosedInv'
  <2>1. VersionEnded(t)
    BY <1>6, FinalizationWrites
  <2>2. model' = model /\ outlived' = outlived /\ task'[t].op = "idle"
        /\ \A u \in Tasks \ {t} : task'[u] = task[u]
    BY <1>6 DEF FinalizationCommits, Becomes, Doing, Idle
  <2>3. \A id \in Models : Pending(id)' \subseteq Pending(id)
    BY <2>1 DEF VersionEnded, Pending, Versions, Settled
  <2>4. \A u \in Tasks : task[u].op = "delete" => task[u].id \in Models
    BY DEF Carries
  <2> HIDE DEF TypeInv, TypeOK
  <2> QED BY <2>2, <2>3, <2>4 DEF DeletedIsClosed, Closing
<1>7. ASSUME NEW t \in Tasks, Sweep(t) PROVE ClosedInv'
  <2>1. /\ model' = model /\ version' = version /\ outlived' = outlived
        /\ task'[t].op = "idle" /\ \A u \in Tasks \ {t} : task'[u] = task[u]
    BY <1>7, IdleRecord DEF Sweep, rows, histories, Becomes
  <2> HIDE DEF TypeInv, TypeOK
  <2> QED BY <2>1 DEF DeletedIsClosed, Closing, Versions, Pending
<1>8. ASSUME NEW t \in Tasks, Upload(t) PROVE ClosedInv'
  <2>1. /\ model' = model /\ version' = version /\ outlived' = outlived
        /\ task'[t].op = "uploaded" /\ \A u \in Tasks \ {t} : task'[u] = task[u]
    BY <1>8 DEF Upload, rows, histories, Becomes, Doing
  <2> HIDE DEF TypeInv, TypeOK
  <2> QED BY <2>1 DEF DeletedIsClosed, Closing, Versions, Pending
<1>9. ASSUME NEW t \in Tasks, Fails(t) PROVE ClosedInv'
  <2>1. /\ model' = model /\ version' = version /\ outlived' = outlived
        /\ task'[t].op = "idle" /\ \A u \in Tasks \ {t} : task'[u] = task[u]
    BY <1>9, IdleRecord DEF Fails, rows, Becomes
  <2> HIDE DEF TypeInv, TypeOK
  <2> QED BY <2>1 DEF DeletedIsClosed, Closing, Versions, Pending
<1>10. ASSUME NEW t \in Tasks, NEW id \in Models, delete_registered_model(t, id)
      PROVE ClosedInv'
  BY <1>10 DEF delete_registered_model, DeletedIsClosed, Closing, rows, Becomes, Doing, Idle,
     Versions, Pending, At, Locked, ModelRows
<1>11. ASSUME NEW t \in Tasks, NEW id \in Models, hard_delete_registered_model(t, id)
      PROVE ClosedInv'
  BY <1>11 DEF hard_delete_registered_model, DeletedIsClosed, Closing, Named, histories, Doing,
     Idle, Versions, Pending, At, Locked
<1>12. ASSUME NEW t \in Tasks, NEW id \in Models, create_model_version(t, id) PROVE ClosedInv'
  BY <1>12 DEF create_model_version, DeletedIsClosed, Closing, rows, histories, Becomes, Doing,
     Versions, Pending
<1>13. ASSUME NEW t \in Tasks, NEW id \in Models, NEW op \in {"ready", "fail"},
              finalize_model_version(t, id, op)
      PROVE ClosedInv'
  BY <1>13 DEF finalize_model_version, DeletedIsClosed, Closing, rows, Becomes, Doing, Versions,
     Pending
<1>14. CASE UNCHANGED vars
  BY <1>14 DEF vars, rows, histories, DeletedIsClosed, Closing, Versions, Pending
<1> QED BY <1>1, <1>2, <1>3, <1>4, <1>5, <1>6, <1>7, <1>8, <1>9, <1>10, <1>11, <1>12, <1>13,
           <1>14 DEF Next

\* Whoever comes to a version that another is about to write marks both.
LEMMA SettledStep == TypeInv /\ ClosedInv /\ SettledInv /\ [Next]_vars => SettledInv'
<1> SUFFICES ASSUME TypeInv, ClosedInv, SettledInv, [Next]_vars PROVE SettledInv'
  OBVIOUS
<1> USE DEF TypeInv, TypeOK, SettledInv
<1>1. ASSUME NEW id \in Models, NEW name \in Names, create_registered_model(id, name)
      PROVE SettledInv'
  BY <1>1 DEF create_registered_model, ReadsHold, Met, Named, Exists, rows, histories, Becomes,
     Meets, Doing, Idle, Versions, Pending, Between
<1>2. ASSUME NEW id \in Models, NEW name \in Names, update_registered_model(id, name)
      PROVE SettledInv'
  BY <1>2 DEF update_registered_model, ReadsHold, Met, histories, Becomes, Idle, Versions, Pending,
     Finalizable
<1>3. ASSUME NEW id \in Models, NEW n \in Numbers, delete_model_version(id, n) PROVE SettledInv'
  <2>1. \A t \in Tasks :
           \/ task'[t].op = "idle"
           \/ /\ task'[t] = task[t]
              /\ ~(task[t].op \in {"ready", "fail"} /\ task[t].id = id /\ task[t].n = n)
              /\ ~(task[t].op = "delete" /\ task[t].id = id /\ n \in task[t].seen)
    BY <1>3, IdleRecord DEF delete_model_version, Ending, At
  <2>2. \A t \in Tasks : task'[t].op # "idle" => (t \in crossed' <=> t \in crossed)
    BY <1>3, <2>1, IdleRecord DEF delete_model_version
  <2>3. \A j \in Models : \A k \in Pending(j) : k \in Pending(j)' \/ (j = id /\ k = n)
    BY <1>3 DEF delete_model_version, Pending, Versions
  <2>4. ReadsHold'
    <3> SUFFICES ASSUME NEW t \in Tasks, t \notin crossed'
                 PROVE  (/\ task[t].op \in {"ready", "fail"} => task[t].n \in Pending(task[t].id)
                         /\ task[t].op = "delete" => task[t].seen \subseteq Pending(task[t].id))'
      BY DEF ReadsHold
    <3>1. CASE task'[t].op = "idle"
      BY <3>1
    <3>2. CASE task'[t].op # "idle"
      <4>1. task'[t] = task[t] /\ t \notin crossed
        BY <2>1, <2>2, <3>2
      <4>2. task[t].op \in {"ready", "fail", "delete"} => task[t].id \in Models
        BY DEF Carries
      <4>3. /\ task[t].op \in {"ready", "fail"} => task[t].n \in Pending(task[t].id)
            /\ task[t].op = "delete" => task[t].seen \subseteq Pending(task[t].id)
        BY <4>1 DEF ReadsHold
      <4>4. /\ ~(task[t].op \in {"ready", "fail"} /\ task[t].id = id /\ task[t].n = n)
            /\ ~(task[t].op = "delete" /\ task[t].id = id /\ n \in task[t].seen)
        BY <2>1, <3>2
      <4> HIDE DEF TypeInv, TypeOK, SettledInv
      <4> QED BY <2>3, <4>1, <4>2, <4>3, <4>4
    <3> QED BY <3>1, <3>2
  <2>5. Met'
    <3> SUFFICES ASSUME NEW t \in Tasks, NEW u \in Tasks, t # u,
                        task'[t].op \in {"ready", "fail"}, task'[t].id = task'[u].id,
                        task'[u].op = "delete"
                          \/ (task'[u].op \in {"ready", "fail"} /\ task'[u].n = task'[t].n)
                 PROVE  t \in crossed' /\ u \in crossed'
      BY DEF Met
    <3>1. task'[t] = task[t] /\ task'[u] = task[u]
      BY <2>1
    <3>2. t \in crossed /\ u \in crossed
      BY <3>1 DEF Met
    <3> QED BY <2>2, <3>2
  <2> QED BY <2>4, <2>5
<1>4. ASSUME NEW t \in Tasks, DeletionCommits(t) PROVE SettledInv'
  <2>1. DeletionWritten(t)
    BY <1>4, DeletionWrites
  <2>2. crossed' = crossed \ {t} /\ task'[t].op = "idle" /\ \A u \in Tasks \ {t} : task'[u] = task[u]
    BY <1>4 DEF DeletionCommits, Becomes, Doing, Idle
  <2>3. \A u \in Tasks \ {t} : task[u].id = task[t].id =>
           /\ task[u].op # "delete"
           /\ task[u].op \in {"ready", "fail"} => u \in crossed
    BY <1>4 DEF DeletionCommits, ClosedInv, Closing, Met
  <2>4. \A id \in Models : id # task[t].id => Pending(id)' = Pending(id)
    BY <2>1 DEF DeletionWritten, Pending, Versions
  <2>5. ReadsHold'
    <3> SUFFICES ASSUME NEW u \in Tasks \ {t}, u \notin crossed
                 PROVE  /\ task[u].op \in {"ready", "fail"} => task[u].n \in Pending(task[u].id)'
                        /\ task[u].op = "delete" => task[u].seen \subseteq Pending(task[u].id)'
      BY <2>2 DEF ReadsHold
    <3>1. task'[u] = task[u]
      BY <2>2
    <3>2. CASE task[u].id # task[t].id
      BY <2>4, <3>1, <3>2 DEF ReadsHold, Carries
    <3>3. CASE task[u].id = task[t].id
      BY <2>3, <3>3
    <3> QED BY <3>2, <3>3
  <2>6. Met'
    BY <2>2 DEF Met
  <2> QED BY <2>5, <2>6
<1>5. ASSUME NEW t \in Tasks, VersionCommits(t) PROVE SettledInv'
  <2>1. /\ task[t].op = "create" /\ task[t].id \in Models /\ task[t].n \in Numbers
        /\ version[task[t].id][task[t].n] = None
    BY <1>5 DEF VersionCommits, Carries
  <2>2. /\ task'[t].op = "created" /\ crossed' = crossed
        /\ \A u \in Tasks \ {t} : task'[u] = task[u]
    BY <1>5 DEF VersionCommits, Becomes, Doing
  <2>3. \A id \in Models, n \in Numbers :
           version[id][n] # None => version'[id][n] = version[id][n]
    BY <1>5, <2>1 DEF VersionCommits
  <2>4. \A id \in Models : Pending(id) \subseteq Pending(id)'
    BY <2>3 DEF Pending, Versions
  <2>5. ReadsHold'
    BY <2>2, <2>4 DEF ReadsHold, Carries
  <2>6. Met'
    BY <2>2 DEF Met
  <2> QED BY <2>5, <2>6
<1>6. ASSUME NEW t \in Tasks, FinalizationCommits(t) PROVE SettledInv'
  <2>1. VersionEnded(t)
    BY <1>6, FinalizationWrites
  <2>2. crossed' = crossed \ {t} /\ task'[t].op = "idle" /\ \A u \in Tasks \ {t} : task'[u] = task[u]
    BY <1>6 DEF FinalizationCommits, Becomes, Doing, Idle
  <2>3. \A u \in Tasks \ {t} : task[u].id = task[t].id =>
           /\ task[u].op = "delete" => u \in crossed
           /\ task[u].op \in {"ready", "fail"} /\ task[u].n = task[t].n => u \in crossed
    BY <1>6 DEF FinalizationCommits, Met
  <2>4. \A id \in Models : \A n \in Pending(id) :
           n \in Pending(id)' \/ (id = task[t].id /\ n = task[t].n)
    BY <2>1 DEF VersionEnded, Pending, Versions
  <2>5. ReadsHold'
    BY <2>2, <2>3, <2>4 DEF ReadsHold, Carries
  <2>6. Met'
    BY <2>2 DEF Met
  <2> QED BY <2>5, <2>6
<1>7. ASSUME NEW t \in Tasks, Sweep(t) PROVE SettledInv'
  <2>1. /\ version' = version /\ crossed' = crossed
        /\ task'[t].op = "idle" /\ \A u \in Tasks \ {t} : task'[u] = task[u]
    BY <1>7, IdleRecord DEF Sweep, rows, histories, Becomes
  <2> HIDE DEF TypeInv, TypeOK
  <2> QED BY <2>1 DEF ReadsHold, Met, Versions, Pending
<1>8. ASSUME NEW t \in Tasks, Upload(t) PROVE SettledInv'
  <2>1. /\ version' = version /\ crossed' = crossed
        /\ task'[t].op = "uploaded" /\ \A u \in Tasks \ {t} : task'[u] = task[u]
    BY <1>8 DEF Upload, rows, histories, Becomes, Doing
  <2> HIDE DEF TypeInv, TypeOK
  <2> QED BY <2>1 DEF ReadsHold, Met, Versions, Pending
<1>9. ASSUME NEW t \in Tasks, Fails(t) PROVE SettledInv'
  <2>1. /\ version' = version /\ crossed' = crossed \ {t}
        /\ task'[t].op = "idle" /\ \A u \in Tasks \ {t} : task'[u] = task[u]
    BY <1>9, IdleRecord DEF Fails, rows, Becomes
  <2> HIDE DEF TypeInv, TypeOK
  <2> QED BY <2>1 DEF ReadsHold, Met, Versions, Pending
<1>10. ASSUME NEW t \in Tasks, NEW id \in Models, delete_registered_model(t, id)
      PROVE SettledInv'
  BY <1>10 DEF delete_registered_model, ReadsHold, Met, rows, Becomes, Meets, Doing, Versions,
     Pending, At
<1>11. ASSUME NEW t \in Tasks, NEW id \in Models, hard_delete_registered_model(t, id)
       PROVE SettledInv'
  <2>1. \A u \in Tasks :
           \/ task'[u].op \in {"idle", "sweep"} \cup Between
           \/ task'[u] = task[u] /\ task[u].id # id
    BY <1>11, IdleRecord DEF hard_delete_registered_model, Doing
  <2>2. \A u \in Tasks : task'[u].op # "idle" => (u \in crossed' <=> u \in crossed)
    BY <1>11, IdleRecord DEF hard_delete_registered_model
  <2>3. \A j \in Models : j # id => Pending(j)' = Pending(j)
    BY <1>11 DEF hard_delete_registered_model, Pending, Versions
  <2>4. ReadsHold'
    BY <2>1, <2>2, <2>3 DEF ReadsHold, Carries, Between
  <2>5. Met'
    BY <2>1, <2>2 DEF Met, Between
  <2> QED BY <2>4, <2>5
<1>12. ASSUME NEW t \in Tasks, NEW id \in Models, create_model_version(t, id) PROVE SettledInv'
  BY <1>12 DEF create_model_version, ReadsHold, Met, rows, histories, Becomes, Doing, Versions,
     Pending
<1>13. ASSUME NEW t \in Tasks, NEW id \in Models, NEW op \in {"ready", "fail"},
              finalize_model_version(t, id, op)
      PROVE SettledInv'
  BY <1>13 DEF finalize_model_version, ReadsHold, Met, rows, Becomes, Meets, Doing, Idle, Versions,
     Pending, Finalizable, At, Ending, Locked, ModelRows
<1>14. CASE UNCHANGED vars
  BY <1>14 DEF vars, rows, histories, ReadsHold, Met, Versions, Pending
<1> QED BY <1>1, <1>2, <1>3, <1>4, <1>5, <1>6, <1>7, <1>8, <1>9, <1>10, <1>11, <1>12, <1>13,
           <1>14 DEF Next

\* So a settled version is only written by one that is marked.
LEMMA StayStep == TypeInv /\ SettledInv /\ [Next]_vars => StaysSettled
<1> SUFFICES ASSUME TypeInv, SettledInv, [Next]_vars PROVE StaysSettled
  OBVIOUS
<1> USE DEF TypeInv, TypeOK, SettledInv
<1>1. ASSUME NEW id \in Models, NEW name \in Names, create_registered_model(id, name)
      PROVE StaysSettled
  BY <1>1 DEF create_registered_model, StaysSettled
<1>2. ASSUME NEW id \in Models, NEW name \in Names, update_registered_model(id, name)
      PROVE StaysSettled
  BY <1>2 DEF update_registered_model, StaysSettled
<1>3. ASSUME NEW id \in Models, NEW n \in Numbers, delete_model_version(id, n)
      PROVE StaysSettled
  BY <1>3 DEF delete_model_version, StaysSettled, Versions
<1>4. ASSUME NEW t \in Tasks, DeletionCommits(t) PROVE StaysSettled
  <2>1. DeletionWritten(t)
    BY <1>4, DeletionWrites
  <2>2. t \notin crossed => \A n \in task[t].seen : version[task[t].id][n].status = "PENDING"
    BY <1>4 DEF DeletionCommits, ReadsHold, Pending
  <2> QED BY <2>1, <2>2 DEF DeletionWritten, StaysSettled, Settled
<1>5. ASSUME NEW t \in Tasks, VersionCommits(t) PROVE StaysSettled
  BY <1>5 DEF VersionCommits, StaysSettled, Versions
<1>6. ASSUME NEW t \in Tasks, FinalizationCommits(t) PROVE StaysSettled
  <2>1. VersionEnded(t)
    BY <1>6, FinalizationWrites
  <2>2. t \notin crossed => version[task[t].id][task[t].n].status = "PENDING"
    BY <1>6 DEF FinalizationCommits, ReadsHold, Pending
  <2> QED BY <2>1, <2>2 DEF VersionEnded, StaysSettled, Settled
<1>7. ASSUME NEW t \in Tasks, Sweep(t) PROVE StaysSettled
  BY <1>7 DEF Sweep, StaysSettled, rows
<1>8. ASSUME NEW t \in Tasks, Upload(t) PROVE StaysSettled
  BY <1>8 DEF Upload, StaysSettled, rows
<1>9. ASSUME NEW t \in Tasks, Fails(t) PROVE StaysSettled
  BY <1>9 DEF Fails, StaysSettled, rows
<1>10. ASSUME NEW t \in Tasks, NEW id \in Models, delete_registered_model(t, id)
      PROVE StaysSettled
  BY <1>10 DEF delete_registered_model, StaysSettled, rows
<1>11. ASSUME NEW t \in Tasks, NEW id \in Models, hard_delete_registered_model(t, id)
      PROVE StaysSettled
  BY <1>11 DEF hard_delete_registered_model, StaysSettled, Versions
<1>12. ASSUME NEW t \in Tasks, NEW id \in Models, create_model_version(t, id) PROVE StaysSettled
  BY <1>12 DEF create_model_version, StaysSettled, rows
<1>13. ASSUME NEW t \in Tasks, NEW id \in Models, NEW op \in {"ready", "fail"},
              finalize_model_version(t, id, op)
      PROVE StaysSettled
  BY <1>13 DEF finalize_model_version, StaysSettled, rows
<1>14. CASE UNCHANGED vars
  BY <1>14 DEF vars, rows, StaysSettled
<1> QED BY <1>1, <1>2, <1>3, <1>4, <1>5, <1>6, <1>7, <1>8, <1>9, <1>10, <1>11, <1>12, <1>13,
           <1>14 DEF Next
-----------------------------------------------------------------------------
\* Nothing is registered and no task is at work in the beginning.
LEMMA InitHolds == Init => TypeInv /\ CounterInv /\ ClosedInv /\ SettledInv
<1> SUFFICES ASSUME Init PROVE TypeInv /\ CounterInv /\ ClosedInv /\ SettledInv
  OBVIOUS
<1> USE VersionsAssumption DEF Init
<1>1. TypeOK
  BY IdleRecord DEF TypeOK, NoModel, ModelRows
<1>2. \A t \in Tasks : task[t].op = "idle"
  BY IdleRecord
<1>3. Named /\ Carries
  BY <1>2 DEF Named, Carries, NoModel, Exists, Between
<1>4. CounterInv
  BY <1>2 DEF CounterInv, CounterCovers, Held, NoModel
<1>5. ClosedInv
  BY <1>2 DEF ClosedInv, DeletedIsClosed, Closing, NoModel
<1>6. SettledInv
  BY <1>2 DEF SettledInv, ReadsHold, Met
<1> QED BY <1>1, <1>3, <1>4, <1>5, <1>6 DEF TypeInv

\* The inductive invariant of the registry (models/service.py:86-125, 521-895).
THEOREM RegistryInvariant == Spec => [](TypeInv /\ CounterInv /\ ClosedInv /\ SettledInv)
<1>1. TypeInv /\ CounterInv /\ ClosedInv /\ SettledInv /\ [Next]_vars
        => (TypeInv /\ CounterInv /\ ClosedInv /\ SettledInv)'
  <2>1. TypeInv /\ [Next]_vars => TypeInv'
    BY TypeStep, NamedStep, CarriesStep DEF TypeInv
  <2> QED BY <2>1, CounterStep, ClosedStep, SettledStep
<1> QED BY <1>1, InitHolds, PTL DEF Spec

\* The state of the registry is well typed, whatever the numbers of models, names,
\* tasks and versions.
THEOREM RegistryTypes == Spec => []TypeOK
<1>1. TypeInv => TypeOK
  BY DEF TypeInv
<1> QED BY <1>1, RegistryInvariant, PTL

\* No creation gives a number that was given before, as long as no version is deleted
\* whose number a creation holds.
THEOREM CounterCoversAlways == Spec => []CounterCovers
<1>1. CounterInv => CounterCovers
  BY DEF CounterInv
<1> QED BY <1>1, RegistryInvariant, PTL

\* The deletion of a model closes all its versions, but for those a creation adds that
\* found the model before.
THEOREM DeletedIsClosedAlways == Spec => []DeletedIsClosed
<1>1. ClosedInv => DeletedIsClosed
  BY DEF ClosedInv
<1> QED BY <1>1, RegistryInvariant, PTL

\* What has become READY or FAILED stays so, unless two that may write the version met.
THEOREM SettledStaysAlways == Spec => SettledStays
<1>1. TypeInv /\ SettledInv /\ [Next]_vars => StaysSettled
  BY StayStep
<1>2. TypeInv /\ SettledInv /\ [Next]_vars => [StaysSettled]_vars
  BY <1>1
<1> QED BY <1>2, RegistryInvariant, PTL DEF Spec, SettledStays
-----------------------------------------------------------------------------
(* The files of the versions. *)

\* The model is there, has never given a number twice, and has its directory for
\* itself.
Clean(id) == Exists(id) /\ id \notin recycled /\ model[id].dir \notin estranged

\* No other model has the directory, and none is about to be swept away with it.
Apart ==
    \A id \in Models :
        Exists(id) /\ model[id].dir \notin estranged =>
            /\ \A other \in Models : Exists(other) /\ model[other].dir = model[id].dir => other = id
            /\ \A t \in Tasks : task[t].op = "sweep" => task[t].name # model[id].dir

\* A directory that nobody has, and nobody is about to sweep, is empty.
Emptied ==
    \A dir \in Names \ estranged :
        \/ \E id \in Models : Exists(id) /\ model[id].dir = dir
        \/ \E t \in Tasks : task[t].op = "sweep" /\ task[t].name = dir
        \/ \A n \in Numbers : disk[dir][n] = {}

\* A client that will still write has its model there, or is what estranges the
\* directory; a sweep is no model's any more.
Writers ==
    \A t \in Tasks :
        /\ task[t].op = "created" => Exists(task[t].id) \/ model[task[t].id].dir \in estranged
        /\ task[t].op = "sweep" => task[t].id = None

DirectoryInv == Apart /\ Emptied /\ Writers

\* Nothing is there for a number not given yet.
Fresh ==
    \A id \in Models :
        Clean(id) => \A n \in Numbers : n > given[id] => disk[model[id].dir][n] = {}

\* Those who write the files of a version or vouch for them.
Handles(t, id, n) ==
    task[t].op \in Between \cup {"ready"} /\ task[t].id = id /\ task[t].n = n

\* The number was given to the task; before its files are there no version is READY.
InHand(t, id, n) ==
    /\ n <= given[id]
    /\ n \in Versions(id) => version[id][n].by = t
    /\ task[t].op = "created" =>
          disk[model[id].dir][n] = {} /\ (n \in Versions(id) => version[id][n].status # "READY")
    /\ task[t].op # "created" => disk[model[id].dir][n] = {t}

\* Who handles a number of a clean model has it in hand.
Handled ==
    \A t \in Tasks, id \in Models, n \in Numbers :
        Handles(t, id, n) /\ Clean(id) => InHand(t, id, n)

\* Nobody else handles it.
Alone ==
    \A t, u \in Tasks, id \in Models, n \in Numbers :
        Handles(t, id, n) /\ Handles(u, id, n) /\ Clean(id) => t = u

\* A model that was never registered has no versions.
Rowless == \A id \in Models : model[id].status = "none" => Versions(id) = {}

FilesInv == Fresh /\ Handled /\ Alone /\ ReadyHasItsFiles
-----------------------------------------------------------------------------
\* Steps that leave the models, the directories and the sweeps alone.
LEMMA DirectoryFrame ==
    ASSUME DirectoryInv, disk' = disk, estranged \subseteq estranged',
           \A id \in Models : (Exists(id)' <=> Exists(id)) /\ model'[id].dir = model[id].dir,
           \A t \in Tasks : /\ task'[t].op = "sweep" => task'[t] = task[t]
                            /\ task[t].op = "sweep" => task'[t] = task[t],
           \A t \in Tasks : task'[t].op = "created" =>
               /\ task'[t].id \in Models
               /\ Exists(task'[t].id) \/ (task[t].op = "created" /\ task'[t].id = task[t].id)
    PROVE  DirectoryInv'
<1>1. Apart'
  BY DEF DirectoryInv, Apart
<1>2. Emptied'
  BY DEF DirectoryInv, Emptied
<1>3. Writers'
  BY DEF DirectoryInv, Writers
<1> QED BY <1>1, <1>2, <1>3 DEF DirectoryInv

\* No step shares a directory, or leaves files in one, but that it is marked.
LEMMA DirectoryStep == TypeInv /\ DirectoryInv /\ [Next]_vars => DirectoryInv'
<1> SUFFICES ASSUME TypeInv, DirectoryInv, [Next]_vars PROVE DirectoryInv'
  OBVIOUS
<1>0. /\ model \in [Models -> ModelRows] /\ task \in [Tasks -> TaskRecords]
      /\ disk \in [Names -> [Numbers -> SUBSET Tasks]] /\ estranged \subseteq Names
      /\ Named /\ Carries
  BY DEF TypeInv, TypeOK
<1>1. ASSUME NEW id \in Models, NEW name \in Names, create_registered_model(id, name)
      PROVE DirectoryInv'
  <2>1. /\ model[id].status = "none" /\ ~Exists(id) /\ Exists(id)' /\ model'[id].dir = name
        /\ \A j \in Models \ {id} : (Exists(j)' <=> Exists(j)) /\ model'[j] = model[j]
    BY <1>0, <1>1 DEF create_registered_model, Exists
  <2>2. disk' = disk /\ task' = task /\ estranged \subseteq estranged'
    BY <1>1 DEF create_registered_model
  <2>3. name \notin estranged' =>
           /\ \A j \in Models : Exists(j) => model[j].dir # name
           /\ \A t \in Tasks : task[t].op = "sweep" => task[t].name # name
    BY <1>1 DEF create_registered_model, NameTaken
  <2>4. Apart'
    BY <2>1, <2>2, <2>3 DEF DirectoryInv, Apart
  <2>5. Emptied'
    BY <2>1, <2>2 DEF DirectoryInv, Emptied
  <2>6. Writers'
    BY <1>0, <2>1, <2>2 DEF DirectoryInv, Writers, Carries, Between
  <2> QED BY <2>4, <2>5, <2>6 DEF DirectoryInv
<1>2. ASSUME NEW id \in Models, NEW name \in Names, update_registered_model(id, name)
      PROVE DirectoryInv'
  <2>1. \A j \in Models : (Exists(j)' <=> Exists(j)) /\ model'[j].dir = model[j].dir
    BY <1>0, <1>2 DEF update_registered_model, Exists, ModelRows
  <2>2. disk' = disk /\ task' = task /\ estranged' = estranged
    BY <1>2 DEF update_registered_model, histories
  <2> QED BY <1>0, <2>1, <2>2, DirectoryFrame DEF Carries, Between
<1>3. ASSUME NEW id \in Models, NEW n \in Numbers, delete_model_version(id, n)
      PROVE DirectoryInv'
  <2>1. \A t \in Tasks : \/ task'[t] = task[t]
                         \/ task[t].op \in {"ready", "fail", "delete"} /\ task'[t].op = "idle"
    BY <1>3, IdleRecord DEF delete_model_version, Ending, At
  <2>2. disk' = disk /\ model' = model /\ estranged' = estranged
    BY <1>3 DEF delete_model_version
  <2> QED BY <1>0, <2>1, <2>2, DirectoryFrame DEF Carries, Between, Exists
<1>4. ASSUME NEW t \in Tasks, DeletionCommits(t) PROVE DirectoryInv'
  <2>1. \A id \in Models : (Exists(id)' <=> Exists(id)) /\ model'[id].dir = model[id].dir
    BY <1>4, DeletionWrites DEF DeletionWritten, Exists
  <2>2. task[t].op = "delete" /\ disk' = disk /\ estranged' = estranged
    BY <1>4 DEF DeletionCommits
  <2>3. task'[t].op = "idle" /\ \A u \in Tasks \ {t} : task'[u] = task[u]
    BY <1>0, <1>4, IdleRecord DEF DeletionCommits, Becomes
  <2> QED BY <1>0, <2>1, <2>2, <2>3, DirectoryFrame DEF Carries, Between
<1>5. ASSUME NEW t \in Tasks, VersionCommits(t) PROVE DirectoryInv'
  <2>1. task[t].op = "create" /\ Exists(task[t].id) /\ disk' = disk /\ estranged' = estranged
    BY <1>5 DEF VersionCommits
  <2>2. task[t].id \in Models
    BY <1>0, <2>1 DEF Carries
  <2>3. \A id \in Models : (Exists(id)' <=> Exists(id)) /\ model'[id].dir = model[id].dir
    BY <1>0, <1>5, <2>2 DEF VersionCommits, Exists, ModelRows
  <2>4. /\ task'[t].op = "created" /\ task'[t].id = task[t].id
        /\ \A u \in Tasks \ {t} : task'[u] = task[u]
    BY <1>0, <1>5 DEF VersionCommits, Becomes, Doing
  <2> QED BY <1>0, <2>1, <2>2, <2>3, <2>4, DirectoryFrame DEF Carries, Between
<1>6. ASSUME NEW t \in Tasks, FinalizationCommits(t) PROVE DirectoryInv'
  <2>1. task[t].op \in {"ready", "fail"} /\ model' = model /\ disk' = disk /\ estranged' = estranged
    BY <1>6 DEF FinalizationCommits
  <2>2. task'[t].op = "idle" /\ \A u \in Tasks \ {t} : task'[u] = task[u]
    BY <1>0, <1>6, IdleRecord DEF FinalizationCommits, Becomes
  <2> QED BY <1>0, <2>1, <2>2, DirectoryFrame DEF Carries, Between, Exists
<1>7. ASSUME NEW t \in Tasks, Sweep(t) PROVE DirectoryInv'
  <2>1. /\ task[t].op = "sweep" /\ task[t].name \in Names
        /\ model' = model /\ estranged' = estranged
    BY <1>0, <1>7 DEF Sweep, rows, histories, Carries
  <2>2. task'[t].op = "idle" /\ \A u \in Tasks \ {t} : task'[u] = task[u]
    BY <1>0, <1>7, IdleRecord DEF Sweep, Becomes
  <2>3. \A dir \in Names, n \in Numbers :
           disk'[dir][n] = IF dir = task[t].name THEN {} ELSE disk[dir][n]
    BY <1>0, <1>7, <2>1 DEF Sweep
  <2>4. \A id \in Models : Exists(id)' <=> Exists(id)
    BY <2>1 DEF Exists
  <2>5. Apart'
    BY <2>1, <2>2, <2>4 DEF DirectoryInv, Apart
  <2>6. Emptied'
    BY <2>1, <2>2, <2>3, <2>4 DEF DirectoryInv, Emptied
  <2>7. Writers'
    BY <1>0, <2>1, <2>2, <2>4 DEF DirectoryInv, Writers, Carries, Between
  <2> QED BY <2>5, <2>6, <2>7 DEF DirectoryInv
<1>8. ASSUME NEW t \in Tasks, Upload(t) PROVE DirectoryInv'
  <2>1. /\ task[t].op = "created" /\ task[t].id \in Models
        /\ model' = model /\ estranged' = estranged
    BY <1>0, <1>8 DEF Upload, rows, histories, Carries, Between
  <2>2. task'[t].op = "uploaded" /\ \A u \in Tasks \ {t} : task'[u] = task[u]
    BY <1>0, <1>8 DEF Upload, Becomes, Doing
  <2>3. \A dir \in Names : dir # model[task[t].id].dir => disk'[dir] = disk[dir]
    BY <1>0, <1>8 DEF Upload
  <2>4. \A id \in Models : Exists(id)' <=> Exists(id)
    BY <2>1 DEF Exists
  <2>5. Apart'
    BY <2>1, <2>2, <2>4 DEF DirectoryInv, Apart
  <2>6. Emptied'
    BY <2>1, <2>2, <2>3, <2>4 DEF DirectoryInv, Emptied, Writers
  <2>7. Writers'
    BY <1>0, <2>1, <2>2, <2>4 DEF DirectoryInv, Writers, Carries, Between
  <2> QED BY <2>5, <2>6, <2>7 DEF DirectoryInv
<1>9. ASSUME NEW t \in Tasks, Fails(t) PROVE DirectoryInv'
  <2>1. /\ model' = model /\ disk' = disk /\ estranged \subseteq estranged'
        /\ task[t].op = "sweep" => task[t].name \in estranged'
    BY <1>9 DEF Fails, rows
  <2>2. task'[t].op = "idle" /\ \A u \in Tasks \ {t} : task'[u] = task[u]
    BY <1>0, <1>9, IdleRecord DEF Fails, Becomes
  <2>3. \A id \in Models : Exists(id)' <=> Exists(id)
    BY <2>1 DEF Exists
  <2>4. Apart'
    BY <2>1, <2>2, <2>3 DEF DirectoryInv, Apart
  <2>5. Emptied'
    BY <2>1, <2>2, <2>3 DEF DirectoryInv, Emptied
  <2>6. Writers'
    BY <1>0, <2>1, <2>2, <2>3 DEF DirectoryInv, Writers, Carries, Between
  <2> QED BY <2>4, <2>5, <2>6 DEF DirectoryInv
<1>10. ASSUME NEW t \in Tasks, NEW id \in Models, delete_registered_model(t, id)
       PROVE DirectoryInv'
  <2>1. /\ task[t].op = "idle" /\ model' = model /\ disk' = disk /\ estranged' = estranged
    BY <1>10, IdleRecord DEF delete_registered_model, rows
  <2>2. task'[t].op = "delete" /\ \A u \in Tasks \ {t} : task'[u] = task[u]
    BY <1>0, <1>10 DEF delete_registered_model, Becomes, Doing
  <2> QED BY <1>0, <2>1, <2>2, DirectoryFrame DEF Carries, Between, Exists
<1>11. ASSUME NEW t \in Tasks, NEW id \in Models, hard_delete_registered_model(t, id)
       PROVE DirectoryInv'
  <2>1. /\ Exists(id) /\ ~Exists(id)' /\ model'[id].dir = model[id].dir
        /\ \A j \in Models \ {id} : (Exists(j)' <=> Exists(j)) /\ model'[j] = model[j]
        /\ disk' = disk /\ estranged \subseteq estranged'
    BY <1>0, <1>11 DEF hard_delete_registered_model, Exists
  <2>2. /\ task[t].op = "idle" /\ task'[t].op = "sweep" /\ task'[t].name = model[id].name
        /\ task'[t].id = None
        /\ \A u \in Tasks \ {t} :
              \/ task'[u] = task[u]
              \/ task'[u].op = "idle" /\ task[u].id = id /\ task[u].op \notin Between
    BY <1>0, <1>11, IdleRecord DEF hard_delete_registered_model, Doing
  <2>3. model[id].dir \notin estranged' => model[id].name = model[id].dir
    BY <1>11 DEF hard_delete_registered_model
  <2>4. model[id].name # model[id].dir => model[id].name \in estranged'
    BY <1>11 DEF hard_delete_registered_model
  <2>5. \A u \in Tasks : task[u].op = "created" /\ task[u].id = id => model[id].dir \in estranged'
    BY <1>11 DEF hard_delete_registered_model, At
  <2>6. \A u \in Tasks \ {t} : task[u].op = "sweep" => task'[u] = task[u]
    BY <2>2, NoneAssumption DEF DirectoryInv, Writers
  <2>7. Apart'
    BY <2>1, <2>2, <2>3, <2>4 DEF DirectoryInv, Apart
  <2>8. Emptied'
    BY <2>1, <2>2, <2>3, <2>6 DEF DirectoryInv, Emptied
  <2>9. Writers'
    BY <1>0, <2>1, <2>2, <2>5 DEF DirectoryInv, Writers, Carries, Between
  <2> QED BY <2>7, <2>8, <2>9 DEF DirectoryInv
<1>12. ASSUME NEW t \in Tasks, NEW id \in Models, create_model_version(t, id)
       PROVE DirectoryInv'
  <2>1. task[t].op = "idle" /\ model' = model /\ disk' = disk /\ estranged' = estranged
    BY <1>12, IdleRecord DEF create_model_version, rows, histories
  <2>2. task'[t].op = "create" /\ \A u \in Tasks \ {t} : task'[u] = task[u]
    BY <1>0, <1>12 DEF create_model_version, Becomes, Doing
  <2> QED BY <1>0, <2>1, <2>2, DirectoryFrame DEF Carries, Between, Exists
<1>13. ASSUME NEW t \in Tasks, NEW id \in Models, NEW op \in {"ready", "fail"},
              finalize_model_version(t, id, op)
       PROVE DirectoryInv'
  <2>1. /\ task[t].op \in Between /\ model' = model /\ disk' = disk
        /\ estranged \subseteq estranged'
    BY <1>13 DEF finalize_model_version, rows, Between
  <2>2. task'[t].op = op /\ \A u \in Tasks \ {t} : task'[u] = task[u]
    BY <1>0, <1>13 DEF finalize_model_version, Becomes, Doing
  <2> QED BY <1>0, <2>1, <2>2, DirectoryFrame DEF Carries, Between, Exists
<1>14. CASE UNCHANGED vars
  BY <1>0, <1>14, DirectoryFrame DEF vars, rows, histories, Carries, Between, Exists
<1> QED BY <1>1, <1>2, <1>3, <1>4, <1>5, <1>6, <1>7, <1>8, <1>9, <1>10, <1>11, <1>12, <1>13,
           <1>14 DEF Next

\* Steps that touch neither the files of a clean model's versions nor who handles them.
LEMMA FilesFrame ==
    ASSUME TypeInv, FilesInv,
           \A id \in Models : Clean(id)' =>
               /\ Clean(id) /\ model'[id].dir = model[id].dir /\ given'[id] = given[id]
               /\ disk'[model[id].dir] = disk[model[id].dir]
               /\ \A n \in Versions(id)' :
                     /\ n \in Versions(id) /\ version'[id][n].by = version[id][n].by
                     /\ version'[id][n].status = "READY" => version[id][n].status = "READY",
           \A t \in Tasks, id \in Models, n \in Numbers :
               Handles(t, id, n)' /\ Clean(id)' =>
                   Handles(t, id, n) /\ (task'[t].op = "created" <=> task[t].op = "created")
    PROVE  FilesInv'
<1>1. \A id \in Models : Versions(id)' \subseteq Numbers
  BY DEF Versions
<1>2. Fresh'
  BY DEF FilesInv, Fresh
<1>3. Handled'
  <2> SUFFICES ASSUME NEW t \in Tasks, NEW id \in Models, NEW n \in Numbers,
                      Handles(t, id, n)', Clean(id)'
               PROVE  InHand(t, id, n)'
    BY DEF Handled
  <2>1. Handles(t, id, n) /\ (task'[t].op = "created" <=> task[t].op = "created")
    OBVIOUS
  <2>2. /\ Clean(id) /\ model'[id].dir = model[id].dir /\ given'[id] = given[id]
        /\ disk'[model[id].dir] = disk[model[id].dir]
    OBVIOUS
  <2>3. n \in Versions(id)' =>
           /\ n \in Versions(id) /\ version'[id][n].by = version[id][n].by
           /\ version'[id][n].status = "READY" => version[id][n].status = "READY"
    OBVIOUS
  <2>4. InHand(t, id, n)
    BY <2>1, <2>2 DEF FilesInv, Handled
  <2> QED BY <2>1, <2>2, <2>3, <2>4 DEF InHand
<1>4. Alone'
  BY DEF FilesInv, Alone
<1>5. ReadyHasItsFiles'
  <2> SUFFICES ASSUME NEW id \in Models, NEW n \in Versions(id)', Clean(id)',
                      version'[id][n].status = "READY"
               PROVE  disk'[model'[id].dir][n] = {version'[id][n].by}
    BY DEF ReadyHasItsFiles, Clean
  <2>1. /\ Exists(id) /\ id \notin recycled /\ model[id].dir \notin estranged
        /\ n \in Versions(id) /\ version[id][n].status = "READY"
        /\ n \in Numbers
    BY DEF Clean, Versions
  <2>2. disk[model[id].dir][n] = {version[id][n].by}
    BY <2>1 DEF FilesInv, ReadyHasItsFiles
  <2> QED BY <2>2
<1> QED BY <1>2, <1>3, <1>4, <1>5 DEF FilesInv

\* What the commits of a deletion and of a finalization leave of the versions.
LEMMA ClientsKept ==
    ASSUME TypeInv, NEW t \in Tasks, DeletionCommits(t) \/ FinalizationCommits(t),
           NEW id \in Models, NEW n \in Versions(id)
    PROVE  version'[id][n].by = version[id][n].by
<1> USE DEF TypeInv, TypeOK
<1>1. n \in Numbers /\ version[id][n] \in VersionRows
  BY DEF Versions
<1>2. \A s \in Settled : [version[id][n] EXCEPT !.status = s].by = version[id][n].by
  BY <1>1 DEF VersionRows
<1>3. CASE DeletionCommits(t)
  <2>1. task[t].id \in Models
    BY <1>3 DEF DeletionCommits, Carries
  <2>2. version'[id][n] \in {version[id][n], [version[id][n] EXCEPT !.status = "FAILED"]}
    BY <1>1, <1>3, <2>1 DEF DeletionCommits
  <2> QED BY <1>2, <2>2 DEF Settled
<1>4. CASE FinalizationCommits(t)
  <2>1. task[t].id \in Models
    BY <1>4 DEF FinalizationCommits, Carries
  <2>2. \E s \in Settled :
           version'[id][n] \in {version[id][n], [version[id][n] EXCEPT !.status = s]}
    BY <1>1, <1>4, <2>1 DEF FinalizationCommits, Settled
  <2> QED BY <1>2, <2>2
<1> QED BY <1>3, <1>4

\* Versions are those of models that were registered.
LEMMA RowlessStep == TypeInv /\ Rowless /\ [Next]_vars => Rowless'
<1> SUFFICES ASSUME TypeInv, Rowless, [Next]_vars, NEW id \in Models,
                    model'[id].status = "none"
             PROVE  Versions(id)' = {}
  BY DEF Rowless
<1> USE DEF TypeInv, TypeOK
<1>1. ASSUME NEW t \in Tasks, DeletionCommits(t) PROVE Versions(id)' = {}
  BY <1>1, DeletionWrites DEF DeletionWritten, Rowless
<1>2. ASSUME NEW t \in Tasks, FinalizationCommits(t) PROVE Versions(id)' = {}
  BY <1>2, FinalizationWrites DEF VersionEnded, Rowless, FinalizationCommits
<1>3. ASSUME NEW t \in Tasks, VersionCommits(t) PROVE Versions(id)' = {}
  <2>1. task[t].id \in Models /\ Exists(task[t].id)
    BY <1>3 DEF VersionCommits, Carries
  <2>2. model'[task[t].id].status = model[task[t].id].status
    BY <1>3, <2>1 DEF VersionCommits, ModelRows
  <2>3. id # task[t].id
    BY <2>1, <2>2 DEF Exists
  <2> QED BY <1>3, <2>1, <2>3 DEF VersionCommits, Rowless, Versions
<1>4. ASSUME NEW j \in Models, NEW t \in Tasks, hard_delete_registered_model(t, j)
      PROVE Versions(id)' = {}
  BY <1>4 DEF hard_delete_registered_model, Rowless, Versions
<1>5. ASSUME NEW j \in Models, NEW n \in Numbers, delete_model_version(j, n)
      PROVE Versions(id)' = {}
  BY <1>5 DEF delete_model_version, Rowless, Versions
<1>6. ASSUME NEW j \in Models, NEW name \in Names,
             create_registered_model(j, name) \/ update_registered_model(j, name)
      PROVE Versions(id)' = {}
  BY <1>6 DEF create_registered_model, update_registered_model, Rowless, Versions, ModelRows
<1>7. ASSUME rows' = rows PROVE Versions(id)' = {}
  BY <1>7 DEF rows, Rowless, Versions
<1>8. ASSUME NEW t \in Tasks,
             \/ Sweep(t) \/ Upload(t) \/ Fails(t)
             \/ \E j \in Models :
                   \/ delete_registered_model(t, j) \/ create_model_version(t, j)
                   \/ \E op \in {"ready", "fail"} : finalize_model_version(t, j, op)
      PROVE Versions(id)' = {}
  <2>1. rows' = rows
    BY <1>8 DEF Sweep, Upload, Fails, delete_registered_model, create_model_version,
                finalize_model_version
  <2> QED BY <1>7, <2>1
<1>9. CASE UNCHANGED vars
  BY <1>7, <1>9 DEF vars
<1> QED BY <1>1, <1>2, <1>3, <1>4, <1>5, <1>6, <1>8, <1>9 DEF Next

\* No step gives a version that is READY another's files, or takes its own away.
LEMMA FilesStep ==
    TypeInv /\ CounterInv /\ DirectoryInv /\ Rowless /\ FilesInv /\ [Next]_vars => FilesInv'
<1> SUFFICES ASSUME TypeInv, CounterInv, DirectoryInv, Rowless, FilesInv, [Next]_vars
             PROVE  FilesInv'
  OBVIOUS
<1>0. /\ model \in [Models -> ModelRows] /\ task \in [Tasks -> TaskRecords]
      /\ version \in [Models -> [Numbers -> VersionRows \cup {None}]]
      /\ disk \in [Names -> [Numbers -> SUBSET Tasks]] /\ given \in [Models -> 0..MaxVersions]
      /\ Named /\ Carries
  BY DEF TypeInv, TypeOK
<1>1. ASSUME NEW id \in Models, NEW name \in Names, create_registered_model(id, name)
      PROVE FilesInv'
  <2>1. /\ model[id].status = "none" /\ ~Exists(id) /\ model'[id].dir = name /\ given[id] = 0
        /\ \A j \in Models \ {id} : (Exists(j)' <=> Exists(j)) /\ model'[j] = model[j]
    BY <1>0, <1>1 DEF create_registered_model, Exists, Named
  <2>2. /\ disk' = disk /\ task' = task /\ version' = version /\ given' = given
        /\ recycled' = recycled /\ estranged \subseteq estranged'
    BY <1>1 DEF create_registered_model
  <2>3. name \notin estranged' => \A n \in Numbers : disk[name][n] = {}
    BY <1>1, <2>2 DEF create_registered_model, NameTaken, DirectoryInv, Emptied
  <2>4. \A j \in Models \ {id} : Clean(j)' => Clean(j)
    BY <2>1, <2>2 DEF Clean
  <2>5. \A t \in Tasks, n \in Numbers : ~Handles(t, id, n)'
    BY <1>0, <2>1, <2>2 DEF Handles, Carries, Between, Rowless
  <2>6. Fresh'
    BY <2>1, <2>2, <2>3, <2>4 DEF FilesInv, Fresh, Clean
  <2>7. Handled'
    <3> SUFFICES ASSUME NEW t \in Tasks, NEW j \in Models, NEW n \in Numbers,
                        Handles(t, j, n)', Clean(j)'
                 PROVE  InHand(t, j, n)'
      BY DEF Handled
    <3>1. j # id /\ Clean(j) /\ Handles(t, j, n)
      BY <2>2, <2>4, <2>5 DEF Handles
    <3>2. InHand(t, j, n)
      BY <3>1 DEF FilesInv, Handled
    <3> QED BY <2>1, <2>2, <3>1, <3>2 DEF InHand, Versions
  <2>9. Alone'
    BY <2>2, <2>4, <2>5 DEF FilesInv, Alone, Handles
  <2>8. ReadyHasItsFiles'
    <3>1. Versions(id)' = {}
      BY <2>1, <2>2 DEF Rowless, Versions
    <3> QED BY <2>1, <2>2, <3>1 DEF FilesInv, ReadyHasItsFiles, Versions
  <2> QED BY <2>6, <2>7, <2>8, <2>9 DEF FilesInv
<1>2. ASSUME NEW id \in Models, NEW name \in Names, update_registered_model(id, name)
      PROVE FilesInv'
  <2>1. \A j \in Models : (Exists(j)' <=> Exists(j)) /\ model'[j].dir = model[j].dir
    BY <1>0, <1>2 DEF update_registered_model, Exists, ModelRows
  <2>2. /\ disk' = disk /\ task' = task /\ version' = version
        /\ given' = given /\ recycled' = recycled /\ estranged' = estranged
    BY <1>2 DEF update_registered_model, histories
  <2> QED BY <2>1, <2>2, FilesFrame DEF Clean, Versions, Handles
<1>3. ASSUME NEW id \in Models, NEW n \in Numbers, delete_model_version(id, n)
      PROVE FilesInv'
  <2>1. \A t \in Tasks : task'[t] = task[t] \/ task'[t].op = "idle"
    BY <1>3, IdleRecord DEF delete_model_version
  <2>2. /\ disk' = disk /\ model' = model /\ given' = given /\ recycled \subseteq recycled'
        /\ estranged' = estranged
    BY <1>3 DEF delete_model_version
  <2>3. \A j \in Models, m \in Numbers : version'[j][m] \in {version[j][m], None}
    BY <1>0, <1>3 DEF delete_model_version
  <2>4. \A j \in Models : \A m \in Versions(j)' :
           m \in Versions(j) /\ version'[j][m] = version[j][m]
    BY <2>3 DEF Versions
  <2> QED BY <2>1, <2>2, <2>4, FilesFrame DEF Clean, Handles, Between, Exists
<1>4. ASSUME NEW t \in Tasks, DeletionCommits(t) PROVE FilesInv'
  <2>1. DeletionWritten(t)
    BY <1>4, DeletionWrites
  <2>2. /\ disk' = disk /\ given' = given /\ recycled' = recycled /\ estranged' = estranged
    BY <1>4 DEF DeletionCommits
  <2>3. task'[t].op = "idle" /\ \A u \in Tasks \ {t} : task'[u] = task[u]
    BY <1>0, <1>4, IdleRecord DEF DeletionCommits, Becomes
  <2>4. \A id \in Models : /\ Clean(id)' => Clean(id)
                           /\ model'[id].dir = model[id].dir
    BY <2>1, <2>2 DEF DeletionWritten, Clean, Exists
  <2>5. \A id \in Models : \A n \in Versions(id)' :
           /\ n \in Versions(id) /\ version'[id][n].by = version[id][n].by
           /\ version'[id][n].status = "READY" => version[id][n].status = "READY"
    BY <1>4, <2>1, ClientsKept DEF DeletionWritten, Versions
  <2> QED BY <2>2, <2>3, <2>4, <2>5, FilesFrame DEF Handles, Between
<1>5. ASSUME NEW t \in Tasks, VersionCommits(t) PROVE FilesInv'
  <2> DEFINE i == task[t].id
             k == task[t].n
  <2>1. /\ i \in Models /\ k \in Numbers /\ Exists(i) /\ k \notin Versions(i)
        /\ task[t].op = "create"
    BY <1>0, <1>5 DEF VersionCommits, Carries, Versions
  <2>2. \A j \in Models : model'[j].dir = model[j].dir /\ (Exists(j)' <=> Exists(j))
    BY <1>0, <1>5, <2>1 DEF VersionCommits, Exists, ModelRows
  <2>3. /\ disk' = disk /\ recycled' = recycled /\ estranged' = estranged
        /\ \A j \in Models : given'[j] = IF j = i /\ k > given[i] THEN k ELSE given[j]
    BY <1>0, <1>5, <2>1 DEF VersionCommits
  <2>4. /\ task'[t].op = "created" /\ task'[t].id = i /\ task'[t].n = k
        /\ \A u \in Tasks \ {t} : task'[u] = task[u]
    BY <1>0, <1>5 DEF VersionCommits, Becomes, Doing
  <2>5. \A j \in Models, n \in Numbers :
           version'[j][n] = IF j = i /\ n = k THEN [status |-> "PENDING", by |-> t]
                                              ELSE version[j][n]
    BY <1>0, <1>5, <2>1 DEF VersionCommits
  <2>6. \A j \in Models : given[j] \in Nat /\ model[j].max \in Nat
    BY <1>0, VersionsAssumption DEF ModelRows
  <2>7. \A n \in Numbers : n \in Nat
    BY VersionsAssumption DEF Numbers
  <2>8. Clean(i) => k > given[i]
    BY <1>5, <2>1, <2>6, <2>7
    DEF Clean, CounterInv, CounterCovers, Held
  <2>9. \A j \in Models : Clean(j)' <=> Clean(j)
    BY <2>2, <2>3 DEF Clean
  <2>10. \A u \in Tasks \ {t}, j \in Models, n \in Numbers : Handles(u, j, n)' <=> Handles(u, j, n)
    BY <2>4 DEF Handles
  <2>11. \A j \in Models, n \in Numbers : Handles(t, j, n)' => j = i /\ n = k
    BY <2>4 DEF Handles
  <2>12. \A u \in Tasks, n \in Numbers : Clean(i) /\ Handles(u, i, n) => n # k
    <3> SUFFICES ASSUME NEW u \in Tasks, Clean(i), Handles(u, i, k) PROVE FALSE
      BY <2>1
    <3>1. k <= given[i] /\ k > given[i]
      BY <2>1, <2>8 DEF FilesInv, Handled, InHand
    <3> QED BY <2>1, <2>6, <2>7, <3>1
  <2>13. Fresh'
    <3> SUFFICES ASSUME NEW j \in Models, Clean(j), NEW n \in Numbers, n > given'[j]
                 PROVE  disk[model[j].dir][n] = {}
      BY <2>2, <2>3, <2>9 DEF Fresh
    <3>1. n > given[j]
      BY <2>1, <2>3, <2>6, <2>7
    <3> QED BY <3>1 DEF FilesInv, Fresh
  <2>14. Handled'
    <3> SUFFICES ASSUME NEW u \in Tasks, NEW j \in Models, NEW n \in Numbers,
                        Handles(u, j, n)', Clean(j)
                 PROVE  InHand(u, j, n)'
      BY <2>9 DEF Handled
    <3>1. CASE u = t
      <4>1. j = i /\ n = k
        BY <2>11, <3>1
      <4>2. disk[model[i].dir][k] = {}
        BY <2>1, <2>8, <4>1 DEF FilesInv, Fresh
      <4>3. given'[i] = k /\ k <= k
        BY <2>1, <2>3, <2>7, <2>8, <4>1
      <4>4. version'[i][k].by = t /\ version'[i][k].status # "READY"
        BY <2>1, <2>5
      <4> QED BY <2>1, <2>2, <2>3, <2>4, <3>1, <4>1, <4>2, <4>3, <4>4 DEF InHand
    <3>2. CASE u # t
      <4>1. Handles(u, j, n) /\ ~(j = i /\ n = k)
        BY <2>10, <2>12, <3>2
      <4>2. InHand(u, j, n)
        BY <4>1 DEF FilesInv, Handled
      <4>3. version'[j][n] = version[j][n] /\ (n \in Versions(j)' <=> n \in Versions(j))
        BY <2>5, <4>1 DEF Versions
      <4>4. n <= given'[j]
        BY <2>1, <2>3, <2>6, <2>7, <4>2 DEF InHand
      <4> QED BY <2>2, <2>3, <2>4, <3>2, <4>2, <4>3, <4>4 DEF InHand
    <3> QED BY <3>1, <3>2
  <2>15. Alone'
    BY <2>9, <2>10, <2>11, <2>12 DEF FilesInv, Alone
  <2>16. ReadyHasItsFiles'
    BY <2>2, <2>3, <2>5 DEF FilesInv, ReadyHasItsFiles, Versions
  <2> QED BY <2>13, <2>14, <2>15, <2>16 DEF FilesInv
<1>6. ASSUME NEW t \in Tasks, FinalizationCommits(t) PROVE FilesInv'
  <2> DEFINE i == task[t].id
             k == task[t].n
  <2>1. VersionEnded(t)
    BY <1>6, FinalizationWrites
  <2>2. /\ model' = model /\ disk' = disk /\ given' = given /\ recycled' = recycled
        /\ estranged' = estranged /\ task[t].op \in {"ready", "fail"}
    BY <1>6 DEF FinalizationCommits
  <2>3. task'[t].op = "idle" /\ \A u \in Tasks \ {t} : task'[u] = task[u]
    BY <1>0, <1>6, IdleRecord DEF FinalizationCommits, Becomes
  <2>4. \A j \in Models : (Clean(j)' <=> Clean(j)) /\ Versions(j)' = Versions(j)
    BY <2>1, <2>2 DEF VersionEnded, Clean, Exists
  <2>5. \A j \in Models : \A n \in Versions(j) : version'[j][n].by = version[j][n].by
    BY <1>6, ClientsKept
  <2>6. i \in Models /\ k \in Versions(i) /\ k \in Numbers
    BY <1>6, <2>1 DEF FinalizationCommits, VersionEnded
  <2>7. \A j \in Models : \A n \in Versions(j) : version'[j][n].status = "READY" =>
           version[j][n].status = "READY" \/ (j = i /\ n = k /\ task[t].op = "ready")
    BY <1>0, <1>6, <2>6 DEF FinalizationCommits, Versions, VersionRows
  <2>8. task[t].op = "ready" /\ Clean(i) =>
           /\ disk[model[i].dir][k] = {t} /\ version[i][k].by = t
           /\ \A u \in Tasks \ {t} : ~Handles(u, i, k)
    <3> SUFFICES ASSUME task[t].op = "ready", Clean(i)
                 PROVE  /\ disk[model[i].dir][k] = {t} /\ version[i][k].by = t
                        /\ \A u \in Tasks \ {t} : ~Handles(u, i, k)
      OBVIOUS
    <3>1. Handles(t, i, k)
      BY DEF Handles
    <3>2. InHand(t, i, k)
      BY <2>6, <3>1 DEF FilesInv, Handled
    <3>3. \A u \in Tasks \ {t} : ~Handles(u, i, k)
      BY <2>6, <3>1 DEF FilesInv, Alone
    <3> QED BY <2>6, <3>2, <3>3 DEF InHand
  <2>9. \A u \in Tasks, j \in Models, n \in Numbers : Handles(u, j, n)' =>
           u # t /\ Handles(u, j, n) /\ task'[u] = task[u]
    BY <2>3 DEF Handles, Between
  <2>10. Fresh' /\ Alone'
    BY <2>2, <2>4, <2>9 DEF FilesInv, Fresh, Alone
  <2>11. Handled'
    <3> SUFFICES ASSUME NEW u \in Tasks, NEW j \in Models, NEW n \in Numbers,
                        Handles(u, j, n)', Clean(j)
                 PROVE  InHand(u, j, n)'
      BY <2>4 DEF Handled
    <3>1. u # t /\ Handles(u, j, n) /\ task'[u] = task[u]
      BY <2>9
    <3>2. InHand(u, j, n)
      BY <3>1 DEF FilesInv, Handled
    <3>3. n \in Versions(j) /\ version'[j][n].status = "READY" => version[j][n].status = "READY"
      BY <2>7, <2>8, <3>1
    <3> QED BY <2>2, <2>4, <2>5, <3>1, <3>2, <3>3 DEF InHand
  <2>12. ReadyHasItsFiles'
    <3> SUFFICES ASSUME NEW j \in Models, NEW n \in Versions(j), Clean(j),
                        version'[j][n].status = "READY"
                 PROVE  disk[model[j].dir][n] = {version[j][n].by}
      BY <2>2, <2>4, <2>5 DEF ReadyHasItsFiles, Clean, Exists
    <3>1. CASE version[j][n].status = "READY"
      BY <3>1 DEF FilesInv, ReadyHasItsFiles, Clean, Versions
    <3>2. CASE j = i /\ n = k /\ task[t].op = "ready"
      BY <2>8, <3>2
    <3> QED BY <2>7, <3>1, <3>2
  <2> QED BY <2>10, <2>11, <2>12 DEF FilesInv
<1>7. ASSUME NEW t \in Tasks, Sweep(t) PROVE FilesInv'
  <2>1. /\ task[t].op = "sweep" /\ task[t].name \in Names
        /\ model' = model /\ version' = version
        /\ given' = given /\ recycled' = recycled /\ estranged' = estranged
    BY <1>0, <1>7 DEF Sweep, rows, histories, Carries
  <2>2. task'[t].op = "idle" /\ \A u \in Tasks \ {t} : task'[u] = task[u]
    BY <1>0, <1>7, IdleRecord DEF Sweep, Becomes
  <2>3. \A dir \in Names : dir # task[t].name => disk'[dir] = disk[dir]
    BY <1>0, <1>7 DEF Sweep
  <2>4. \A j \in Models : Clean(j) => model[j].dir \in Names /\ model[j].dir # task[t].name
    BY <1>0, <2>1 DEF DirectoryInv, Apart, Clean, Named, Exists
  <2>5. \A j \in Models : Clean(j)' <=> Clean(j)
    BY <2>1 DEF Clean, Exists
  <2> QED BY <2>1, <2>2, <2>3, <2>4, <2>5, FilesFrame DEF Handles, Versions, Between
<1>8. ASSUME NEW t \in Tasks, Upload(t) PROVE FilesInv'
  <2> DEFINE i == task[t].id
             k == task[t].n
  <2>1. /\ task[t].op = "created" /\ i \in Models /\ k \in Numbers
        /\ model' = model /\ version' = version
        /\ given' = given /\ recycled' = recycled /\ estranged' = estranged
    BY <1>0, <1>8 DEF Upload, rows, histories, Carries, Between
  <2>2. /\ task'[t].op = "uploaded" /\ task'[t].id = i /\ task'[t].n = k
        /\ \A u \in Tasks \ {t} : task'[u] = task[u]
    BY <1>0, <1>8 DEF Upload, Becomes, Doing
  <2>3. model[i].dir \in Names
    BY <1>0, <2>1 DEF Named, Carries, Between
  <2>4. \A dir \in Names, n \in Numbers :
           disk'[dir][n] = IF dir = model[i].dir /\ n = k THEN disk[dir][n] \cup {t}
                                                           ELSE disk[dir][n]
    BY <1>0, <1>8, <2>1, <2>3 DEF Upload
  <2>5. \A j \in Models : /\ Clean(j)' <=> Clean(j)
                          /\ Versions(j)' = Versions(j)
                          /\ Clean(j) => model[j].dir \in Names
    BY <1>0, <2>1 DEF Clean, Exists, Versions, Named
  <2>6. \A j \in Models : Clean(j) /\ j # i => model[j].dir # model[i].dir
    BY <2>1 DEF DirectoryInv, Apart, Writers, Clean
  <2>7. Handles(t, i, k) /\ \A u \in Tasks, j \in Models, n \in Numbers :
           Handles(u, j, n)' <=> Handles(u, j, n)
    BY <2>1, <2>2 DEF Handles, Between
  <2>8. Clean(i) => /\ disk[model[i].dir][k] = {} /\ k <= given[i]
                    /\ k \in Versions(i) => version[i][k].status # "READY"
                    /\ \A u \in Tasks \ {t} : ~Handles(u, i, k)
    BY <2>1, <2>7 DEF FilesInv, Handled, InHand, Alone
  <2>9. Fresh'
    <3> SUFFICES ASSUME NEW j \in Models, Clean(j), NEW n \in Numbers, n > given[j]
                 PROVE  disk'[model[j].dir][n] = {}
      BY <2>1, <2>5 DEF Fresh
    <3>1. disk[model[j].dir][n] = {}
      BY DEF FilesInv, Fresh
    <3>2. ~(model[j].dir = model[i].dir /\ n = k)
      <4>1. k \in Nat /\ given[j] \in Nat
        BY <1>0, <2>1, VersionsAssumption DEF Numbers
      <4> QED BY <2>6, <2>8, <4>1
    <3> QED BY <2>4, <2>5, <3>1, <3>2
  <2>10. Handled'
    <3> SUFFICES ASSUME NEW u \in Tasks, NEW j \in Models, NEW n \in Numbers,
                        Handles(u, j, n), Clean(j)
                 PROVE  InHand(u, j, n)'
      BY <2>5, <2>7 DEF Handled
    <3>1. InHand(u, j, n)
      BY DEF FilesInv, Handled
    <3>2. CASE u = t
      <4>1. j = i /\ n = k
        BY <3>2 DEF Handles
      <4>2. disk'[model[i].dir][k] = {t}
        BY <2>1, <2>3, <2>4, <2>8, <4>1
      <4> QED BY <2>1, <2>2, <2>5, <3>1, <3>2, <4>1, <4>2 DEF InHand
    <3>3. CASE u # t
      <4>1. ~(model[j].dir = model[i].dir /\ n = k)
        BY <2>6, <2>8, <3>3
      <4>2. disk'[model[j].dir][n] = disk[model[j].dir][n]
        BY <2>4, <2>5, <4>1
      <4> QED BY <2>1, <2>2, <2>5, <3>1, <3>3, <4>2 DEF InHand
    <3> QED BY <3>2, <3>3
  <2>11. Alone'
    BY <2>5, <2>7 DEF FilesInv, Alone
  <2>12. ReadyHasItsFiles'
    <3> SUFFICES ASSUME NEW j \in Models, NEW n \in Versions(j), Clean(j),
                        version[j][n].status = "READY"
                 PROVE  disk'[model[j].dir][n] = {version[j][n].by}
      BY <2>1, <2>5 DEF ReadyHasItsFiles, Clean, Exists
    <3>1. n \in Numbers /\ ~(model[j].dir = model[i].dir /\ n = k)
      BY <2>6, <2>8 DEF Versions
    <3>2. disk[model[j].dir][n] = {version[j][n].by}
      BY <3>1 DEF FilesInv, ReadyHasItsFiles, Clean
    <3> QED BY <2>4, <2>5, <3>1, <3>2
  <2> QED BY <2>9, <2>10, <2>11, <2>12 DEF FilesInv
<1>9. ASSUME NEW t \in Tasks, Fails(t) PROVE FilesInv'
  <2>1. /\ model' = model /\ version' = version /\ disk' = disk /\ given' = given
        /\ recycled' = recycled /\ estranged \subseteq estranged'
    BY <1>9 DEF Fails, rows
  <2>2. task'[t].op = "idle" /\ \A u \in Tasks \ {t} : task'[u] = task[u]
    BY <1>0, <1>9, IdleRecord DEF Fails, Becomes
  <2> QED BY <2>1, <2>2, FilesFrame DEF Clean, Exists, Versions, Handles, Between
<1>10. ASSUME NEW t \in Tasks, NEW id \in Models, delete_registered_model(t, id)
       PROVE FilesInv'
  <2>1. /\ model' = model /\ version' = version /\ disk' = disk /\ given' = given
        /\ recycled' = recycled /\ estranged' = estranged
    BY <1>10 DEF delete_registered_model, rows
  <2>2. task'[t].op = "delete" /\ \A u \in Tasks \ {t} : task'[u] = task[u]
    BY <1>0, <1>10 DEF delete_registered_model, Becomes, Doing
  <2> QED BY <2>1, <2>2, FilesFrame DEF Clean, Exists, Versions, Handles, Between
<1>11. ASSUME NEW t \in Tasks, NEW id \in Models, hard_delete_registered_model(t, id)
       PROVE FilesInv'
  <2>1. /\ ~Exists(id)' /\ disk' = disk /\ estranged \subseteq estranged'
        /\ \A j \in Models \ {id} : /\ model'[j] = model[j] /\ version'[j] = version[j]
                                    /\ given'[j] = given[j] /\ (j \in recycled' <=> j \in recycled)
    BY <1>0, <1>11 DEF hard_delete_registered_model, Exists
  <2>2. task'[t].op = "sweep" /\ \A u \in Tasks \ {t} : task'[u] = task[u] \/ task'[u].op = "idle"
    BY <1>11, IdleRecord DEF hard_delete_registered_model, Doing
  <2>3. \A j \in Models : Clean(j)' => j # id /\ Clean(j)
    BY <2>1 DEF Clean, Exists
  <2> QED BY <2>1, <2>2, <2>3, FilesFrame DEF Versions, Handles, Between
<1>12. ASSUME NEW t \in Tasks, NEW id \in Models, create_model_version(t, id)
       PROVE FilesInv'
  <2>1. /\ model' = model /\ version' = version /\ disk' = disk /\ given' = given
        /\ recycled' = recycled /\ estranged' = estranged
    BY <1>12 DEF create_model_version, rows, histories
  <2>2. task'[t].op = "create" /\ \A u \in Tasks \ {t} : task'[u] = task[u]
    BY <1>0, <1>12 DEF create_model_version, Becomes, Doing
  <2> QED BY <2>1, <2>2, FilesFrame DEF Clean, Exists, Versions, Handles, Between
<1>13. ASSUME NEW t \in Tasks, NEW id \in Models, NEW op \in {"ready", "fail"},
              finalize_model_version(t, id, op)
       PROVE FilesInv'
  <2>1. /\ model' = model /\ version' = version /\ disk' = disk /\ given' = given
        /\ recycled' = recycled /\ estranged \subseteq estranged'
        /\ task[t].op = IF op = "ready" THEN "uploaded" ELSE "created"
    BY <1>13 DEF finalize_model_version, rows
  <2>2. /\ task'[t].op = op /\ task'[t].id = id /\ task'[t].n = task[t].n
        /\ \A u \in Tasks \ {t} : task'[u] = task[u]
    BY <1>0, <1>13 DEF finalize_model_version, Becomes, Doing
  <2>3. Clean(id)' => id = task[t].id
    BY <1>13, <2>1 DEF finalize_model_version, Clean
  <2> QED BY <2>1, <2>2, <2>3, FilesFrame DEF Clean, Exists, Versions, Handles, Between
<1>14. CASE UNCHANGED vars
  BY <1>14, FilesFrame DEF vars, rows, histories, Clean, Exists, Versions, Handles
<1> QED BY <1>1, <1>2, <1>3, <1>4, <1>5, <1>6, <1>7, <1>8, <1>9, <1>10, <1>11, <1>12, <1>13,
           <1>14 DEF Next

\* In the beginning every directory is empty and nobody is at work.
LEMMA FilesInit == Init => DirectoryInv /\ Rowless /\ FilesInv
<1> SUFFICES ASSUME Init PROVE DirectoryInv /\ Rowless /\ FilesInv
  OBVIOUS
<1>1. \A t \in Tasks : task[t].op = "idle"
  BY IdleRecord DEF Init
<1>2. \A id \in Models : ~Exists(id) /\ Versions(id) = {}
  BY DEF Init, NoModel, Exists, Versions
<1>3. DirectoryInv
  BY <1>1, <1>2 DEF Init, DirectoryInv, Apart, Emptied, Writers
<1> QED BY <1>1, <1>2, <1>3
  DEF Rowless, FilesInv, Fresh, Handled, InHand, Alone, ReadyHasItsFiles, Clean, Handles, Between

\* A READY version has the files of the client it was created for, however versions and
\* models come and go, unless its model gave a number twice or its directory was shared.
THEOREM ReadyHasItsFilesAlways == Spec => []ReadyHasItsFiles
<1>1. TypeInv /\ CounterInv /\ DirectoryInv /\ Rowless /\ FilesInv /\ [Next]_vars
        => (DirectoryInv /\ Rowless /\ FilesInv)'
  BY DirectoryStep, RowlessStep, FilesStep
<1>2. FilesInv => ReadyHasItsFiles
  BY DEF FilesInv
<1> QED BY <1>1, <1>2, FilesInit, RegistryInvariant, PTL DEF Spec
================================================================================
