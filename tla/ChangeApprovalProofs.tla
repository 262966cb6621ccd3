------------------------ MODULE ChangeApprovalProofs ------------------------
(***************************************************************************)
(* Proofs about ChangeApproval, for every chain, every set of verdicts and *)
(* handlers, and every bound on calls and attempts.                        *)
(***************************************************************************)
EXTENDS ChangeApprovalProperties, FiniteSetTheorems, TLAPS

-----------------------------------------------------------------------------
(* The inductive invariants. *)

\* What TypeOK needs to be inductive: an attempt that records a decision has
\* one to record, and only an activity can have committed.
Recording ==
    /\ pc = "record" => taken # None
    /\ \A w \in late : w.at = "record" => w.verdict # None

Attempts ==
    /\ done => pc \in ActivityPcs /\ tries > 0
    /\ pc \in ActivityPcs /\ ~done => tries < MaxAttempts
    /\ pc \notin ActivityPcs => tries = 0

\* Where the loop variable stands.
LoopVariable ==
    /\ pc \in {"none", "analyze", "approving"} => idx = 1
    /\ pc \in {"await", "record"} => idx <= N
    /\ pc \in PastGate => idx = N + 1

TypeInv == TypeOK /\ Recording /\ Attempts /\ LoopVariable

\* The part of TypeInv that is about the workflow and its activities.
WorkflowInv ==
    /\ pc \in AllPcs
    /\ idx \in 1 .. N + 1
    /\ pending \in [Orders -> AllVerdicts \cup {None}]
    /\ cancelled \in BOOLEAN
    /\ taken \in AllVerdicts \cup {None}
    /\ result \in Results \cup {None}
    /\ tries \in 0 .. MaxAttempts
    /\ Recording /\ Attempts /\ LoopVariable

\* Every step the running workflow has left behind is on record, not rejected.
Consents ==
    Running => \A i \in 1 .. idx - 1 : i \in Orders /\ decision[i] # "REJECTED"

\* The step being recorded exists, and its decision is in the database before
\* the workflow goes on.
RecordedStep ==
    pc = "record" =>
        /\ idx \in Orders
        /\ done => decision[idx] = taken

NothingLate == late = {}

ConsentInv == TypeInv /\ Consents /\ RecordedStep /\ NothingLate
-----------------------------------------------------------------------------
(* Lemmas. *)

\* The length of a finite chain is a natural number.
LEMMA NIsNat == N \in Nat
  BY OrdersAssumption, FS_CardinalityType DEF N

\* A closed run, or none, waits for nothing and is not past the gate.
LEMMA ClosedPc ==
  "closed" \in AllPcs /\ "closed" \notin ActivityPcs /\ "closed" \notin PastGate
  BY DEF AllPcs, LivePcs, ActivityPcs, StatusPcs, NotifyPcs, PastGate, TimerPcs

\* What a transaction writes keeps the types of the database.
LEMMA CommitType ==
  ASSUME TypeOK, NEW w \in Writes, w.at = "record" => w.verdict # None, Commit(w)
  PROVE  /\ status' \in Statuses
         /\ decision' \in [Orders -> AllVerdicts]
         /\ schema' \in {"old", "new"}
         /\ notices' \subseteq Stages
         /\ linked' \in BOOLEAN
  <1>1. StatusWritten(w.at) \in Statuses
    BY DEF StatusWritten, Statuses, TypeOK
  <1>2. StageOf(w.at) \subseteq Stages
    BY DEF StageOf, Stages
  <1>3. w.verdict \in AllVerdicts \cup {None}
    BY DEF Writes
  <1> QED
    BY <1>1, <1>2, <1>3 DEF Commit, DecisionWritten, SchemaWritten, TypeOK, AllVerdicts, None

\* The workflow's variables after a run has been closed.
LEMMA CloseInv ==
  ASSUME TypeInv, NEW r \in Results, Close(r), done' = FALSE, tries' = 0,
         \A w \in late' : w.at = "record" => w.verdict # None
  PROVE  WorkflowInv'
  <1> USE NIsNat, BoundsAssumption
  <1>1. /\ pc' = "closed" /\ idx' = idx /\ result' = r /\ taken' = None
        /\ cancelled' = FALSE /\ pending' = [o \in Orders |-> None]
    BY DEF Close
  <1>2. Recording'
    BY <1>1 DEF Recording
  <1>3. Attempts'
    BY <1>1, ClosedPc DEF Attempts
  <1>4. LoopVariable'
    BY <1>1, ClosedPc DEF LoopVariable
  <1>5. pending' \in [Orders -> AllVerdicts \cup {None}]
    BY <1>1
  <1>6. idx' \in 1 .. N + 1
    BY <1>1 DEF TypeInv, TypeOK
  <1>7. cancelled' \in BOOLEAN /\ taken' \in AllVerdicts \cup {None}
    BY <1>1
  <1>8. result' \in Results \cup {None} /\ pc' \in AllPcs
    BY <1>1, ClosedPc
  <1>9. tries' \in 0 .. MaxAttempts
    OBVIOUS
  <1> QED
    BY <1>2, <1>3, <1>4, <1>5, <1>6, <1>7, <1>8, <1>9 DEF WorkflowInv

\* ... after an attempt has been given up.
LEMMA AbandonInv ==
  ASSUME TypeInv, NEW t \in 1 .. MaxAttempts, pc \in ActivityPcs, AbandonAttempt(t),
         done' = FALSE, \A w \in late' : w.at = "record" => w.verdict # None
  PROVE  WorkflowInv'
  <1> USE NIsNat, BoundsAssumption
  <1>1. CASE t < MaxAttempts /\ tries' = t
             /\ UNCHANGED <<pc, idx, pending, cancelled, taken, result>>
    BY <1>1 DEF TypeInv, TypeOK, WorkflowInv, Recording, Attempts, LoopVariable
  <1>2. CASE tries' = 0 /\ Close("FAILED")
    BY <1>2, CloseInv DEF Results
  <1> QED
    BY <1>1, <1>2 DEF AbandonAttempt

\* ... after run() has moved to another point of its loop or past it.
LEMMA GotoInv ==
  ASSUME TypeInv, NEW p \in AllPcs \ {"none", "analyze", "record"}, NEW i \in 1 .. N + 1,
         p = "approving" => i = 1, p = "await" => i <= N, p \in PastGate => i = N + 1,
         Goto(p, i), done' = FALSE, tries' = 0,
         \A w \in late' : w.at = "record" => w.verdict # None
  PROVE  WorkflowInv'
  BY NIsNat, BoundsAssumption
  DEF TypeInv, TypeOK, WorkflowInv, Recording, Attempts, LoopVariable, Goto

\* ... after run() has resumed with the result of an activity.
LEMMA ResumeInv ==
  ASSUME TypeInv, Resume, done' = FALSE, tries' = 0, late' = late
  PROVE  WorkflowInv'
  <1> USE NIsNat DEF AllPcs, LivePcs, ActivityPcs, StatusPcs, NotifyPcs, TimerPcs, PastGate
  <1>1. /\ idx \in 1 .. N + 1
        /\ \A w \in late' : w.at = "record" => w.verdict # None
    BY DEF TypeInv, TypeOK, Recording
  <1>2. CASE pc = "analyze" /\ Goto("approving", idx)
    BY <1>1, <1>2, GotoInv DEF TypeInv, LoopVariable
  <1>3. CASE pc = "approving" /\ Goto(LoopAt(1), 1)
    <2>0. 1 \in 1 .. N + 1
      OBVIOUS
    <2>1. CASE 1 <= N
      <3>1. Goto("await", 1)
        BY <1>3, <2>1 DEF LoopAt
      <3> QED
        BY <1>1, <2>0, <2>1, <3>1, GotoInv
    <2>2. CASE N = 0
      <3>1. Goto("approved", 1) /\ N + 1 = 1
        BY <1>3, <2>2 DEF LoopAt
      <3>2. "approved" \in AllPcs \ {"none", "analyze", "record"}
        OBVIOUS
      <3> QED
        BY <1>1, <2>0, <3>1, <3>2, GotoInv
    <2> QED
      BY <2>1, <2>2
  <1>4. CASE pc = "record" /\ Goto("rejected", idx)
    BY <1>1, <1>4, GotoInv
  <1>5. CASE pc = "record" /\ Goto(LoopAt(idx + 1), idx + 1)
    <2>1. idx + 1 \in 1 .. N + 1
      BY <1>1, <1>5 DEF TypeInv, LoopVariable
    <2>2. CASE idx + 1 <= N
      BY <1>1, <2>1, <1>5, <2>2, GotoInv DEF LoopAt
    <2>3. CASE ~(idx + 1 <= N)
      <3>1. idx + 1 = N + 1 /\ LoopAt(idx + 1) = "approved"
        BY <2>1, <2>3 DEF LoopAt
      <3> QED
        BY <1>1, <2>1, <1>5, <3>1, GotoInv
    <2> QED
      BY <2>2, <2>3
  <1>6. CASE pc = "approved" /\ \E p \in {"sleep7", "apply"} : Goto(p, idx)
    BY <1>1, <1>6, GotoInv DEF TypeInv, LoopVariable
  <1>7. CASE \/ pc = "notify7" /\ Goto("sleep1", idx)
             \/ pc = "notify1" /\ Goto("sleepUntil", idx)
             \/ pc = "apply" /\ Goto("notifyApplied", idx)
    BY <1>1, <1>7, GotoInv DEF TypeInv, LoopVariable
  <1>8. CASE \E r \in Results : Close(r)
    BY <1>1, <1>8, CloseInv
  <1> QED
    BY <1>2, <1>3, <1>4, <1>5, <1>6, <1>7, <1>8 DEF Resume, AfterRecord, Results

\* The write of the current attempt has the form of a write.
LEMMA CurrentWriteType ==
  ASSUME TypeInv, pc \in ActivityPcs
  PROVE  /\ CurrentWrite \in Writes
         /\ CurrentWrite.at = "record" => CurrentWrite.verdict # None
  BY NIsNat DEF TypeInv, TypeOK, Recording, CurrentWrite, Writes

-----------------------------------------------------------------------------
(* Type correctness. *)

\* A draft without a workflow satisfies the type invariant.
LEMMA TypeInvInit == Init => TypeInv
  <1> SUFFICES ASSUME Init PROVE TypeInv
    OBVIOUS
  <1> USE NIsNat, BoundsAssumption DEF Init
  <1>1. TypeOK
    <2>1. /\ decision \in [Orders -> AllVerdicts]
          /\ pending \in [Orders -> AllVerdicts \cup {None}]
          /\ submit \in [Handlers -> {"idle", "checked", "started"}]
      BY DEF AllVerdicts
    <2>2. status \in Statuses /\ pc \in AllPcs
      BY DEF Statuses, AllPcs
    <2>3. idx \in 1 .. N + 1 /\ tries \in 0 .. MaxAttempts
      OBVIOUS
    <2> QED
      BY <2>1, <2>2, <2>3 DEF TypeOK
  <1>2. Recording /\ Attempts
    BY DEF Recording, Attempts, ActivityPcs, StatusPcs, NotifyPcs
  <1>3. LoopVariable
    BY DEF LoopVariable, PastGate, TimerPcs, NotifyPcs
  <1> QED
    BY <1>1, <1>2, <1>3 DEF TypeInv

\* The handlers of the API server.
LEMMA TypeInvApi ==
  ASSUME TypeInv,
         \/ \E h \in Handlers :
               \/ SubmitCheck(h) \/ SubmitStart(h) \/ SubmitRefused(h)
               \/ SubmitCommit(h) \/ SubmitCrash(h)
         \/ \E v \in Verdicts : DecideRead(v)
         \/ \E c \in Calls : DecideSend(c)
         \/ Cancel
  PROVE  TypeInv'
  <1> USE NIsNat, BoundsAssumption
        DEF TypeInv, TypeOK, Recording, Attempts, LoopVariable, database, api, workflow, world
  <1>1. ASSUME NEW h \in Handlers,
               SubmitCheck(h) \/ SubmitRefused(h) \/ SubmitCrash(h)
        PROVE  TypeInv'
    BY <1>1 DEF SubmitCheck, SubmitRefused, SubmitCrash
  <1>2. ASSUME NEW h \in Handlers, SubmitStart(h) PROVE TypeInv'
    <2>1. pc \notin ActivityPcs /\ pc # "record"
      BY <1>2 DEF SubmitStart, Running, LivePcs, ActivityPcs
    <2>2. "analyze" \in AllPcs /\ "analyze" \in ActivityPcs /\ "analyze" \notin PastGate
      BY DEF AllPcs, LivePcs, ActivityPcs, PastGate, TimerPcs, NotifyPcs
    <2> QED
      BY <1>2, <2>1, <2>2 DEF SubmitStart
  <1>3. ASSUME NEW h \in Handlers, SubmitCommit(h) PROVE TypeInv'
    BY <1>3 DEF SubmitCommit, Statuses
  <1>4. ASSUME NEW v \in Verdicts, DecideRead(v) PROVE TypeInv'
    BY <1>4 DEF DecideRead, Calls, IsCurrentStep, PendingSteps
  <1>5. ASSUME NEW c \in Calls, DecideSend(c) PROVE TypeInv'
    <2>1. pending' \in [Orders -> AllVerdicts \cup {None}]
      BY <1>5, VerdictsAssumption DEF DecideSend, Calls, AllVerdicts
    <2> QED
      BY <1>5, <2>1 DEF DecideSend
  <1>6. CASE Cancel
    BY <1>6 DEF Cancel
  <1> QED
    BY <1>1, <1>2, <1>3, <1>4, <1>5, <1>6

\* The activities and the workflow.
LEMMA TypeInvWorkflow ==
  ASSUME TypeInv, (\E w \in late : LateCommit(w)) \/ WorkflowStep
  PROVE  TypeInv'
  <1> USE NIsNat, BoundsAssumption
  <1>1. ASSUME NEW w \in late, LateCommit(w) PROVE TypeInv'
    <2>1. w \in Writes /\ (w.at = "record" => w.verdict # None)
      BY DEF TypeInv, TypeOK, Recording
    <2> QED
      BY <1>1, <2>1, CommitType
      DEF LateCommit, TypeInv, TypeOK, Recording, Attempts, LoopVariable, api, workflow
  <1>2. CASE ActivityCommits
    BY <1>2, CommitType, CurrentWriteType
    DEF ActivityCommits, Attempting, TypeInv, TypeOK, Recording, Attempts, LoopVariable, api
  <1>3. CASE ActivityFails
    <2>0. /\ tries + 1 \in 1 .. MaxAttempts
          /\ done' = FALSE
          /\ \A w \in late' : w.at = "record" => w.verdict # None
      BY <1>3 DEF ActivityFails, Attempting, TypeInv, TypeOK, Recording, Attempts
    <2>1. WorkflowInv'
      BY <1>3, <2>0, AbandonInv DEF ActivityFails, Attempting
    <2>2. notices' \subseteq Stages
      BY <1>3 DEF ActivityFails, StageOf, Stages, TypeInv, TypeOK
    <2> QED
      BY <1>3, <2>1, <2>2
      DEF ActivityFails, WorkflowInv, TypeInv, TypeOK, database, api
  <1>4. CASE ResultLost
    <2>0. /\ tries \in 1 .. MaxAttempts
          /\ pc \in ActivityPcs
          /\ \A w \in late' : w.at = "record" => w.verdict # None
      BY <1>4 DEF ResultLost, TypeInv, TypeOK, Recording, Attempts, world
    <2>1. WorkflowInv'
      BY <1>4, <2>0, AbandonInv DEF ResultLost
    <2> QED
      BY <1>4, <2>1 DEF ResultLost, WorkflowInv, TypeInv, TypeOK, database, api, world
  <1>5. CASE ActivityTimesOut
    <2>1. late' \subseteq Writes /\ \A w \in late' : w.at = "record" => w.verdict # None
      BY <1>5, CurrentWriteType
      DEF ActivityTimesOut, Attempting, TypeInv, TypeOK, Recording
    <2>0. tries + 1 \in 1 .. MaxAttempts /\ done' = FALSE
      BY <1>5 DEF ActivityTimesOut, Attempting, TypeInv, TypeOK, Attempts
    <2>2. WorkflowInv'
      BY <1>5, <2>0, <2>1, AbandonInv DEF ActivityTimesOut, Attempting
    <2> QED
      BY <1>5, <2>1, <2>2
      DEF ActivityTimesOut, WorkflowInv, TypeInv, TypeOK, database, api
  <1>6. CASE ActivityCompletes
    <2>1. WorkflowInv'
      BY <1>6, ResumeInv DEF ActivityCompletes, world
    <2> QED
      BY <1>6, <2>1
      DEF ActivityCompletes, WorkflowInv, TypeInv, TypeOK, database, api, world
  <1>7. CASE TakeDecision
    <2>1. /\ "record" \in AllPcs /\ "record" \in ActivityPcs /\ "record" \notin PastGate
          /\ "await" \notin ActivityPcs
      BY DEF AllPcs, LivePcs, ActivityPcs, StatusPcs, NotifyPcs, PastGate, TimerPcs
    <2>2. pending[idx] \in AllVerdicts \cup {None} /\ pending[idx] # None
      BY <1>7 DEF TakeDecision, Decided, TypeInv, TypeOK
    <2>3. Recording' /\ Attempts' /\ LoopVariable'
      BY <1>7, <2>1, <2>2
      DEF TakeDecision, TypeInv, TypeOK, Recording, Attempts, LoopVariable, world
    <2>4. pending' \in [Orders -> AllVerdicts \cup {None}]
      BY <1>7 DEF TakeDecision, TypeInv, TypeOK
    <2> QED
      BY <1>7, <2>1, <2>2, <2>3, <2>4
      DEF TakeDecision, TypeInv, TypeOK, database, api, world
  <1>8. CASE SeeCancel \/ StepTimesOut
    <2>1. /\ {"cancelled", "timedout"} \subseteq AllPcs \cap ActivityPcs
          /\ "await" \notin ActivityPcs
          /\ "cancelled" \notin PastGate /\ "timedout" \notin PastGate
      BY DEF AllPcs, LivePcs, ActivityPcs, StatusPcs, NotifyPcs, PastGate, TimerPcs
    <2> QED
      BY <1>8, <2>1
      DEF SeeCancel, StepTimesOut, Goto, TypeInv, TypeOK, Recording, Attempts, LoopVariable,
          database, api, world
  <1>9. CASE TimerFires
    <2>1. /\ {"notify7", "notify1", "apply"} \subseteq AllPcs \cap ActivityPcs \cap PastGate
          /\ TimerPcs \subseteq PastGate
          /\ TimerPcs \cap ActivityPcs = {}
      BY DEF AllPcs, LivePcs, ActivityPcs, StatusPcs, NotifyPcs, PastGate, TimerPcs
    <2> QED
      BY <1>9, <2>1
      DEF TimerFires, Goto, TypeInv, TypeOK, Recording, Attempts, LoopVariable, TimerPcs,
          database, api, world
  <1> QED
    BY <1>1, <1>2, <1>3, <1>4, <1>5, <1>6, <1>7, <1>8, <1>9 DEF WorkflowStep

\* No step of a handler, an activity or the workflow breaks the type invariant.
LEMMA TypeInvNext == TypeInv /\ [Next]_vars => TypeInv'
  <1> SUFFICES ASSUME TypeInv, [Next]_vars PROVE TypeInv'
    OBVIOUS
  <1>1. CASE Next
    BY <1>1, TypeInvApi, TypeInvWorkflow DEF Next
  <1>2. CASE UNCHANGED vars
    BY <1>2
    DEF vars, database, api, workflow, world, TypeInv, TypeOK, Recording, Attempts, LoopVariable
  <1> QED
    BY <1>1, <1>2

\* Every variable keeps its type, in every behaviour of the system.
THEOREM TypeCorrect == Spec => []TypeOK
  <1>1. Spec => []TypeInv
    BY TypeInvInit, TypeInvNext, PTL DEF Spec
  <1>2. TypeInv => TypeOK
    BY DEF TypeInv
  <1> QED
    BY <1>1, <1>2, PTL
-----------------------------------------------------------------------------
(* The gate: what a run past its approval loop has obtained. *)

\* Before the first run nothing has been passed and nothing is late.
LEMMA ConsentInvInit == Init => Consents /\ RecordedStep /\ NothingLate
  BY DEF Init, Consents, RecordedStep, NothingLate, Running, LivePcs, ActivityPcs,
         StatusPcs, NotifyPcs, TimerPcs

\* When no attempt may outlive its timeout, none ever does.
LEMMA NothingLateNext ==
  ASSUME MaxLate = 0, NothingLate, [Next]_vars
  PROVE  NothingLate'
  <1>1. Cardinality(late) = 0
    BY FS_EmptySet DEF NothingLate
  <1> QED
    BY <1>1
    DEF NothingLate, Next, vars, world, database, api, workflow, WorkflowStep,
        SubmitCheck, SubmitStart, SubmitRefused, SubmitCommit, SubmitCrash,
        DecideRead, DecideSend, Cancel, LateCommit, ActivityCommits, ActivityFails,
        ResultLost, ActivityTimesOut, ActivityCompletes, TakeDecision, SeeCancel,
        StepTimesOut, TimerFires

\* Steps that leave the decisions alone and move the workflow nowhere.
LEMMA ConsentsFrame ==
  ASSUME Consents, RecordedStep, UNCHANGED <<decision, pc, idx, taken, done>>
  PROVE  Consents' /\ RecordedStep'
  BY DEF Consents, RecordedStep, Running

\* Steps after which no run is open.
LEMMA ConsentsClosed ==
  ASSUME pc' = "closed"
  PROVE  Consents' /\ RecordedStep'
  BY DEF Consents, RecordedStep, Running, LivePcs, ActivityPcs, StatusPcs, NotifyPcs, TimerPcs

\* Steps of a run that stays where it is or goes on, other than past a step.
LEMMA ConsentsStay ==
  ASSUME Consents, Running, UNCHANGED <<decision, idx>>, pc' # "record"
  PROVE  Consents' /\ RecordedStep'
  BY DEF Consents, RecordedStep

\* Giving up an attempt leaves the run where it is, or ends it.
LEMMA ConsentsAbandon ==
  ASSUME Consents, RecordedStep, NEW t, AbandonAttempt(t), UNCHANGED decision, ~done'
  PROVE  Consents' /\ RecordedStep'
  <1>1. CASE UNCHANGED <<pc, idx, pending, cancelled, taken, result>>
    BY <1>1 DEF Consents, RecordedStep, Running
  <1>2. CASE Close("FAILED")
    BY <1>2, ConsentsClosed DEF Close
  <1> QED
    BY <1>1, <1>2 DEF AbandonAttempt

\* run() goes past a step only when that step's decision is on record and is not
\* a rejection.
LEMMA ConsentsResume ==
  ASSUME TypeInv, Consents, RecordedStep, done, Resume, UNCHANGED decision
  PROVE  Consents' /\ RecordedStep'
  <1> USE NIsNat
  <1>1. Running
    BY DEF TypeInv, Attempts, Running, LivePcs
  <1>2. idx \in 1 .. N + 1
    BY DEF TypeInv, TypeOK
  <1>3. ASSUME NEW p, p # "record", Goto(p, idx) PROVE Consents' /\ RecordedStep'
    BY <1>1, <1>3, ConsentsStay DEF Goto
  <1>4. CASE pc = "approving" /\ Goto(LoopAt(1), 1)
    <2>1. pc' # "record" /\ idx' = idx
      BY <1>4 DEF Goto, LoopAt, TypeInv, LoopVariable
    <2> QED
      BY <1>1, <2>1, ConsentsStay
  <1>5. CASE pc = "record" /\ taken # "REJECTED" /\ Goto(LoopAt(idx + 1), idx + 1)
    <2>1. pc' # "record" /\ idx' = idx + 1
      BY <1>5 DEF Goto, LoopAt
    <2>2. idx \in Orders /\ decision[idx] # "REJECTED"
      BY <1>5 DEF RecordedStep
    <2>3. ASSUME NEW i \in 1 .. idx' - 1 PROVE i \in Orders /\ decision'[i] # "REJECTED"
      <3>1. CASE i = idx
        BY <2>2, <3>1
      <3>2. CASE i \in 1 .. idx - 1
        BY <1>1, <3>2 DEF Consents
      <3> QED
        BY <1>2, <2>1, <3>1, <3>2
    <2> QED
      BY <2>1, <2>3 DEF Consents, RecordedStep
  <1>6. CASE \E r \in Results : Close(r)
    BY <1>6, ConsentsClosed DEF Close
  <1> QED
    BY <1>3, <1>4, <1>5, <1>6 DEF Resume, AfterRecord, Results

\* No step of anybody takes a passed step's consent out of the database.
LEMMA ConsentsNext ==
  ASSUME TypeInv, Consents, RecordedStep, NothingLate, [Next]_vars
  PROVE  Consents' /\ RecordedStep'
  <1> USE DEF database, api, workflow, world
  <1>1. ASSUME NEW h \in Handlers, SubmitStart(h) PROVE Consents' /\ RecordedStep'
    BY <1>1 DEF SubmitStart, Consents, RecordedStep
  <1>2. ASSUME NEW h \in Handlers,
               SubmitCheck(h) \/ SubmitRefused(h) \/ SubmitCommit(h) \/ SubmitCrash(h)
        PROVE  Consents' /\ RecordedStep'
    BY <1>2, ConsentsFrame DEF SubmitCheck, SubmitRefused, SubmitCommit, SubmitCrash
  <1>3. CASE (\E v \in Verdicts : DecideRead(v)) \/ (\E c \in Calls : DecideSend(c)) \/ Cancel
    BY <1>3, ConsentsFrame DEF DecideRead, DecideSend, Cancel
  <1>4. CASE ActivityCommits
    <2>1. CASE pc = "record"
      <3>1. idx \in Orders /\ decision' = [decision EXCEPT ![idx] = taken]
        BY <1>4, <2>1
          DEF RecordedStep, ActivityCommits, Commit, DecisionWritten, SchemaWritten, CurrentWrite
      <3>2. /\ UNCHANGED <<pc, idx, taken>>
            /\ decision \in [Orders -> AllVerdicts]
            /\ idx \in Nat
        BY <1>4, NIsNat DEF ActivityCommits, TypeInv, TypeOK
      <3> QED
        BY <2>1, <3>1, <3>2 DEF Consents, RecordedStep, Running
    <2>2. CASE pc # "record"
      BY <1>4, <2>2
      DEF ActivityCommits, Commit, DecisionWritten, SchemaWritten, CurrentWrite, Consents,
          RecordedStep, Running
    <2> QED
      BY <2>1, <2>2
  <1>5. CASE ActivityFails \/ ResultLost \/ ActivityTimesOut
    BY <1>5, ConsentsAbandon DEF ActivityFails, ResultLost, ActivityTimesOut, Attempting
  <1>6. CASE ActivityCompletes
    BY <1>6, ConsentsResume DEF ActivityCompletes
  <1>7. CASE TakeDecision
    <2>1. ~done
      BY <1>7 DEF TakeDecision, TypeInv, Attempts, ActivityPcs, StatusPcs, NotifyPcs
    <2>2. Running
      BY <1>7 DEF TakeDecision, Running, LivePcs
    <2> QED
      BY <1>7, <2>1, <2>2 DEF TakeDecision, Decided, Consents, RecordedStep
  <1>8. CASE SeeCancel \/ StepTimesOut \/ TimerFires
    <2>1. Running /\ pc' # "record" /\ UNCHANGED <<decision, idx>>
      BY <1>8 DEF SeeCancel, StepTimesOut, TimerFires, Goto, Running, LivePcs, TimerPcs
    <2> QED
      BY <2>1, ConsentsStay
  <1>9. CASE UNCHANGED vars
    BY <1>9, ConsentsFrame DEF vars
  <1> QED
    BY <1>1, <1>2, <1>3, <1>4, <1>5, <1>6, <1>7, <1>8, <1>9
    DEF Next, WorkflowStep, NothingLate, LateCommit

\* The consent invariant is inductive as long as no attempt is late.
LEMMA ConsentInvNext ==
  ASSUME MaxLate = 0
  PROVE  ConsentInv /\ [Next]_vars => ConsentInv'
  BY TypeInvNext, NothingLateNext, ConsentsNext DEF ConsentInv

\* It holds of every reachable state.
LEMMA ConsentInvAlways ==
  ASSUME MaxLate = 0
  PROVE  Spec => []ConsentInv
  <1>1. Init => ConsentInv
    BY TypeInvInit, ConsentInvInit DEF ConsentInv
  <1> QED
    BY <1>1, ConsentInvNext, PTL DEF Spec

\* As long as no attempt outlives its timeout: whatever chain was drawn up,
\* whoever submits, decides, cancels or crashes when, a run past its approval
\* loop has a step on record for every place of the chain and no rejection.
THEOREM GateHasConsent ==
  ASSUME MaxLate = 0
  PROVE  Spec => []ConsentPastGate
  <1>1. ConsentInv => ConsentPastGate
    <2> SUFFICES ASSUME ConsentInv, pc \in PastGate, NEW i \in 1 .. N
                 PROVE  i \in Orders /\ decision[i] # "REJECTED"
      BY DEF ConsentPastGate
    <2>1. Running /\ idx = N + 1
      BY DEF ConsentInv, TypeInv, LoopVariable, Running, LivePcs, ActivityPcs, StatusPcs, PastGate
    <2>2. i \in 1 .. idx - 1
      BY <2>1, NIsNat
    <2> QED
      BY <2>1, <2>2 DEF ConsentInv, Consents
  <1> QED
    BY <1>1, ConsentInvAlways, PTL
-----------------------------------------------------------------------------
(* Refinement: every step of the system is a step of the gate, or none. *)

\* Where a run is, as the gate sees it.
LEMMA PhaseOf ==
  ASSUME TypeOK
  PROVE  /\ pc = "none" <=> Phase = "idle"
         /\ pc = "closed" <=> Phase = "shut"
         /\ pc \in PastGate <=> Phase = "open"
         /\ Running /\ pc \notin PastGate <=> Phase = "review"
  BY DEF Phase, TypeOK, AllPcs, Running, LivePcs, ActivityPcs, StatusPcs, NotifyPcs,
         TimerPcs, PastGate

\* A step that leaves the run and the schema alone is none of the gate's.
LEMMA PhaseStutter ==
  ASSUME UNCHANGED <<pc, idx, schema>>
  PROVE  UNCHANGED Gate!gateVars
  BY DEF Gate!gateVars, Phase

\* The end of a run shuts the gate, wherever the run was.
LEMMA PhaseClose ==
  ASSUME TypeInv, Running, Close("FAILED") \/ (\E r \in Results : Close(r)), UNCHANGED schema
  PROVE  Gate!Shut
  <1>1. pc' = "closed" /\ idx' = idx
    BY DEF Close
  <1>2. Phase \in {"review", "open"}
    BY DEF Phase, Running, LivePcs, ActivityPcs, StatusPcs, NotifyPcs, TimerPcs
  <1> QED
    BY <1>1, <1>2 DEF Gate!Shut, Phase

\* Giving up an attempt is no step of the gate, or shuts it.
LEMMA PhaseAbandon ==
  ASSUME TypeInv, Running, NEW t, AbandonAttempt(t), UNCHANGED schema
  PROVE  [Gate!Next]_Gate!gateVars
  <1>1. CASE UNCHANGED <<pc, idx, pending, cancelled, taken, result>>
    BY <1>1, PhaseStutter
  <1>2. CASE Close("FAILED")
    BY <1>2, PhaseClose DEF Gate!Next
  <1> QED
    BY <1>1, <1>2 DEF AbandonAttempt

\* run() passes a step, opens the gate, or ends.
LEMMA PhaseResume ==
  ASSUME TypeInv, Running, Resume, UNCHANGED schema
  PROVE  [Gate!Next]_Gate!gateVars
  <1> USE NIsNat
  <1>1. idx \in 1 .. N + 1
    BY DEF TypeInv, TypeOK
  <1>2. CASE pc = "analyze" /\ Goto("approving", idx)
    BY <1>2 DEF Gate!gateVars, Phase, Goto, PastGate, TimerPcs, NotifyPcs
  <1>3. CASE pc = "approving" /\ Goto(LoopAt(1), 1)
    <2>1. idx = 1 /\ idx' = 1 /\ pc' = LoopAt(1) /\ Phase = "review"
      BY <1>3 DEF Goto, TypeInv, LoopVariable, Phase, PastGate, TimerPcs, NotifyPcs
    <2>2. CASE 1 <= N
      BY <2>1, <2>2 DEF LoopAt, Gate!gateVars, Phase, PastGate, TimerPcs, NotifyPcs
    <2>3. CASE N = 0
      <3>1. Phase' = "open"
        BY <2>1, <2>3 DEF LoopAt, Phase, PastGate
      <3> QED
        BY <2>1, <2>3, <3>1 DEF Gate!OpenEmpty, Gate!Next
    <2> QED
      BY <2>2, <2>3
  <1>4. CASE pc = "record" /\ Goto("rejected", idx)
    BY <1>4 DEF Gate!gateVars, Phase, Goto, PastGate, TimerPcs, NotifyPcs
  <1>5. CASE pc = "record" /\ Goto(LoopAt(idx + 1), idx + 1)
    <2>1. idx <= N /\ idx' = idx + 1 /\ pc' = LoopAt(idx + 1) /\ Phase = "review"
      BY <1>5 DEF Goto, TypeInv, LoopVariable, Phase, PastGate, TimerPcs, NotifyPcs
    <2>2. CASE idx + 1 <= N
      <3>1. Phase' = "review"
        BY <2>1, <2>2 DEF LoopAt, Phase, PastGate, TimerPcs, NotifyPcs
      <3> QED
        BY <1>1, <2>1, <2>2, <3>1 DEF Gate!Pass, Gate!Next
    <2>3. CASE ~(idx + 1 <= N)
      <3>1. Phase' = "open" /\ idx = N
        BY <1>1, <2>1, <2>3 DEF LoopAt, Phase, PastGate
      <3> QED
        BY <1>1, <2>1, <3>1 DEF Gate!PassLast, Gate!Next
    <2> QED
      BY <2>2, <2>3
  <1>6. CASE \/ pc = "approved" /\ \E p \in {"sleep7", "apply"} : Goto(p, idx)
             \/ pc = "notify7" /\ Goto("sleep1", idx)
             \/ pc = "notify1" /\ Goto("sleepUntil", idx)
             \/ pc = "apply" /\ Goto("notifyApplied", idx)
    BY <1>6 DEF Gate!gateVars, Phase, Goto, PastGate, TimerPcs, NotifyPcs
  <1>7. CASE \E r \in Results : Close(r)
    BY <1>7, PhaseClose DEF Gate!Next
  <1> QED
    BY <1>2, <1>3, <1>4, <1>5, <1>6, <1>7 DEF Resume, AfterRecord, Results

\* Every step of handlers, activities and workflow is a step of the gate or none,
\* but for the attempts that outlived their timeouts.
LEMMA StepOfGate ==
  ASSUME TypeInv, [Next]_vars
  PROVE  [Gate!Next]_Gate!gateVars \/ \E w \in late : LateCommit(w)
  <1> USE DEF database, api, workflow, world
  <1>1. ASSUME NEW h \in Handlers, SubmitStart(h) PROVE Gate!Begin
    <2>1. pc \in {"none", "closed"}
      BY <1>1 DEF SubmitStart, Running, TypeInv, TypeOK, AllPcs
    <2>2. pc' = "analyze" /\ idx' = 1 /\ schema' = schema
      BY <1>1 DEF SubmitStart
    <2> QED
      BY <2>1, <2>2 DEF Gate!Begin, Phase, PastGate, TimerPcs, NotifyPcs
  <1>2. ASSUME NEW h \in Handlers,
               SubmitCheck(h) \/ SubmitRefused(h) \/ SubmitCommit(h) \/ SubmitCrash(h)
        PROVE  UNCHANGED Gate!gateVars
    BY <1>2, PhaseStutter DEF SubmitCheck, SubmitRefused, SubmitCommit, SubmitCrash
  <1>3. CASE (\E v \in Verdicts : DecideRead(v)) \/ (\E c \in Calls : DecideSend(c)) \/ Cancel
    BY <1>3, PhaseStutter DEF DecideRead, DecideSend, Cancel
  <1>4. CASE ActivityCommits
    <2>1. CASE pc = "apply"
      <3>1. schema' = "new" /\ UNCHANGED <<pc, idx>>
        BY <1>4, <2>1 DEF ActivityCommits, Commit, DecisionWritten, SchemaWritten, CurrentWrite
      <3>2. Phase = "open" /\ Phase' = Phase /\ idx = N + 1
        BY <2>1, <3>1 DEF Phase, PastGate, TypeInv, LoopVariable
      <3> QED
        BY <3>1, <3>2, NIsNat DEF Gate!Change, Gate!Next
    <2>2. CASE pc # "apply"
      BY <1>4, <2>2, PhaseStutter
      DEF ActivityCommits, Commit, DecisionWritten, SchemaWritten, CurrentWrite
    <2> QED
      BY <2>1, <2>2
  <1>5. CASE ActivityFails \/ ActivityTimesOut
    BY <1>5, PhaseAbandon
    DEF ActivityFails, ActivityTimesOut, Attempting, Running, LivePcs
  <1>6. CASE ResultLost
    <2>1. Running
      BY <1>6 DEF ResultLost, TypeInv, Attempts, Running, LivePcs
    <2> QED
      BY <1>6, <2>1, PhaseAbandon DEF ResultLost
  <1>7. CASE ActivityCompletes
    <2>1. Running
      BY <1>7 DEF ActivityCompletes, TypeInv, Attempts, Running, LivePcs
    <2> QED
      BY <1>7, <2>1, PhaseResume DEF ActivityCompletes
  <1>8. CASE TakeDecision \/ SeeCancel \/ StepTimesOut \/ TimerFires
    BY <1>8 DEF TakeDecision, SeeCancel, StepTimesOut, TimerFires, Goto, Gate!gateVars, Phase,
                PastGate, TimerPcs, NotifyPcs
  <1>9. CASE UNCHANGED vars
    BY <1>9, PhaseStutter DEF vars
  <1> QED
    BY <1>1, <1>2, <1>3, <1>4, <1>5, <1>6, <1>7, <1>8, <1>9
    DEF Next, WorkflowStep, Gate!Next

\* The system implements the gate: a dataset's schema changes only in a run that
\* has passed every step of the chain, one after the other.
THEOREM ImplementsGate ==
  ASSUME MaxLate = 0
  PROVE  Spec => GateSpec
  <1>1. Init => Gate!Init
    BY DEF Init, Gate!Init, Phase
  <1>2. ConsentInv /\ [Next]_vars => [Gate!Next]_Gate!gateVars
    BY StepOfGate DEF ConsentInv, NothingLate
  <1> QED
    BY <1>1, <1>2, ConsentInvAlways, PTL DEF Spec, GateSpec, Gate!Spec
-----------------------------------------------------------------------------
(* How a CR ends. *)

\* What a run on its way to its end has written: its last status, unless the
\* commit of a submission came after it.
StatusOnTheWay ==
    /\ pc = "notifyApplied" => status \in {"APPLIED", "SUBMITTED"}
    /\ done /\ pc \in {"rejected", "timedout", "cancelled", "apply"} =>
           status \in {StatusWritten(pc), "SUBMITTED"}

StatusInv == TypeInv /\ NothingLate /\ StatusOnTheWay /\ SettledStatus

\* Steps that leave the run and the status alone, and steps that write SUBMITTED.
LEMMA StatusFrame ==
  ASSUME StatusOnTheWay, SettledStatus, UNCHANGED <<pc, result, done>>,
         status' \in {status, "SUBMITTED"}
  PROVE  StatusOnTheWay' /\ SettledStatus'
  BY DEF StatusOnTheWay, SettledStatus, FinalStatus, StatusWritten

\* Steps that take the run to a point where nothing has been written yet.
LEMMA StatusMoved ==
  ASSUME pc' \notin {"closed", "notifyApplied"}, ~done'
  PROVE  StatusOnTheWay' /\ SettledStatus'
  BY DEF StatusOnTheWay, SettledStatus

\* An attempt that is given up has written nothing since the last one.
LEMMA StatusAbandon ==
  ASSUME StatusOnTheWay, SettledStatus, NEW t, AbandonAttempt(t), status' = status,
         ~done', pc # "closed"
  PROVE  StatusOnTheWay' /\ SettledStatus'
  BY DEF AbandonAttempt, Close, StatusOnTheWay, SettledStatus, FinalStatus

\* run() ends with the result its last activity has written.
LEMMA StatusResume ==
  ASSUME StatusOnTheWay, done, Resume, ~done', status' = status
  PROVE  StatusOnTheWay' /\ SettledStatus'
  <1>1. ASSUME NEW p, NEW i, Goto(p, i), p \notin {"closed", "notifyApplied"}
        PROVE  StatusOnTheWay' /\ SettledStatus'
    BY <1>1, StatusMoved DEF Goto
  <1>2. \A i : LoopAt(i) \notin {"closed", "notifyApplied"}
    BY DEF LoopAt
  <1>3. CASE pc = "apply" /\ Goto("notifyApplied", idx)
    <2>1. pc' = "notifyApplied" /\ status \in {"APPLIED", "SUBMITTED"}
      BY <1>3 DEF Goto, StatusOnTheWay, StatusWritten
    <2> QED
      BY <2>1 DEF StatusOnTheWay, SettledStatus
  <1>4. ASSUME NEW r \in {"REJECTED", "TIMEOUT", "CANCELLED", "APPLIED"}, Close(r),
               status \in {FinalStatus(r), "SUBMITTED"}
        PROVE  StatusOnTheWay' /\ SettledStatus'
    <2>1. pc' = "closed" /\ result' = r
      BY <1>4 DEF Close
    <2>2. status' \in {FinalStatus(result'), "SUBMITTED"}
      BY <1>4, <2>1
    <2> QED
      BY <2>1, <2>2, <1>4 DEF StatusOnTheWay, SettledStatus, FinalStatus
  <1>5. CASE pc = "rejected" /\ Close("REJECTED")
    BY <1>4, <1>5 DEF StatusOnTheWay, StatusWritten, FinalStatus
  <1>6. CASE pc = "timedout" /\ Close("TIMEOUT")
    BY <1>4, <1>6 DEF StatusOnTheWay, StatusWritten, FinalStatus
  <1>7. CASE pc = "cancelled" /\ Close("CANCELLED")
    BY <1>4, <1>7 DEF StatusOnTheWay, StatusWritten, FinalStatus
  <1>8. CASE pc = "notifyApplied" /\ Close("APPLIED")
    BY <1>4, <1>8 DEF StatusOnTheWay, FinalStatus
  <1> QED
    BY <1>1, <1>2, <1>3, <1>5, <1>6, <1>7, <1>8 DEF Resume, AfterRecord

\* No step of anybody separates the status from the way the run ended.
LEMMA StatusNext ==
  ASSUME StatusInv, [Next]_vars
  PROVE  StatusOnTheWay' /\ SettledStatus'
  <1> USE DEF database, api, workflow, world
  <1>0. /\ StatusOnTheWay /\ SettledStatus
        /\ pc \notin ActivityPcs => ~done
    BY DEF StatusInv, TypeInv, TypeOK, Attempts
  <1>1. ASSUME NEW h \in Handlers, SubmitStart(h) PROVE StatusOnTheWay' /\ SettledStatus'
    <2>1. ~done /\ pc' = "analyze" /\ done' = done
      BY <1>0, <1>1 DEF SubmitStart, Running, LivePcs
    <2> QED
      BY <2>1, StatusMoved
  <1>2. ASSUME NEW h \in Handlers,
               SubmitCheck(h) \/ SubmitRefused(h) \/ SubmitCommit(h) \/ SubmitCrash(h)
        PROVE  StatusOnTheWay' /\ SettledStatus'
    BY <1>0, <1>2, StatusFrame DEF SubmitCheck, SubmitRefused, SubmitCommit, SubmitCrash
  <1>3. CASE (\E v \in Verdicts : DecideRead(v)) \/ (\E c \in Calls : DecideSend(c)) \/ Cancel
    BY <1>0, <1>3, StatusFrame DEF DecideRead, DecideSend, Cancel
  <1>4. CASE ActivityCommits
    <2>1. pc' = pc /\ pc # "closed" /\ status' = StatusWritten(pc)
      BY <1>4, ClosedPc DEF ActivityCommits, Attempting, Commit, CurrentWrite
    <2> QED
      BY <1>0, <2>1 DEF StatusOnTheWay, SettledStatus, StatusWritten
  <1>5. CASE ActivityFails \/ ActivityTimesOut
    BY <1>0, <1>5, ClosedPc, StatusAbandon DEF ActivityFails, ActivityTimesOut, Attempting
  <1>6. CASE ResultLost
    BY <1>0, <1>6, ClosedPc, StatusAbandon DEF ResultLost
  <1>7. CASE ActivityCompletes
    BY <1>0, <1>7, StatusResume DEF ActivityCompletes
  <1>8. CASE TakeDecision \/ SeeCancel \/ StepTimesOut \/ TimerFires
    <2>1. pc \in {"await"} \cup TimerPcs
      BY <1>8 DEF TakeDecision, SeeCancel, StepTimesOut, TimerFires, TimerPcs
    <2>2. ~done
      BY <1>0, <2>1 DEF ActivityPcs, StatusPcs, NotifyPcs, TimerPcs
    <2>3. done' = done /\ pc' \notin {"closed", "notifyApplied"}
      BY <1>8 DEF TakeDecision, SeeCancel, StepTimesOut, TimerFires, Goto
    <2> QED
      BY <2>2, <2>3, StatusMoved
  <1>9. CASE UNCHANGED vars
    BY <1>0, <1>9, StatusFrame DEF vars
  <1> QED
    BY <1>1, <1>2, <1>3, <1>4, <1>5, <1>6, <1>7, <1>8, <1>9
    DEF Next, WorkflowStep, StatusInv, NothingLate, LateCommit

\* As long as no attempt outlives its timeout, a run that has ended has left the
\* CR with the status of its end, or the commit of a submission came last,
\* whoever submits, decides, cancels or crashes when.
THEOREM StatusSettles ==
  ASSUME MaxLate = 0
  PROVE  Spec => []SettledStatus
  <1>1. Init => StatusInv
    BY TypeInvInit DEF Init, StatusInv, NothingLate, StatusOnTheWay, SettledStatus
  <1>2. StatusInv /\ [Next]_vars => StatusInv'
    BY StatusNext, TypeInvNext, NothingLateNext DEF StatusInv
  <1>3. StatusInv => SettledStatus
    BY DEF StatusInv
  <1> QED
    BY <1>1, <1>2, <1>3, PTL DEF Spec
-----------------------------------------------------------------------------
(* One submission at a time: also when attempts outlive their timeouts. *)

\* The CR is submitted by one request at a time.  Nothing is assumed of the orders
\* of the chain, which may have gaps, nor of the decisions, which may be PENDING.
OneSubmitter == \A g, h \in Handlers : g = h

\* The step of the loop variable has not been asked, or has not been answered.
Before == {"none", "analyze", "approving", "await"}

\* No step of the chain before the order o is open.
Cleared(o) == \A p \in Orders : p < o => decision[p] # "PENDING"

\* A CR that has its workflow is no draft, and no request is submitting it.
Linkage == linked => status # "DRAFT" /\ \A h \in Handlers : submit[h] = "idle"

\* No decision exists anywhere before the CR has its workflow.
Untouched ==
    ~linked =>
        /\ idx = 1 /\ pc # "record" /\ taken = None /\ calls = {}
        /\ \A o \in Orders : pending[o] = None /\ decision[o] = "PENDING"
        /\ \A w \in late : w.at # "record"

\* The loop variable splits the chain: every order before it is a step that has been
\* passed, only the last of them perhaps by PENDING, and nothing behind it is decided.
Front ==
    /\ \A i \in 1 .. idx - 1 : i \in Orders
    /\ \A o \in Orders :
          /\ o < idx => decision[o] \in Verdicts \ {"REJECTED"}
          /\ o > idx \/ (o = idx /\ pc \in Before) => decision[o] = "PENDING"
    /\ Cleared(idx - 1)

\* A step is asked, signalled and taken only when none before it is open, and it is
\* recorded as it was taken.
InTurn ==
    /\ taken \in Verdicts \cup {None}
    /\ \A c \in calls : Cleared(c.order)
    /\ \A o \in Orders : pending[o] \in Verdicts \cup {None}
    /\ \A o \in Orders : pending[o] # None => Cleared(o)
    /\ pc = "record" => /\ idx \in Orders /\ Cleared(idx)
                        /\ decision[idx] \in {"PENDING", taken}
                        /\ done => decision[idx] = taken

\* What a late attempt will write is what is there, or what the run is recording or
\* was when it ended.
LateRecord(w) ==
    /\ w.order \in Orders /\ w.order <= idx /\ Cleared(w.order)
    /\ decision[w.order] \in {"PENDING", w.verdict}
    /\ w.order < idx => decision[w.order] = w.verdict
    /\ w.order = idx => pc \notin Before /\ (pc = "record" => w.verdict = taken)
    /\ \A v \in late : v.at = "record" /\ v.order = w.order => v.verdict = w.verdict
LateWrites ==
    \A w \in late :
        /\ w.at = "record" => LateRecord(w)
        /\ w.at \in PastGate => idx = N + 1
        /\ w.at = "notifyApplied" => schema = "new"

\* The schema and the notices follow the last step of the chain.
Published ==
    /\ schema = "new" \/ notices # {} => idx = N + 1
    /\ "APPLIED" \in notices \/ pc = "notifyApplied" => schema = "new"
    /\ pc = "apply" /\ done => schema = "new"

FrontInv == Untouched /\ Front /\ InTurn /\ LateWrites /\ Published
SingleInv == TypeInv /\ Linkage /\ DecidedInOrder /\ FrontInv

\* Before the first run the whole chain lies behind the loop variable.
LEMMA SingleInvInit == Init => SingleInv
  <1> SUFFICES ASSUME Init PROVE SingleInv
    OBVIOUS
  <1>1. Linkage /\ Untouched /\ InTurn /\ DecidedInOrder
    BY DEF Init, Linkage, Untouched, InTurn, DecidedInOrder, None
  <1>2. \A o \in Orders : o \in Nat /\ ~(o < 1)
    BY OrdersAssumption
  <1>3. Front
    BY <1>2 DEF Init, Front, Cleared
  <1>4. LateWrites /\ Published
    BY DEF Init, LateWrites, Published
  <1> QED
    BY <1>1, <1>3, <1>4, TypeInvInit DEF SingleInv, FrontInv

\* A CR keeps its workflow, and a second submission of it is refused.
LEMMA LinkageNext ==
  ASSUME OneSubmitter, TypeInv, Linkage, [Next]_vars
  PROVE  Linkage'
  <1> USE DEF database, api, workflow, world, Linkage
  <1>1. ASSUME NEW h \in Handlers,
               SubmitCheck(h) \/ SubmitStart(h) \/ SubmitRefused(h) \/ SubmitCrash(h)
        PROVE  Linkage'
    BY <1>1 DEF SubmitCheck, SubmitStart, SubmitRefused, SubmitCrash, TypeInv, TypeOK
  <1>2. ASSUME NEW h \in Handlers, SubmitCommit(h) PROVE Linkage'
    BY <1>2 DEF SubmitCommit, OneSubmitter, TypeInv, TypeOK
  <1>3. ASSUME NEW w, Commit(w), submit' = submit PROVE Linkage'
    BY <1>3 DEF Commit, StatusWritten
  <1>4. CASE UNCHANGED <<status, linked, submit>>
    BY <1>4
  <1> QED
    BY <1>1, <1>2, <1>3, <1>4
    DEF Next, vars, WorkflowStep, DecideRead, DecideSend, Cancel, LateCommit,
        ActivityCommits, ActivityFails, ResultLost, ActivityTimesOut, ActivityCompletes,
        TakeDecision, SeeCancel, StepTimesOut, TimerFires

\* A write that finds its step open, or decided as it is about to write it, takes no
\* decision back and disturbs no other step.
LEMMA OnRecordStays ==
  ASSUME TypeInv, NEW w, decision' = DecisionWritten(w),
         w.at = "record" =>
            w.order \in Orders /\ decision[w.order] \in {"PENDING", w.verdict}
  PROVE  /\ \A p \in Orders : decision[p] # "PENDING" => decision'[p] = decision[p]
         /\ \A p \in Orders : decision'[p] # decision[p] => w.at = "record" /\ p = w.order
         /\ w.at = "record" => decision'[w.order] = w.verdict
         /\ w.at # "record" => decision' = decision
         /\ \A o : Cleared(o) => \A p \in Orders : p < o => decision'[p] # "PENDING"
  <1>1. decision \in [Orders -> AllVerdicts]
    BY DEF TypeInv, TypeOK
  <1>2. CASE w.at = "record"
    <2>1. /\ decision'[w.order] = w.verdict
          /\ \A p \in Orders : p # w.order => decision'[p] = decision[p]
      BY <1>1, <1>2 DEF DecisionWritten
    <2>2. \A p \in Orders : decision[p] # "PENDING" => decision'[p] = decision[p]
      BY <1>2, <2>1
    <2> QED
      BY <1>2, <2>1, <2>2 DEF Cleared
  <1>3. CASE w.at # "record"
    BY <1>3 DEF DecisionWritten, Cleared
  <1> QED
    BY <1>2, <1>3

\* ... and it keeps the steps decided in order when none before its own is open.
LEMMA OrderKept ==
  ASSUME TypeInv, DecidedInOrder, NEW w, decision' = DecisionWritten(w),
         w.at = "record" =>
            /\ w.order \in Orders /\ decision[w.order] \in {"PENDING", w.verdict}
            /\ Cleared(w.order)
  PROVE  DecidedInOrder'
  <1> SUFFICES ASSUME NEW o \in Orders, NEW p \in Orders, p < o, decision'[o] # "PENDING"
               PROVE  decision'[p] # "PENDING"
    BY DEF DecidedInOrder
  <1>1. CASE decision[o] # "PENDING"
    BY <1>1, OnRecordStays DEF DecidedInOrder
  <1>2. CASE decision[o] = "PENDING"
    BY <1>2, OnRecordStays DEF Cleared
  <1> QED
    BY <1>1, <1>2

\* Steps of the handlers: a run is only started before there is a decision.
LEMMA FrontApi ==
  ASSUME TypeInv, Linkage, FrontInv,
         \/ \E h \in Handlers :
               \/ SubmitCheck(h) \/ SubmitStart(h) \/ SubmitRefused(h)
               \/ SubmitCommit(h) \/ SubmitCrash(h)
         \/ \E v \in Verdicts : DecideRead(v)
         \/ \E c \in Calls : DecideSend(c)
         \/ Cancel
         \/ UNCHANGED vars
  PROVE  FrontInv'
  <1> USE DEF database, api, workflow, world
  <1>0. \A o \in Orders : o \in Nat /\ ~(o < 1)
    BY OrdersAssumption
  <1>1. ASSUME NEW h \in Handlers, SubmitStart(h) PROVE FrontInv'
    <2>1. ~linked /\ ~Running
      BY <1>1 DEF SubmitStart, Linkage
    <2>2. idx = 1 /\ idx' = 1 /\ pc' = "analyze" /\ taken = None
      BY <1>1, <2>1 DEF SubmitStart, FrontInv, Untouched
    <2>3. /\ \A o \in Orders : pending[o] = None /\ decision[o] = "PENDING"
          /\ \A w \in late : w.at # "record"
          /\ calls = {}
          /\ UNCHANGED <<linked, decision, schema, calls, pending, taken, done, late, notices>>
      BY <1>1, <2>1 DEF SubmitStart, FrontInv, Untouched
    <2>4. Untouched' /\ InTurn'
      BY <2>1, <2>2, <2>3 DEF Untouched, InTurn, None
    <2>5. Front'
      BY <1>0, <2>2, <2>3 DEF Front, Cleared
    <2>6. LateWrites'
      BY <2>1, <2>2, <2>3 DEF FrontInv, LateWrites
    <2>7. Published'
      BY <2>2, <2>3 DEF FrontInv, Published
    <2> QED
      BY <2>4, <2>5, <2>6, <2>7 DEF FrontInv
  <1>2. ASSUME NEW h \in Handlers,
               SubmitCheck(h) \/ SubmitRefused(h) \/ SubmitCommit(h) \/ SubmitCrash(h)
        PROVE  FrontInv'
    <2>1. /\ UNCHANGED <<decision, schema, calls, pc, idx, pending, taken, done, late, notices>>
          /\ ~linked' => ~linked
      BY <1>2 DEF SubmitCheck, SubmitRefused, SubmitCommit, SubmitCrash
    <2> QED
      BY <2>1
      DEF FrontInv, Untouched, Front, Cleared, InTurn, LateWrites, LateRecord, Published
  <1>3. ASSUME NEW v \in Verdicts, DecideRead(v) PROVE FrontInv'
    <2>1. PICK o \in Orders : IsCurrentStep(o) /\ calls' = calls \cup {[order |-> o, verdict |-> v]}
      BY <1>3 DEF DecideRead
    <2>2. Cleared(o)
      BY <1>0, <2>1 DEF IsCurrentStep, PendingSteps, Cleared
    <2>3. \A c \in calls' : Cleared(c.order)
      BY <2>1, <2>2 DEF FrontInv, InTurn
    <2>4. linked /\ UNCHANGED <<linked, decision, schema, pc, idx, pending, taken, done, late, notices>>
      BY <1>3 DEF DecideRead
    <2> QED
      BY <2>3, <2>4
      DEF FrontInv, Untouched, Front, Cleared, InTurn, LateWrites, LateRecord, Published
  <1>4. ASSUME NEW c \in Calls, DecideSend(c) PROVE FrontInv'
    <2>1. linked
      BY <1>4 DEF DecideSend, FrontInv, Untouched
    <2>2. c.verdict \in Verdicts /\ c.order \in Orders /\ Cleared(c.order)
      BY <1>4 DEF Calls, DecideSend, FrontInv, InTurn
    <2>3. \A o \in Orders : pending'[o] \in {pending[o], None}
                            \/ (o = c.order /\ pending'[o] = c.verdict)
      BY <1>4, <2>2 DEF DecideSend, TypeInv, TypeOK
    <2>4. /\ \A o \in Orders : pending'[o] \in Verdicts \cup {None}
          /\ \A o \in Orders : pending'[o] # None => Cleared(o)
      BY <2>2, <2>3 DEF FrontInv, InTurn
    <2>5. /\ UNCHANGED <<linked, decision, schema, pc, idx, taken, done, late, notices>>
          /\ calls' \subseteq calls
      BY <1>4 DEF DecideSend
    <2> QED
      BY <2>1, <2>4, <2>5
      DEF FrontInv, Untouched, Front, Cleared, InTurn, LateWrites, LateRecord, Published
  <1>5. CASE Cancel \/ UNCHANGED vars
    <2>1. UNCHANGED <<linked, decision, schema, calls, pc, idx, pending, taken, done, late, notices>>
      BY <1>5 DEF Cancel, vars
    <2> QED
      BY <2>1
      DEF FrontInv, Untouched, Front, Cleared, InTurn, LateWrites, LateRecord, Published
  <1> QED
    BY <1>1, <1>2, <1>3, <1>4, <1>5

\* Steps that end the run.
LEMMA FrontClose ==
  ASSUME FrontInv, NEW r, Close(r), ~done', UNCHANGED <<linked, decision, schema, calls>>,
         late' = late, notices' = notices
  PROVE  FrontInv'
  <1>1. /\ pc' = "closed" /\ idx' = idx /\ taken' = None
        /\ \A o \in Orders : pending'[o] = None
    BY DEF Close
  <1> QED
    BY <1>1
    DEF FrontInv, Untouched, Front, Cleared, InTurn, LateWrites, LateRecord, Published, Before, None

\* Steps of the run that do not pass a step of the chain.
LEMMA FrontMove ==
  ASSUME FrontInv, NEW p, Goto(p, idx), ~done', p # "record", p \in Before => pc \in Before,
         p = "notifyApplied" => schema = "new",
         UNCHANGED <<linked, decision, schema, calls, late, notices>>
  PROVE  FrontInv'
  BY DEF Goto, FrontInv, Untouched, Front, Cleared, InTurn, LateWrites, LateRecord, Published, None

\* A late attempt commits: it repeats what is on record, or what the run is recording.
LEMMA FrontLate ==
  ASSUME TypeInv, FrontInv, NEW w \in late, LateCommit(w)
  PROVE  FrontInv'
  <1> USE DEF api, workflow
  <1>1. /\ late' \subseteq late
        /\ UNCHANGED <<linked, calls, pc, idx, pending, taken, done>>
        /\ decision' = DecisionWritten(w)
        /\ schema' = SchemaWritten(w.at)
        /\ notices' = notices \cup StageOf(w.at)
    BY DEF LateCommit, Commit
  <1>2. w.at = "record" => LateRecord(w) /\ linked
    BY DEF FrontInv, LateWrites, Untouched
  <1>3. /\ \A p \in Orders : decision[p] # "PENDING" => decision'[p] = decision[p]
        /\ \A p \in Orders : decision'[p] # decision[p] => w.at = "record" /\ p = w.order
        /\ w.at = "record" => decision'[w.order] = w.verdict
        /\ w.at # "record" => decision' = decision
        /\ \A o : Cleared(o) => \A p \in Orders : p < o => decision'[p] # "PENDING"
    BY <1>1, <1>2, OnRecordStays DEF LateRecord
  <1>4. idx \in Nat /\ \A o \in Orders : o \in Nat
    BY NIsNat, OrdersAssumption DEF TypeInv, TypeOK
  <1>5. Untouched'
    BY <1>1, <1>2, <1>3 DEF FrontInv, Untouched
  <1>6. Front'
    <2>1. \A o \in Orders : o # idx => decision'[o] = decision[o]
      BY <1>2, <1>3, <1>4 DEF LateRecord
    <2>2. pc \in Before => decision' = decision \/ ~(w.order = idx)
      BY <1>2, <1>3 DEF LateRecord
    <2>3. \A o \in Orders : o = idx /\ pc \in Before => decision'[o] = decision[o]
      BY <1>3, <2>2
    <2> QED
      BY <1>1, <1>3, <1>4, <2>1, <2>3 DEF FrontInv, Front, Cleared
  <1>7. InTurn'
    <2>1. pc = "record" => decision'[idx] \in {"PENDING", taken}
                           /\ (done => decision'[idx] = taken)
      BY <1>2, <1>3 DEF FrontInv, InTurn, LateRecord
    <2> QED
      BY <1>1, <1>3, <2>1 DEF FrontInv, InTurn, Cleared
  <1>8. LateWrites'
    <2>1. ASSUME NEW v \in late, v.at = "record" PROVE LateRecord(v)'
      <3>1. LateRecord(v)
        BY <2>1 DEF FrontInv, LateWrites
      <3>2. decision'[v.order] = decision[v.order]
              \/ (w.at = "record" /\ v.order = w.order /\ decision'[v.order] = w.verdict)
        BY <1>3, <3>1 DEF LateRecord
      <3>3. w.at = "record" /\ v.order = w.order => w.verdict = v.verdict
        BY <3>1 DEF LateRecord
      <3> QED
        BY <1>1, <1>3, <3>1, <3>2, <3>3 DEF LateRecord, Cleared
    <2>2. schema = "new" => schema' = "new"
      BY <1>1 DEF SchemaWritten
    <2> QED
      BY <1>1, <2>1, <2>2 DEF FrontInv, LateWrites
  <1>9. Published'
    <2>1. schema' # schema \/ notices' # notices => w.at \in PastGate
      BY <1>1 DEF SchemaWritten, StageOf, PastGate, NotifyPcs
    <2>2. /\ schema = "new" => schema' = "new"
          /\ "APPLIED" \in notices' => "APPLIED" \in notices \/ w.at = "notifyApplied"
      BY <1>1 DEF SchemaWritten, StageOf
    <2> QED
      BY <1>1, <2>1, <2>2 DEF FrontInv, LateWrites, Published
  <1> QED
    BY <1>5, <1>6, <1>7, <1>8, <1>9 DEF FrontInv

\* An attempt of the run itself commits.
LEMMA FrontCommits ==
  ASSUME TypeInv, FrontInv, ActivityCommits
  PROVE  FrontInv'
  <1> USE DEF api
  <1>1. /\ UNCHANGED <<late, linked, calls, pc, idx, pending, taken>> /\ done'
        /\ decision' = DecisionWritten(CurrentWrite)
        /\ schema' = SchemaWritten(pc)
        /\ notices' = notices \cup StageOf(pc)
        /\ pc \in ActivityPcs
    BY DEF ActivityCommits, Attempting, Commit, CurrentWrite
  <1>2. CurrentWrite.at = pc /\ CurrentWrite.order = idx /\ CurrentWrite.verdict = taken
    BY DEF CurrentWrite
  <1>3. /\ \A p \in Orders : decision[p] # "PENDING" => decision'[p] = decision[p]
        /\ \A p \in Orders : decision'[p] # decision[p] => pc = "record" /\ p = idx
        /\ pc = "record" => decision'[idx] = taken
        /\ pc # "record" => decision' = decision
        /\ \A o : Cleared(o) => \A p \in Orders : p < o => decision'[p] # "PENDING"
    BY <1>1, <1>2, OnRecordStays DEF FrontInv, InTurn
  <1>4. idx \in Nat /\ \A o \in Orders : o \in Nat
    BY NIsNat, OrdersAssumption DEF TypeInv, TypeOK
  <1>5. Untouched'
    BY <1>1, <1>3 DEF FrontInv, Untouched
  <1>6. Front'
    BY <1>1, <1>3, <1>4 DEF FrontInv, Front, Cleared, Before
  <1>7. InTurn'
    BY <1>1, <1>3 DEF FrontInv, InTurn, Cleared
  <1>8. LateWrites'
    <2>1. ASSUME NEW v \in late, v.at = "record" PROVE LateRecord(v)'
      <3>1. LateRecord(v)
        BY <2>1 DEF FrontInv, LateWrites
      <3>2. decision'[v.order] = decision[v.order]
              \/ (pc = "record" /\ v.order = idx /\ decision'[v.order] = taken)
        BY <1>3, <3>1 DEF LateRecord
      <3> QED
        BY <1>1, <1>3, <3>1, <3>2 DEF LateRecord, Cleared
    <2>2. schema = "new" => schema' = "new"
      BY <1>1 DEF SchemaWritten
    <2> QED
      BY <1>1, <2>1, <2>2 DEF FrontInv, LateWrites
  <1>9. Published'
    <2>1. schema' # schema \/ notices' # notices => pc \in PastGate
      BY <1>1 DEF SchemaWritten, StageOf, PastGate, NotifyPcs
    <2>2. /\ schema = "new" \/ pc = "apply" => schema' = "new"
          /\ "APPLIED" \in notices' => "APPLIED" \in notices \/ pc = "notifyApplied"
      BY <1>1 DEF SchemaWritten, StageOf
    <2> QED
      BY <1>1, <2>1, <2>2 DEF FrontInv, Published, TypeInv, LoopVariable
  <1> QED
    BY <1>5, <1>6, <1>7, <1>8, <1>9 DEF FrontInv

\* An attempt is given up: it may have told the consumers, and it may be at work
\* still, its write to come.
LEMMA FrontAbandon ==
  ASSUME TypeInv, FrontInv, pc \in ActivityPcs, NEW t, AbandonAttempt(t), ~done',
         late' \in {late, late \cup {CurrentWrite}},
         notices' \in {notices, notices \cup StageOf(pc)},
         UNCHANGED <<linked, decision, schema, calls>>
  PROVE  FrontInv'
  <1>1. /\ idx' = idx /\ pc' \in {pc, "closed"} /\ taken' \in {taken, None}
        /\ pc' = "closed" \/ taken' = taken
        /\ \A o \in Orders : pending'[o] \in {pending[o], None}
    BY DEF AbandonAttempt, Close
  <1>2. pc # "closed" /\ "closed" \notin Before
    BY ClosedPc DEF Before
  <1>3. CurrentWrite.at = pc /\ CurrentWrite.order = idx /\ CurrentWrite.verdict = taken
    BY DEF CurrentWrite
  <1>4. pc = "record" => linked
    BY DEF FrontInv, Untouched
  <1>5. pc \in PastGate => idx = N + 1
    BY DEF TypeInv, LoopVariable
  <1>6. Untouched' /\ Front' /\ InTurn'
    BY <1>1, <1>2, <1>3, <1>4 DEF FrontInv, Untouched, Front, InTurn, Cleared, None
  <1>7. LateWrites'
    <2>0. \A v \in late' : v \in late \/ v = CurrentWrite
      OBVIOUS
    <2>1. ASSUME NEW w \in late' PROVE w.at = "record" => LateRecord(w)'
      <3>1. CASE w \in late
        BY <1>1, <1>2, <1>3, <2>0, <3>1 DEF FrontInv, LateWrites, LateRecord, Cleared
      <3>2. CASE w = CurrentWrite
        <4>1. idx \in Nat
          BY NIsNat DEF TypeInv, TypeOK
        <4> QED
          BY <1>1, <1>2, <1>3, <2>0, <3>2, <4>1
          DEF FrontInv, InTurn, LateWrites, LateRecord, Cleared, Before
      <3> QED
        BY <2>0, <3>1, <3>2
    <2>2. ASSUME NEW w \in late'
          PROVE  /\ w.at \in PastGate => idx' = N + 1
                 /\ w.at = "notifyApplied" => schema' = "new"
      BY <1>1, <1>3, <1>5, <2>0 DEF FrontInv, LateWrites, Published
    <2> QED
      BY <2>1, <2>2 DEF LateWrites
  <1>8. Published'
    <2>1. StageOf(pc) # {} => pc \in PastGate
      BY DEF StageOf, PastGate, NotifyPcs
    <2>2. "APPLIED" \in StageOf(pc) => pc = "notifyApplied"
      BY DEF StageOf
    <2> QED
      BY <1>1, <1>2, <1>5, <2>1, <2>2 DEF FrontInv, Published
  <1> QED
    BY <1>6, <1>7, <1>8 DEF FrontInv

\* run() goes on: past a step of the chain only when its decision is on record.
LEMMA FrontResume ==
  ASSUME TypeInv, FrontInv, done, Resume, ~done',
         UNCHANGED <<linked, decision, schema, calls, late, notices>>
  PROVE  FrontInv'
  <1> USE NIsNat
  <1>1. idx \in 1 .. N + 1 /\ \A o \in Orders : o \in Nat
    BY OrdersAssumption DEF TypeInv, TypeOK
  <1>2. CASE pc = "approving" /\ Goto(LoopAt(1), 1)
    <2>1. idx = 1 /\ LoopAt(1) \in {"await", "approved"} /\ pc \in Before
      BY <1>2 DEF TypeInv, LoopVariable, LoopAt, Before
    <2> QED
      BY <1>2, <2>1, FrontMove
  <1>3. CASE pc = "record" /\ taken # "REJECTED" /\ Goto(LoopAt(idx + 1), idx + 1)
    <2>1. /\ idx' = idx + 1 /\ pc' \in {"await", "approved"} /\ taken' = None
          /\ pending' = pending
      BY <1>3 DEF Goto, LoopAt
    <2>2. linked /\ idx \in Orders /\ idx # N + 1
      BY <1>1, <1>3 DEF TypeInv, LoopVariable, FrontInv, InTurn, Untouched
    <2>3. decision[idx] = taken /\ taken \in Verdicts \ {"REJECTED"} /\ Cleared(idx)
      BY <1>3 DEF FrontInv, InTurn, TypeInv, Recording
    <2>4. Untouched' /\ InTurn'
      BY <2>1, <2>2 DEF FrontInv, Untouched, InTurn, Cleared, None
    <2>5. Front'
      <3>1. \A i \in 1 .. idx' - 1 : i \in Orders
        BY <1>1, <2>1, <2>2 DEF FrontInv, Front
      <3>2. \A o \in Orders : o < idx' => decision[o] \in Verdicts \ {"REJECTED"}
        BY <1>1, <2>1, <2>3 DEF FrontInv, Front
      <3>3. \A o \in Orders : o > idx' \/ o = idx' => decision[o] = "PENDING"
        BY <1>1, <2>1 DEF FrontInv, Front
      <3>4. \A p \in Orders : p < idx' - 1 => decision[p] # "PENDING"
        BY <1>1, <2>1, <2>3 DEF Cleared
      <3> QED
        BY <3>1, <3>2, <3>3, <3>4 DEF Front, Cleared
    <2>6. LateWrites'
      <3> SUFFICES ASSUME NEW w \in late
                   PROVE  /\ w.at = "record" => LateRecord(w)'
                          /\ w.at \in PastGate => idx' = N + 1
                          /\ w.at = "notifyApplied" => schema' = "new"
        BY DEF LateWrites
      <3>1. w.at \notin PastGate /\ (w.at = "notifyApplied" => schema' = "new")
        BY <2>2 DEF FrontInv, LateWrites
      <3>2. ASSUME w.at = "record" PROVE LateRecord(w)'
        <4>1. LateRecord(w) /\ w.order \in Nat
          BY <1>1, <3>2 DEF FrontInv, LateWrites, LateRecord
        <4> QED
          BY <1>1, <1>3, <2>1, <2>3, <4>1 DEF LateRecord, Cleared
      <3> QED
        BY <3>1, <3>2
    <2>7. Published'
      BY <2>1, <2>2 DEF FrontInv, Published
    <2> QED
      BY <2>4, <2>5, <2>6, <2>7 DEF FrontInv
  <1>4. CASE \/ pc = "analyze" /\ Goto("approving", idx)
             \/ pc = "record" /\ Goto("rejected", idx)
             \/ pc = "approved" /\ \E p \in {"sleep7", "apply"} : Goto(p, idx)
             \/ pc = "notify7" /\ Goto("sleep1", idx)
             \/ pc = "notify1" /\ Goto("sleepUntil", idx)
             \/ pc = "apply" /\ Goto("notifyApplied", idx)
    BY <1>4, FrontMove DEF Before, FrontInv, Published
  <1>5. CASE \E r \in Results : Close(r)
    BY <1>5, FrontClose
  <1> QED
    BY <1>2, <1>3, <1>4, <1>5 DEF Resume, AfterRecord, Results

\* The run takes the signal of the step it waits for: no write of it is late.
LEMMA FrontTake ==
  ASSUME TypeInv, FrontInv, TakeDecision
  PROVE  FrontInv'
  <1>1. /\ pc = "await" /\ pc' = "record" /\ idx' = idx /\ idx \in Orders
        /\ taken' = pending[idx] /\ taken' # None
        /\ pending' = [pending EXCEPT ![idx] = None]
        /\ UNCHANGED <<linked, decision, schema, calls, late, notices>>
        /\ done' = done
    BY DEF TakeDecision, Decided, database, api, world
  <1>2. ~done
    BY <1>1 DEF TypeInv, Attempts, ActivityPcs, StatusPcs, NotifyPcs
  <1>3. \A o \in Orders : pending'[o] \in {pending[o], None}
    BY <1>1 DEF TypeInv, TypeOK
  <1>4. linked
    BY <1>1 DEF FrontInv, Untouched
  <1>5. decision[idx] = "PENDING" /\ Cleared(idx) /\ taken' \in Verdicts \cup {None}
    BY <1>1 DEF FrontInv, Front, InTurn, Before
  <1>6. Untouched' /\ InTurn'
    BY <1>1, <1>2, <1>3, <1>4, <1>5 DEF FrontInv, Untouched, InTurn, Cleared
  <1>7. Front' /\ Published'
    BY <1>1 DEF FrontInv, Front, Cleared, Published, Before
  <1>8. LateWrites'
    BY <1>1 DEF FrontInv, LateWrites, LateRecord, Cleared, Before
  <1> QED
    BY <1>6, <1>7, <1>8 DEF FrontInv

\* No step of anybody takes a decision back, adds one behind the loop variable, or
\* lets the schema or a notice go ahead of the chain.
LEMMA FrontNext ==
  ASSUME TypeInv, Linkage, FrontInv, [Next]_vars
  PROVE  FrontInv'
  <1> USE DEF database, api, world
  <1>1. CASE ActivityFails \/ ActivityTimesOut
    BY <1>1, FrontAbandon DEF ActivityFails, ActivityTimesOut, Attempting
  <1>2. CASE ResultLost
    BY <1>2, FrontAbandon DEF ResultLost, TypeInv, Attempts
  <1>3. CASE ActivityCompletes
    BY <1>3, FrontResume DEF ActivityCompletes
  <1>4. CASE SeeCancel \/ StepTimesOut \/ TimerFires
    <2>1. pc \in {"await"} \cup TimerPcs /\ done' = done
      BY <1>4 DEF SeeCancel, StepTimesOut, TimerFires, TimerPcs
    <2>2. ~done
      BY <2>1 DEF TypeInv, Attempts, ActivityPcs, StatusPcs, NotifyPcs, TimerPcs
    <2> QED
      BY <1>4, <2>1, <2>2, FrontMove DEF SeeCancel, StepTimesOut, TimerFires, Before
  <1>5. CASE \E w \in late : LateCommit(w)
    BY <1>5, FrontLate
  <1> QED
    BY <1>1, <1>2, <1>3, <1>4, <1>5, FrontApi, FrontCommits, FrontTake
    DEF Next, WorkflowStep

\* No step of anybody decides a step of the chain before one that precedes it.
LEMMA OrderNext ==
  ASSUME TypeInv, FrontInv, DecidedInOrder, [Next]_vars
  PROVE  DecidedInOrder'
  <1> USE DEF database, api, workflow, world
  <1>1. ASSUME NEW w \in late, LateCommit(w) PROVE DecidedInOrder'
    BY <1>1, OrderKept DEF LateCommit, Commit, FrontInv, LateWrites, LateRecord
  <1>2. CASE ActivityCommits
    <2>1. /\ decision' = DecisionWritten(CurrentWrite)
          /\ CurrentWrite.at = pc /\ CurrentWrite.order = idx /\ CurrentWrite.verdict = taken
      BY <1>2 DEF ActivityCommits, Commit, CurrentWrite
    <2> QED
      BY <2>1, OrderKept DEF FrontInv, InTurn
  <1>3. CASE decision' = decision
    BY <1>3 DEF DecidedInOrder
  <1> QED
    BY <1>1, <1>2, <1>3
    DEF Next, vars, WorkflowStep, SubmitCheck, SubmitStart, SubmitRefused, SubmitCommit,
        SubmitCrash, DecideRead, DecideSend, Cancel, ActivityFails, ResultLost,
        ActivityTimesOut, ActivityCompletes, TakeDecision, SeeCancel, StepTimesOut, TimerFires

\* With one request submitting at a time the invariant holds of every reachable
\* state, however many attempts outlive their timeouts.
LEMMA SingleInvAlways ==
  ASSUME OneSubmitter
  PROVE  Spec => []SingleInv
  <1>1. SingleInv /\ [Next]_vars => SingleInv'
    BY TypeInvNext, LinkageNext, OrderNext, FrontNext DEF SingleInv
  <1> QED
    BY <1>1, SingleInvInit, PTL DEF Spec

\* When the loop has been left the chain has the orders 1, 2, ..., without a gap, and
\* only its last step may have been passed by PENDING.
LEMMA EveryStepPassed ==
  ASSUME SingleInv, idx = N + 1
  PROVE  Orders = 1 .. N /\ EveryoneConsented
  <1>1. N \in Nat /\ IsFiniteSet(Orders)
    BY NIsNat, OrdersAssumption
  <1>2. 1 .. N \subseteq Orders
    BY <1>1 DEF SingleInv, FrontInv, Front
  <1>3. Cardinality(1 .. N) = N
    BY <1>1, FS_Interval
  <1>4. Orders = 1 .. N
    BY <1>1, <1>2, <1>3, FS_Subset DEF N
  <1>5. \A o \in Orders : decision[o] \in Verdicts \ {"REJECTED"}
    BY <1>1, <1>4 DEF SingleInv, FrontInv, Front
  <1>6. \A o \in Orders : decision[o] # "PENDING" \/ o = N
    BY <1>1, <1>4 DEF SingleInv, FrontInv, Front, Cleared
  <1>7. \A o \in Orders : o = N => \A p \in Orders : p <= o
    BY <1>1, <1>4
  <1>8. \A v \in Verdicts \ {"REJECTED"} : v \in {"APPROVED", "DELEGATED", "PENDING"}
    BY VerdictsAssumption
  <1> QED
    BY <1>4, <1>5, <1>6, <1>7, <1>8 DEF EveryoneConsented

\* One submission at a time: whatever is rejected, delegated, cancelled, lost,
\* retried or late, a changed schema has every approver's consent on record, but for
\* a last approver who has sent PENDING.
THEOREM ConsentOfEveryApprover ==
  ASSUME OneSubmitter
  PROVE  Spec => []AppliedWithConsent
  <1>1. SingleInv => AppliedWithConsent
    BY EveryStepPassed DEF AppliedWithConsent, SingleInv, FrontInv, Published
  <1> QED
    BY <1>1, SingleInvAlways, PTL

\* ... and so has every change that consumers were told of, and they are told that
\* it was applied only after it was.
THEOREM NoNoticeAhead ==
  ASSUME OneSubmitter
  PROVE  Spec => []NoticesFollowConsent
  <1>1. SingleInv => NoticesFollowConsent
    BY EveryStepPassed DEF NoticesFollowConsent, SingleInv, FrontInv, Published
  <1> QED
    BY <1>1, SingleInvAlways, PTL

\* ... the steps are decided in the order of the chain, none skipped.
THEOREM ChainInOrder ==
  ASSUME OneSubmitter
  PROVE  Spec => []DecidedInOrder
  <1>1. SingleInv => DecidedInOrder
    BY DEF SingleInv
  <1> QED
    BY <1>1, SingleInvAlways, PTL

\* ... and the step a decision is asked for, the lowest PENDING one in the database,
\* is the step the run waits for, but for a step before it that was sent PENDING and
\* for a gap in the chain.
THEOREM AskedIsAwaited ==
  ASSUME OneSubmitter
  PROVE  Spec => []AskedStepIsAwaited
  <1>1. SingleInv => AskedStepIsAwaited
    <2> SUFFICES ASSUME SingleInv, pc = "await" PROVE AskedStepIsAwaited
      BY DEF AskedStepIsAwaited
    <2>1. idx \in Nat \ {0} /\ \A o \in Orders : o \in Nat
      BY NIsNat, OrdersAssumption DEF SingleInv, TypeInv, TypeOK
    <2>2. \A p \in PendingSteps : ~(p < idx - 1)
      BY DEF SingleInv, FrontInv, Front, Cleared, PendingSteps
    <2>0. \A o \in Orders : idx <= o => o \in PendingSteps
      BY <2>1 DEF SingleInv, FrontInv, Front, Before, PendingSteps
    <2>3. CASE idx - 1 \in PendingSteps
      <3>1. decision[idx - 1] \in Verdicts /\ idx - 1 \in Orders
        BY <2>1, <2>3 DEF SingleInv, FrontInv, Front, PendingSteps
      <3>2. "PENDING" \in Verdicts
        BY <2>3, <3>1 DEF PendingSteps
      <3>3. IsCurrentStep(idx - 1)
        BY <2>1, <2>2, <2>3 DEF IsCurrentStep, PendingSteps
      <3> QED
        BY <2>0, <3>1, <3>2, <3>3 DEF AskedStepIsAwaited
    <2>4. CASE idx - 1 \notin PendingSteps
      <3>1. \A p \in PendingSteps : idx <= p
        BY <2>1, <2>2, <2>4 DEF PendingSteps
      <3>2. idx \in Orders => idx \in PendingSteps
        BY <2>0, <2>1
      <3>3. CASE idx \in Orders
        BY <2>0, <3>1, <3>2, <3>3 DEF AskedStepIsAwaited, IsCurrentStep
      <3>4. CASE idx \notin Orders
        <4>1. \A p \in PendingSteps : idx < p
          BY <2>1, <3>1, <3>4 DEF PendingSteps
        <4> QED
          BY <2>0, <3>4, <4>1 DEF AskedStepIsAwaited
      <3> QED
        BY <3>3, <3>4
    <2> QED
      BY <2>3, <2>4
  <1> QED
    BY <1>1, SingleInvAlways, PTL

\* ... and a run past its approval loop has asked every step, and none rejects.
THEOREM GateHasEveryConsent ==
  ASSUME OneSubmitter
  PROVE  Spec => []ConsentPastGate
  <1>1. SingleInv => ConsentPastGate
    <2> SUFFICES ASSUME SingleInv, pc \in PastGate, NEW i \in 1 .. N
                 PROVE  i \in Orders /\ decision[i] # "REJECTED"
      BY DEF ConsentPastGate
    <2>1. i \in Orders
      BY EveryStepPassed DEF SingleInv, TypeInv, LoopVariable
    <2>2. i < idx
      BY NIsNat DEF SingleInv, TypeInv, LoopVariable
    <2> QED
      BY <2>1, <2>2 DEF SingleInv, FrontInv, Front
  <1> QED
    BY <1>1, SingleInvAlways, PTL

\* With attempts that outlive their timeouts a change may still be applied after its
\* run has ended, but never before one review has passed every step.
THEOREM ImplementsLateGate ==
  ASSUME OneSubmitter
  PROVE  Spec => LateGateSpec
  <1>1. Init => Gate!Init
    BY DEF Init, Gate!Init, Phase
  <1>2. ASSUME SingleInv, NEW w \in late, LateCommit(w)
        PROVE  [Gate!ChangeLate]_Gate!gateVars
    <2>1. UNCHANGED <<pc, idx>> /\ schema' = SchemaWritten(w.at)
      BY <1>2 DEF LateCommit, Commit, workflow
    <2>2. CASE w.at = "apply"
      <3>1. idx = N + 1
        BY <1>2, <2>2 DEF SingleInv, FrontInv, LateWrites, PastGate
      <3> QED
        BY <2>1, <2>2, <3>1, NIsNat DEF SchemaWritten, Gate!ChangeLate, Phase
    <2>3. CASE w.at # "apply"
      BY <2>1, <2>3, PhaseStutter DEF SchemaWritten
    <2> QED
      BY <2>2, <2>3
  <1>3. SingleInv /\ [Next]_vars => [Gate!Next \/ Gate!ChangeLate]_Gate!gateVars
    BY <1>2, StepOfGate DEF SingleInv
  <1> QED
    BY <1>1, <1>3, SingleInvAlways, PTL DEF Spec, LateGateSpec, Gate!SpecWhenLate
=============================================================================
