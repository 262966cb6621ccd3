--------------------------- MODULE ChangeApproval ---------------------------
(***************************************************************************)
(* The approval of one change request (CR): the HTTP handlers of           *)
(* change_mgmt/router.py, the Temporal workflow of change_mgmt/workflow.py *)
(* and the activities of change_mgmt/activities.py, around two stores that *)
(* no transaction spans: the database (status, workflow_id, the approval   *)
(* steps, the dataset's schema) and the Temporal server (the workflow's    *)
(* state and the signals it has been sent).                                *)
(*                                                                         *)
(* A handler that reads, awaits and then writes is two actions.  An        *)
(* activity is at-least-once: an attempt commits its transaction, its      *)
(* result may be lost, and an attempt that outlives its start-to-close     *)
(* timeout may still commit later.                                         *)
(***************************************************************************)
EXTENDS Integers, FiniteSets

CONSTANTS
    Orders,       \* the step_order values of the CR's approval chain
    Verdicts,     \* the decisions approvers send, of the Decision enum
    Handlers,     \* concurrent POST /submit requests
    MaxCalls,     \* decisions in flight between their read and their signal
    MaxAttempts,  \* RetryPolicy(maximum_attempts), 5 in the code
    MaxLate       \* attempts that outlive their start-to-close timeout

ASSUME OrdersAssumption ==
    /\ Orders \subseteq Nat \ {0}     \* ApprovalStepInput.step_order, ge=1
    /\ IsFiniteSet(Orders)
ASSUME VerdictsAssumption ==
    Verdicts \subseteq {"APPROVED", "REJECTED", "DELEGATED", "PENDING"}
ASSUME BoundsAssumption ==
    /\ MaxCalls \in Nat
    /\ MaxAttempts \in Nat \ {0}
    /\ MaxLate \in Nat

N == Cardinality(Orders)    \* len(approver_chain)

VARIABLES
    \* the database
    status,      \* ChangeRequest.status
    linked,      \* ChangeRequest.workflow_id is set
    decision,    \* ApprovalStep.decision, by step_order
    schema,      \* the dataset's columns: "old", or "new" once applied
    \* the API server
    submit,      \* where each submit request is
    calls,       \* decisions accepted for a step, their signal not yet sent
    \* the Temporal server: the workflow with id cr-<cr_code>
    pc,          \* what run() awaits; "none" before the first start
    idx,         \* the loop variable of the approval loop
    pending,     \* self._pending
    cancelled,   \* self._cancelled
    taken,       \* sig.decision of the signal taken last
    result,      \* how the last run ended
    tries,       \* attempts begun of the current activity
    done,        \* an attempt has committed and its result is on its way
    \* the world
    late,        \* timed out attempts whose transaction is still to commit
    notices      \* the stages consumers may have been told of

database == <<status, linked, decision, schema>>
api == <<submit, calls>>
workflow == <<pc, idx, pending, cancelled, taken, result, tries, done>>
world == <<late, notices>>
vars == <<database, api, workflow, world>>
-----------------------------------------------------------------------------
None == "NONE"
AllVerdicts == {"APPROVED", "REJECTED", "DELEGATED", "PENDING"}
Statuses == {"DRAFT", "SUBMITTED", "APPROVING", "APPROVED",
             "REJECTED", "CANCELLED", "APPLIED"}
Stages == {"T_MINUS_7", "T_MINUS_1", "APPLIED"}
Results == {"TIMEOUT", "CANCELLED", "REJECTED", "APPLIED", "FAILED"}

\* The points of run() that wait for an activity, for a signal, for a timer.
StatusPcs == {"approving", "rejected", "cancelled", "timedout", "approved"}
NotifyPcs == {"notify7", "notify1", "notifyApplied"}
ActivityPcs == {"analyze", "record", "apply"} \cup StatusPcs \cup NotifyPcs
TimerPcs == {"sleep7", "sleep1", "sleepUntil"}
LivePcs == ActivityPcs \cup TimerPcs \cup {"await"}
AllPcs == LivePcs \cup {"none", "closed"}

\* Past the approval loop: every step has been passed.
PastGate == TimerPcs \cup NotifyPcs \cup {"approved", "apply"}

Running == pc \in LivePcs

\* The decision an activity attempt writes: its arguments are fixed when the
\* workflow schedules it.
Writes == [at: ActivityPcs, order: Nat, verdict: AllVerdicts \cup {None}]
\* Mutant: the chain counted from one where step_order was counted from zero.
CurrentWriteShifted == [at |-> pc, order |-> idx + 1, verdict |-> taken]
CurrentWrite == [at |-> pc, order |-> idx, verdict |-> taken]

Calls == [order: Orders, verdict: Verdicts]

TypeOK ==
    /\ status \in Statuses
    /\ linked \in BOOLEAN
    /\ decision \in [Orders -> AllVerdicts]
    /\ schema \in {"old", "new"}
    /\ submit \in [Handlers -> {"idle", "checked", "started"}]
    /\ calls \subseteq Calls
    /\ pc \in AllPcs
    /\ idx \in 1 .. N + 1
    /\ pending \in [Orders -> AllVerdicts \cup {None}]
    /\ cancelled \in BOOLEAN
    /\ taken \in AllVerdicts \cup {None}
    /\ result \in Results \cup {None}
    /\ tries \in 0 .. MaxAttempts
    /\ done \in BOOLEAN
    /\ late \subseteq Writes
    /\ notices \subseteq Stages

\* create_cr: a DRAFT whose approval steps are all PENDING.
Init ==
    /\ status = "DRAFT"
    /\ linked = FALSE
    /\ decision = [o \in Orders |-> "PENDING"]
    /\ schema = "old"
    /\ submit = [h \in Handlers |-> "idle"]
    /\ calls = {}
    /\ pc = "none"
    /\ idx = 1
    /\ pending = [o \in Orders |-> None]
    /\ cancelled = FALSE
    /\ taken = None
    /\ result = None
    /\ tries = 0
    /\ done = FALSE
    /\ late = {}
    /\ notices = {}
-----------------------------------------------------------------------------
(* The API server. *)

\* POST /submit reads the CR; anything but a DRAFT is refused with 400.
SubmitCheck(h) ==
    /\ submit[h] = "idle"
    /\ status = "DRAFT"
    /\ submit' = [submit EXCEPT ![h] = "checked"]
    /\ UNCHANGED <<database, calls, workflow, world>>

\* client.start_workflow: a new run of cr-<cr_code>, unless one is running.
\* A closed run does not keep its id: the server's default reuse policy.
SubmitStart(h) ==
    /\ submit[h] = "checked"
    /\ ~Running
    /\ submit' = [submit EXCEPT ![h] = "started"]
    /\ pc' = "analyze"
    /\ idx' = 1
    /\ result' = None
    /\ UNCHANGED <<database, calls, pending, cancelled, taken, tries, done, world>>

\* WorkflowAlreadyStarted: the handler raises and nothing is written.
SubmitRefused(h) ==
    /\ submit[h] = "checked"
    /\ Running
    /\ submit' = [submit EXCEPT ![h] = "idle"]
    /\ UNCHANGED <<database, calls, workflow, world>>

\* Only now the CR's row is written, whatever the worker has written since.
SubmitCommit(h) ==
    /\ submit[h] = "started"
    /\ submit' = [submit EXCEPT ![h] = "idle"]
    /\ status' = "SUBMITTED"
    /\ linked' = TRUE
    /\ UNCHANGED <<decision, schema, calls, workflow, world>>

\* The server process dies, or the call to Temporal or the commit raises.
SubmitCrash(h) ==
    /\ submit[h] # "idle"
    /\ submit' = [submit EXCEPT ![h] = "idle"]
    /\ UNCHANGED <<database, calls, workflow, world>>

PendingSteps == {o \in Orders : decision[o] = "PENDING"}
\* Mutant: the highest order instead of the lowest.
IsLastPendingStep(o) == o \in PendingSteps /\ \A p \in PendingSteps : p <= o
\* o is the PENDING step of the lowest order.
IsCurrentStep(o) == o \in PendingSteps /\ \A p \in PendingSteps : o <= p

\* POST /decisions: the step is chosen by the server, the caller is that
\* step's approver (anybody else gets 403), and the CR has a workflow.  The
\* CR's status is not looked at.
DecideRead(v) ==
    /\ linked
    /\ Cardinality(calls) < MaxCalls
    /\ \E o \in Orders :
          /\ IsCurrentStep(o)
          /\ calls' = calls \cup {[order |-> o, verdict |-> v]}
    /\ UNCHANGED <<database, submit, workflow, world>>

\* The signal is accepted while a run is open and overwrites an earlier one for
\* the same step; Temporal refuses it (the handler fails) when none is open.
DecideSend(c) ==
    /\ c \in calls
    /\ calls' = calls \ {c}
    /\ pending' = IF Running THEN [pending EXCEPT ![c.order] = c.verdict]
                             ELSE pending
    /\ UNCHANGED <<database, submit, pc, idx, cancelled, taken, result, tries,
                   done, world>>

\* POST /cancel only signals.
Cancel ==
    /\ linked
    /\ Running
    /\ cancelled' = TRUE
    /\ UNCHANGED <<database, api, pc, idx, pending, taken, result, tries, done,
                   world>>
-----------------------------------------------------------------------------
(* What the transaction of an activity attempt writes. *)

\* Mutant: a step that times out leaves the status as it is.
StatusWrittenUnlessLate(p) ==
    CASE p = "approving" -> "APPROVING"
      [] p = "rejected" -> "REJECTED"
      [] p = "cancelled" -> "CANCELLED"
      [] p = "approved" -> "APPROVED"
      [] p = "apply" -> "APPLIED"
      [] OTHER -> status

StatusWritten(p) ==
    CASE p = "approving" -> "APPROVING"
      [] p \in {"rejected", "timedout"} -> "REJECTED"
      [] p = "cancelled" -> "CANCELLED"
      [] p = "approved" -> "APPROVED"
      [] p = "apply" -> "APPLIED"
      [] OTHER -> status

StageOf(p) ==
    CASE p = "notify7" -> {"T_MINUS_7"}
      [] p = "notify1" -> {"T_MINUS_1"}
      [] p = "notifyApplied" -> {"APPLIED"}
      [] OTHER -> {}

\* record_decision finds its step by step_order.
DecisionWritten(w) ==
    IF w.at = "record" THEN [decision EXCEPT ![w.order] = w.verdict] ELSE decision

\* apply_change replaces the columns in the transaction that writes the status.
SchemaWritten(p) == IF p = "apply" THEN "new" ELSE schema

Commit(w) ==
    /\ status' = StatusWritten(w.at)
    /\ decision' = DecisionWritten(w)
    /\ schema' = SchemaWritten(w.at)
    /\ notices' = notices \cup StageOf(w.at)
    /\ UNCHANGED linked
-----------------------------------------------------------------------------
(* The workflow and its activities. *)

\* The run ends: the workflow object, with the signals it holds, is gone.
Close(r) ==
    /\ pc' = "closed"
    /\ result' = r
    /\ pending' = [o \in Orders |-> None]
    /\ cancelled' = FALSE
    /\ taken' = None
    /\ UNCHANGED idx

\* The next attempt, or the end of the run when there is none left.
AbandonAttempt(t) ==
    \/ /\ t < MaxAttempts
       /\ tries' = t
       /\ UNCHANGED <<pc, idx, pending, cancelled, taken, result>>
    \/ /\ t = MaxAttempts
       /\ tries' = 0
       /\ Close("FAILED")

Attempting == pc \in ActivityPcs /\ ~done

ActivityCommits ==
    /\ Attempting
    /\ Commit(CurrentWrite)
    /\ tries' = tries + 1
    /\ done' = TRUE
    /\ UNCHANGED <<api, pc, idx, pending, cancelled, taken, result, late>>

\* An attempt dies before its commit.  The webhooks of a notification may have
\* been posted by then.
ActivityFails ==
    /\ Attempting
    /\ AbandonAttempt(tries + 1)
    /\ notices' \in {notices, notices \cup StageOf(pc)}
    /\ UNCHANGED <<database, api, done, late>>

\* An attempt commits but the worker dies before it reports.
ResultLost ==
    /\ done
    /\ done' = FALSE
    /\ AbandonAttempt(tries)
    /\ UNCHANGED <<database, api, world>>

\* Five minutes have passed and the attempt is still at work.
ActivityTimesOut ==
    /\ Attempting
    /\ Cardinality(late) < MaxLate
    /\ late' = late \cup {CurrentWrite}
    /\ AbandonAttempt(tries + 1)
    /\ UNCHANGED <<database, api, done, notices>>

LateCommit(w) ==
    /\ w \in late
    /\ late' = late \ {w}
    /\ Commit(w)
    /\ UNCHANGED <<api, workflow>>

\* Mutant: the loop stops one step short of the chain.
LoopAtOneShort(i) == IF i < N THEN "await" ELSE "approved"
\* Entering the loop body for step i, or leaving the loop.
LoopAt(i) == IF i <= N THEN "await" ELSE "approved"

\* sig is not read again once its step has been recorded.
Goto(p, i) ==
    /\ pc' = p
    /\ idx' = i
    /\ taken' = None
    /\ UNCHANGED <<pending, cancelled, result>>

\* Mutant: a recorded rejection does not end the run.
AfterRecordUnchecked == Goto(LoopAt(idx + 1), idx + 1)
\* A rejection ends the run, every other decision goes on to the next step.
AfterRecord == IF taken = "REJECTED" THEN Goto("rejected", idx)
                                     ELSE Goto(LoopAt(idx + 1), idx + 1)

\* run() resumes with the result of its activity.
Resume ==
    \/ pc = "analyze" /\ Goto("approving", idx)
    \/ pc = "approving" /\ Goto(LoopAt(1), 1)
    \/ pc = "record" /\ AfterRecord
    \/ pc = "rejected" /\ Close("REJECTED")
    \/ pc = "timedout" /\ Close("TIMEOUT")
    \/ pc = "cancelled" /\ Close("CANCELLED")
    \/ pc = "approved" /\ \E p \in {"sleep7", "apply"} : Goto(p, idx)  \* scheduled_at or none
    \/ pc = "notify7" /\ Goto("sleep1", idx)
    \/ pc = "notify1" /\ Goto("sleepUntil", idx)
    \/ pc = "apply" /\ Goto("notifyApplied", idx)
    \/ pc = "notifyApplied" /\ Close("APPLIED")

ActivityCompletes ==
    /\ done
    /\ done' = FALSE
    /\ tries' = 0
    /\ Resume
    /\ UNCHANGED <<database, api, world>>

\* wait_condition holds by the signal of this step.
Decided == idx \in Orders /\ pending[idx] # None

\* Mutant: the flag is not looked at when there is a signal.
TakeDecisionFirst ==
    /\ pc = "await"
    /\ Decided
    /\ taken' = pending[idx]
    /\ pending' = [pending EXCEPT ![idx] = None]
    /\ pc' = "record"
    /\ UNCHANGED <<database, api, idx, cancelled, result, tries, done, world>>

\* wait_condition returns and the signal is popped.
TakeDecision ==
    /\ pc = "await"
    /\ ~cancelled
    /\ Decided
    /\ taken' = pending[idx]
    /\ pending' = [pending EXCEPT ![idx] = None]
    /\ pc' = "record"
    /\ UNCHANGED <<database, api, idx, cancelled, result, tries, done, world>>

\* The flag is looked at before the signal, and only in the approval loop.
SeeCancel ==
    /\ pc = "await"
    /\ cancelled
    /\ Goto("cancelled", idx)
    /\ UNCHANGED <<database, api, tries, done, world>>

\* Mutant: the wait for a decision has no timeout.
StepNeverTimesOut == FALSE /\ UNCHANGED vars

\* Seven days pass at one step.  A submit request does not live that long.
StepTimesOut ==
    /\ pc = "await"
    /\ ~cancelled
    /\ ~Decided
    /\ \A h \in Handlers : submit[h] = "idle"
    /\ Goto("timedout", idx)
    /\ UNCHANGED <<database, api, tries, done, world>>

\* Mutant: nothing wakes the workflow at scheduled_at.
TimerFiresForNotices ==
    /\ \/ pc = "sleep7" /\ Goto("notify7", idx)
       \/ pc = "sleep1" /\ Goto("notify1", idx)
    /\ UNCHANGED <<database, api, tries, done, world>>

\* T-7, T-1 and scheduled_at; a moment already past is not waited for.
TimerFires ==
    /\ \/ pc = "sleep7" /\ Goto("notify7", idx)
       \/ pc = "sleep1" /\ Goto("notify1", idx)
       \/ pc = "sleepUntil" /\ Goto("apply", idx)
    /\ UNCHANGED <<database, api, tries, done, world>>
-----------------------------------------------------------------------------
WorkflowStep ==
    \/ ActivityCommits
    \/ ActivityFails
    \/ ResultLost
    \/ ActivityTimesOut
    \/ ActivityCompletes
    \/ TakeDecision
    \/ SeeCancel
    \/ StepTimesOut
    \/ TimerFires

Next ==
    \/ \E h \in Handlers : SubmitCheck(h)
    \/ \E h \in Handlers : SubmitStart(h)
    \/ \E h \in Handlers : SubmitRefused(h)
    \/ \E h \in Handlers : SubmitCommit(h)
    \/ \E h \in Handlers : SubmitCrash(h)
    \/ \E v \in Verdicts : DecideRead(v)
    \/ \E c \in Calls : DecideSend(c)
    \/ Cancel
    \/ \E w \in late : LateCommit(w)
    \/ WorkflowStep

\* Temporal retries activities, fires timers and resumes the workflow as long as
\* a worker polls its task queue, and a submit request that has begun is answered
\* or dies.  Users owe nothing: neither decisions nor submissions are fair.
Fairness ==
    /\ WF_vars(WorkflowStep)
    /\ \A h \in Handlers :
          WF_vars(SubmitStart(h) \/ SubmitRefused(h) \/ SubmitCommit(h) \/ SubmitCrash(h))

Spec == Init /\ [][Next]_vars
FairSpec == Spec /\ Fairness
=============================================================================
