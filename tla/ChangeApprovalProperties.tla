---------------------- MODULE ChangeApprovalProperties ----------------------
(***************************************************************************)
(* What ChangeApproval is checked for.                                     *)
(***************************************************************************)
EXTENDS ChangeApproval

-----------------------------------------------------------------------------
(* Safety. *)

\* The approval steps are decided in the order of the chain: a step that has a
\* decision has no undecided step before it (current_pending_step relies on it).
DecidedInOrder ==
    \A o, p \in Orders :
        p < o /\ decision[o] # "PENDING" => decision[p] # "PENDING"

\* A run that is past its approval loop has asked every step of the chain, and
\* none of the decisions in the database is a rejection.
ConsentPastGate ==
    pc \in PastGate =>
        \A i \in 1 .. N : i \in Orders /\ decision[i] # "REJECTED"

\* What the state of the workflow means to the gate.
Phase == IF pc = "none" THEN "idle"
         ELSE IF pc = "closed" THEN "shut"
         ELSE IF pc \in PastGate THEN "open"
         ELSE "review"

\* The schema changes only through the gate: the workflow, its activities and
\* the handlers together implement ApprovalGate.
Gate == INSTANCE ApprovalGate WITH
            ChainLength <- N, phase <- Phase, passed <- idx - 1
GateSpec == Gate!Spec

\* With attempts that outlive their timeouts the gate may have shut meanwhile, but
\* no schema changes before it has opened.
LateGateSpec == Gate!SpecWhenLate

\* The step the API asks (the lowest PENDING one) is the step the workflow waits
\* for, and no step it has still to ask is decided.  There are two exceptions, and no
\* third: the approver of the step before it has sent PENDING, which the workflow goes
\* on from and the API asks again; or the chain has no step of the order it waits
\* for, and none before it is open.
AskedStepIsAwaited ==
    pc = "await" =>
        /\ \A o \in Orders : idx <= o => o \in PendingSteps
        /\ \/ idx \in Orders /\ IsCurrentStep(idx)
           \/ "PENDING" \in Verdicts /\ idx - 1 \in Orders /\ IsCurrentStep(idx - 1)
           \/ idx \notin Orders /\ \A p \in PendingSteps : idx < p

\* Every approver has consented, on record; only the approver of the last step may
\* have sent PENDING instead, which passes it as well.
EveryoneConsented ==
    \A o \in Orders :
        \/ decision[o] \in {"APPROVED", "DELEGATED"}
        \/ "PENDING" \in Verdicts /\ decision[o] = "PENDING" /\ \A p \in Orders : p <= o

\* A dataset whose schema was changed has the consent of every approver on record,
\* also when an activity attempt outlived its timeout.
AppliedWithConsent == schema = "new" => EveryoneConsented

\* No consumer is told of a change that a step rejected or has not passed, and none
\* is told it was applied before it was.
NoticesFollowConsent ==
    /\ notices # {} => EveryoneConsented
    /\ "APPLIED" \in notices => schema = "new"

FinalStatus(r) ==
    CASE r = "APPLIED" -> "APPLIED"
      [] r = "CANCELLED" -> "CANCELLED"
      [] r \in {"REJECTED", "TIMEOUT"} -> "REJECTED"
      [] OTHER -> status

\* When a run has ended the CR's status tells how, unless the commit of its
\* submission came last; no other request and no retry leaves it otherwise.
SettledStatus == pc = "closed" => status \in {FinalStatus(result), "SUBMITTED"}

\* A CR whose workflow waits for an approver is APPROVING: service.py:246 calls the
\* inbox the list of the CRs that are the user's turn now, and it goes by that.
InboxShowsAwaitedCR ==
    pc = "await" /\ (\A h \in Handlers : submit[h] = "idle")
        => status = "APPROVING"
-----------------------------------------------------------------------------
(* Liveness, under FairSpec. *)

\* Every run ends, whoever never answers and whatever fails.
RunCloses == Running ~> ~Running

\* A CR that has passed its last step is applied, or its run fails.
ApprovedIsApplied == pc = "approved" ~> (schema = "new" \/ result = "FAILED")

\* A cancellation that arrives while the workflow still waits for a step, or
\* before it does, wins over any decision that arrived with it.
CancelBeforeDecisionWins ==
    cancelled /\ pc \in {"analyze", "approving", "await"}
        ~> (pc = "closed" /\ result \in {"CANCELLED", "FAILED"})
=============================================================================
