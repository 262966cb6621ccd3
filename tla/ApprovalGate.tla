---------------------------- MODULE ApprovalGate ----------------------------
(***************************************************************************)
(* What the change approval workflow promises about one change request:    *)
(* the schema of the dataset changes only while the gate stands open, and  *)
(* the gate opens only when one review has passed every step of the        *)
(* approval chain, one after the other.  A review may be refused at any    *)
(* step (rejected, cancelled, timed out, or failed) and begun again.       *)
(* ChangeApproval implements this module.                                  *)
(***************************************************************************)
EXTENDS Naturals

CONSTANT ChainLength    \* number of approval steps of the change request, in Nat

VARIABLES
    phase,   \* "idle", "review", "open" or "shut"
    passed,  \* steps passed in the current review
    schema   \* "old" until the change has been applied, then "new"

gateVars == <<phase, passed, schema>>

Init ==
    /\ phase = "idle"
    /\ passed = 0
    /\ schema = "old"

\* A review begins; what an earlier review has passed does not count.
Begin ==
    /\ phase \in {"idle", "shut"}
    /\ phase' = "review"
    /\ passed' = 0
    /\ UNCHANGED schema

\* A step consents and more are to follow.
Pass ==
    /\ phase = "review"
    /\ passed + 1 < ChainLength
    /\ passed' = passed + 1
    /\ UNCHANGED <<phase, schema>>

\* The last step consents and the gate opens at once: there is no review left
\* that a refusal could still reach.
PassLast ==
    /\ phase = "review"
    /\ passed + 1 = ChainLength
    /\ passed' = ChainLength
    /\ phase' = "open"
    /\ UNCHANGED schema

\* A change request with an empty chain needs nobody's consent.
OpenEmpty ==
    /\ phase = "review"
    /\ ChainLength = 0
    /\ phase' = "open"
    /\ UNCHANGED <<passed, schema>>

Shut ==
    /\ phase \in {"review", "open"}
    /\ phase' = "shut"
    /\ UNCHANGED <<passed, schema>>

\* The change is applied, perhaps more than once.
Change ==
    /\ phase = "open"
    /\ passed = ChainLength
    /\ schema' = "new"
    /\ UNCHANGED <<phase, passed>>

Next == Begin \/ Pass \/ PassLast \/ OpenEmpty \/ Shut \/ Change

Spec == Init /\ [][Next]_gateVars

\* An attempt that is still at work may apply the change after the gate has shut,
\* but only while the last review is one that has passed every step.
ChangeLate ==
    /\ passed = ChainLength
    /\ schema' = "new"
    /\ UNCHANGED <<phase, passed>>

SpecWhenLate == Init /\ [][Next \/ ChangeLate]_gateVars
=============================================================================
