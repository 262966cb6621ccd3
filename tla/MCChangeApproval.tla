-------------------------- MODULE MCChangeApproval --------------------------
(* Constants of the bounded instances of ChangeApproval. *)
EXTENDS ChangeApprovalProperties, TLC

CONSTANTS h1, h2    \* two submit requests

OneHandler == {h1}
TwoHandlers == {h1, h2}
HandlerSymmetry == Permutations(TwoHandlers)

\* The orders the web form gives a chain of two steps.
TwoSteps == {1, 2}
=============================================================================
