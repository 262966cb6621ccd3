------------------------------ MODULE MCWebPages ------------------------------
(***************************************************************************)
(* One page of the web application is open: one with a data panel, or the  *)
(* glossary with its tree.  The machine of the other kind stands still.    *)
(***************************************************************************)
EXTENDS PanelsProperties, GlossaryTree

\* TLC finds a name in a function faster than in a record.
PanelCatalog == [n \in DOMAIN AllPanels |-> AllPanels[n]]

NoPanel ==
    /\ panel = Catalog["relationshipForm"] /\ key = 1 /\ srv = <<>> /\ shown = <<>> /\ jobs = {}
    /\ missed = {} /\ acts = MaxActs /\ busy = [f \in Flags |-> None]
NoTree ==
    /\ tree = <<>> /\ view = <<>> /\ checked = {} /\ moves = [i \in AtOnce |-> NoMove] /\ fetching = FALSE
    /\ clicks = MaxClicks /\ others = MaxOthers /\ crossed = FALSE

PageInit ==
    \/ PanelInit /\ NoTree
    \/ TreeInit /\ NoPanel
PageNext ==
    \/ PanelNext /\ UNCHANGED treeVars
    \/ TreeNext /\ UNCHANGED vars
PageSpec == PageInit /\ [][PageNext]_<<vars, treeVars>>
===============================================================================
