------------------------------ MODULE GlossaryTree ------------------------------
(***************************************************************************)
(* The tree of the glossary page: a person ticks categories and moves them *)
(* under another one, a call for each, on a copy of the tree that is only  *)
(* fetched after their own operations; others change the tree meanwhile.   *)
(* The server stores whatever parent it is given.                          *)
(***************************************************************************)
EXTENDS Naturals, FiniteSets

CONSTANTS
    Nodes,     \* categories that may ever exist
    MaxClicks,  \* how often the person clicks
    MaxOthers, \* how often somebody else changes the tree
    Root

ASSUME RootIsNoNode == Root \notin Nodes
ASSUME FinitelyManyNodes == IsFiniteSet(Nodes)
ASSUME TreeBounds == MaxClicks \in Nat /\ MaxOthers \in Nat

VARIABLES
    tree,     \* the server's categories, each with its parent
    view,     \* terms: the tree as the page last fetched it
    checked,  \* checkedIds
    moves,    \* the moves under way, each with its target, what is left, what was ticked
    fetching, \* load() is under way
    clicks, others,
    crossed   \* ghost: a move met a tree that its view did not show, or was met by a change

treeVars == <<tree, view, checked, moves, fetching, clicks, others, crossed>>
NoMove == [to |-> Root, left |-> {}, all |-> {}]
AtOnce == {1, 2}                        \* moves at once
Moving == \E i \in AtOnce : moves[i] # NoMove
Free == IF moves[1] = NoMove THEN 1 ELSE 2

(***************************************************************************)
(* buildTree and collectIds.                                               *)
(***************************************************************************)
\* n and everything below it.
collectIds(t, n) ==
    LET below[i \in 0..Cardinality(DOMAIN t)] ==
            IF i = 0 THEN {n} ELSE below[i - 1] \cup {m \in DOMAIN t : t[m] \in below[i - 1]}
    IN  below[Cardinality(DOMAIN t)]

\* What hangs on a root; a node whose parent is unknown is one.
Roots(t) == {n \in DOMAIN t : t[n] \notin DOMAIN t}
buildTree(t) == UNION {collectIds(t, n) : n \in Roots(t)}

(***************************************************************************)
(* The picker shows no ticked category, and so nothing below one.          *)
(***************************************************************************)
\* Mutant: only the ticked categories themselves are left out.
PickerByName == (buildTree(view) \ checked) \cup {Root}

FolderTreePicker ==
    (buildTree(view) \ UNION {collectIds(view, n) : n \in checked}) \cup {Root}

(***************************************************************************)
(* The person.                                                             *)
(***************************************************************************)
Clicked == clicks < MaxClicks /\ clicks' = clicks + 1

toggleCheck(n) ==
    /\ Clicked /\ n \in buildTree(view)
    /\ checked' = (checked \ {n}) \cup ({n} \ checked)
    /\ UNCHANGED <<tree, view, moves, fetching, others, crossed>>

\* The ticks that a move to t acts on: those below t stay where they are.
Acted(t) == {n \in checked : n # t /\ (t # Root => n \notin collectIds(view, t))}

\* The picker stays open while a move is under way.
moveTo(t) ==
    /\ Clicked /\ moves[Free] = NoMove /\ checked # {} /\ t \in FolderTreePicker
    /\ moves' = [moves EXCEPT ![Free] = [to |-> t, left |-> Acted(t), all |-> checked]]
    /\ crossed' = (crossed \/ view # tree \/ Moving)
    /\ UNCHANGED <<tree, view, checked, fetching, others>>

\* Mutant: the first call that works ends the move.
MoveOnlyOne(i, n) ==
    /\ n \in moves[i].left /\ n \in DOMAIN tree /\ moves[i].to \in DOMAIN tree \cup {Root}
    /\ tree' = [tree EXCEPT ![n] = moves[i].to]
    /\ moves' = [moves EXCEPT ![i].left = {}]
    /\ UNCHANGED <<view, checked, fetching, clicks, others, crossed>>

updateGlossaryTerm(i, n) ==
    /\ n \in moves[i].left /\ n \in DOMAIN tree /\ moves[i].to \in DOMAIN tree \cup {Root}
    /\ tree' = [tree EXCEPT ![n] = moves[i].to]
    /\ moves' = [moves EXCEPT ![i].left = @ \ {n}]
    /\ UNCHANGED <<view, checked, fetching, clicks, others, crossed>>

\* A call that fails leaves the loop: nothing is fetched, the ticks stay.  Its
\* category or the target is gone, or the answer was lost on either way.
MoveFails(i) ==
    /\ moves[i].left # {}
    /\ \E n \in moves[i].left :
         tree' \in {tree} \cup IF n \in DOMAIN tree /\ moves[i].to \in DOMAIN tree \cup {Root}
                               THEN {[tree EXCEPT ![n] = moves[i].to]} ELSE {}
    /\ moves' = [moves EXCEPT ![i] = NoMove]
    /\ UNCHANGED <<view, checked, fetching, clicks, others, crossed>>

MoveEnds(i) ==
    /\ moves[i] # NoMove /\ moves[i].left = {}
    /\ moves' = [moves EXCEPT ![i] = NoMove] /\ checked' = {} /\ fetching' = TRUE
    /\ UNCHANGED <<tree, view, clicks, others, crossed>>

handleCreate(n, t) ==
    /\ Clicked /\ n \in Nodes \ DOMAIN tree /\ t \in buildTree(view) \cup {Root}
    /\ t \in DOMAIN tree \cup {Root}
    /\ tree' = [m \in DOMAIN tree \cup {n} |-> IF m = n THEN t ELSE tree[m]]
    /\ fetching' = TRUE /\ crossed' = (crossed \/ Moving)
    /\ UNCHANGED <<view, checked, moves, others>>

\* The server refuses while something is below; the ticks are not touched.
Removed(n) == [m \in DOMAIN tree \ {n} |-> tree[m]]
deleteNode(n) ==
    /\ Clicked /\ n \in buildTree(view) /\ n \in DOMAIN tree /\ collectIds(tree, n) = {n}
    /\ tree' = Removed(n) /\ fetching' = TRUE /\ crossed' = (crossed \/ Moving)
    /\ UNCHANGED <<view, checked, moves, others>>

load ==
    /\ fetching /\ fetching' = FALSE
    /\ view' \in {tree, view}
    /\ UNCHANGED <<tree, checked, moves, clicks, others, crossed>>

(***************************************************************************)
(* Somebody else, on a tree just fetched: no cycle from them.              *)
(***************************************************************************)
Other ==
    /\ others < MaxOthers /\ others' = others + 1
    /\ \E n \in DOMAIN tree :
         \/ \E t \in (DOMAIN tree \ collectIds(tree, n)) \cup {Root} : tree' = [tree EXCEPT ![n] = t]
         \/ collectIds(tree, n) = {n} /\ tree' = Removed(n)
    /\ crossed' = (crossed \/ Moving)
    /\ UNCHANGED <<view, checked, moves, fetching, clicks>>

(***************************************************************************)
(* The specification: any forest, just fetched.                            *)
(***************************************************************************)
Forests == {t \in UNION {[ns -> ns \cup {Root}] : ns \in SUBSET Nodes} : buildTree(t) = DOMAIN t}

TreeInit ==
    /\ tree \in Forests /\ view = tree
    /\ checked = {} /\ moves = [i \in AtOnce |-> NoMove] /\ fetching = FALSE
    /\ clicks = 0 /\ others = 0 /\ crossed = FALSE

TreeNext ==
    \/ \E n \in Nodes : toggleCheck(n) \/ deleteNode(n)
    \/ \E n \in Nodes, t \in Nodes \cup {Root} : handleCreate(n, t)
    \/ \E t \in Nodes \cup {Root} : moveTo(t)
    \/ \E i \in AtOnce, n \in Nodes : updateGlossaryTerm(i, n)
    \/ \E i \in AtOnce : MoveFails(i) \/ MoveEnds(i)
    \/ load \/ Other

TreeSpec == TreeInit /\ [][TreeNext]_treeVars

(***************************************************************************)
(* Properties.                                                             *)
(***************************************************************************)
\* Moves made on a tree that was shown as it is, one at a time, never put a
\* category below itself, which would take it and all below it off the page.
ForestUnlessCrossed == ~crossed => buildTree(tree) = DOMAIN tree

\* When such a move ends, every ticked category that still exists has the new
\* parent, but for the target and what was below it already, which stay.
MoveMovesWhatIsElsewhere ==
    [][\A i \in AtOnce : MoveEnds(i) /\ ~crossed =>
         \A n \in moves[i].all \cap DOMAIN tree :
             \/ n = moves[i].to \/ tree[n] = moves[i].to
             \/ (moves[i].to # Root /\ n \in collectIds(view, moves[i].to))]_treeVars
=================================================================================
