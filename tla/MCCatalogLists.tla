---------------------------- MODULE MCCatalogLists ----------------------------
(* Two items, pages of one or two rows, a word and a status that select one each. *)
EXTENDS CatalogLists
MCItems == {1, 2}
MCStored == {1, 2}
MCOrdered == [S \in SUBSET MCItems |-> SetToSortSeq(S, <)]
MCTexts == {1}
MCReady == {2}
\* Four requests let a page be resized while one types, in the models table; those of
\* users, APIs and agents have one fewer, which is enough for Enter during a pause.
MCMaxSent == [k \in DOMAIN Providers |-> IF k \in {"users", "apis", "agents"} THEN 3 ELSE 4]
MCResizeSent == [k \in DOMAIN Providers |-> 4]
=============================================================================
