----------------------------- MODULE MCWebSession -----------------------------
(* Two accounts in one tab, a few token pairs, two operations at once. *)
EXTENDS WebSession
=============================================================================
