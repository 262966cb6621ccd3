---------------------------- MODULE MCModelRegistry ----------------------------
(* Constants of the bounded instance of ModelRegistry. *)
EXTENDS ModelRegistry, TLC

CONSTANTS m1, m2, x, y, t1, t2

TwoModels == {m1, m2}
TwoNames == {x, y}
TwoTasks == {t1, t2}
Symmetry == Permutations(TwoModels) \cup Permutations(TwoNames) \cup Permutations(TwoTasks)
================================================================================
