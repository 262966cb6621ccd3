------------------------------ MODULE MCComments ------------------------------
(* Constants of the bounded instances of Comments. *)
EXTENDS Comments, TLC

CONSTANTS h1, h2

TwoWriters == {h1, h2}
WriterSymmetry == Permutations(TwoWriters)
===============================================================================
