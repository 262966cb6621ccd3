---------------------------- MODULE MCMetadataCache ----------------------------
(* Constants of the bounded instances of MetadataCache. *)
EXTENDS MetadataCache, TLC

CONSTANTS u1, u2, r1

OneUrn == {u1}
TwoUrns == {u1, u2}
OneRequest == {r1}
UrnSymmetry == Permutations(TwoUrns)
================================================================================
