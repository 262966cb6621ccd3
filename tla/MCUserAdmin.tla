------------------------------ MODULE MCUserAdmin ------------------------------
(* Constants of the bounded instances of UserAdmin. *)
EXTENDS UserAdmin, TLC

CONSTANTS a, b, c, h1, h2

ThreeUsers == {a, b, c}
TwoHandlers == {h1, h2}
================================================================================
