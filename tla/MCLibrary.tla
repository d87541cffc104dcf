------------------------------ MODULE MCLibrary ------------------------------
(* An instance of Library for TLC: base 4, two-digit values, one-digit     *)
(* nonces.                                                                 *)
EXTENDS Library

NonceSet == {<<0>>, <<3>>, << >>, <<1, 2>>}
PriceSet == {-5, 0, 1, 13, 99, 700}
LevelSet == {-20, 0, 50, 130}
MomentSet == {0, 599, 600, 1199, 1200, 3800, 7399, 11400, 12000, 27000}
=============================================================================
