------------------------------ MODULE MCDineIn ------------------------------
(* DineIn on small instances: one table, and orders, tickets and payments     *)
(* enough for a second round of each.                                         *)
EXTENDS DineIn, TLC

Symmetric == Permutations(Orders) \union Permutations(Kots) \union Permutations(Payments)
             \union Permutations(Calls)
=============================================================================
