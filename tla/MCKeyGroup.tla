------------------------------ MODULE MCKeyGroup ------------------------------
(* Two clients and three keys on a group of one or two. *)
EXTENDS KeyGroup, TLC

Symmetry == Permutations(Clients) \union Permutations(Keys)
===============================================================================
