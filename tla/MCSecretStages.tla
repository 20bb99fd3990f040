---------------------------- MODULE MCSecretStages ----------------------------
(* Two clients, whose calls are chosen freely. *)
EXTENDS SecretStages, TLC

Symmetry == Permutations(Clients) \union Permutations(Versions)
===============================================================================
