----------------------------- MODULE MCS3Objects -----------------------------
(* Two clients update one object under its lock. *)
EXTENDS S3Objects, TLC

Symmetry == Permutations(Clients)
===============================================================================
