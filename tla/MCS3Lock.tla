------------------------------- MODULE MCS3Lock -------------------------------
(* S3Lock on two clients, with a backoff that grows once.  No symmetry: the *)
(* runs check liveness.                                                     *)
EXTENDS S3Lock
===============================================================================
