---------------------------- MODULE MCFetchKeyMetas ----------------------------
(* Four keys, what EnsureKeyGroup reads by default, and two places for them. *)
EXTENDS FetchKeyMetas

MCCdnOptions == <<Nil, WithConcurrency(2)>>
MCConcurrency == NewCdnConfig(MCCdnOptions).concurrency
===============================================================================
