--------------------------- MODULE FunctionalOptions ---------------------------
(***************************************************************************)
(* The functional options of the adapters' constructors.  An option is the  *)
(* record of the fields that it sets; a nil option sets none, and an option *)
(* that was given an invalid value panics when it is applied.               *)
(***************************************************************************)
EXTENDS Sequences, SequencesExt

Nil == <<>>
Panic == [panic |-> TRUE]

Panics(opts) == \E i \in DOMAIN opts : "panic" \in DOMAIN opts[i]

(* A header is added to the configured ones, any other field is replaced.   *)
Apply(cfg, option) ==
    [field \in DOMAIN cfg |->
        IF field \notin DOMAIN option THEN cfg[field]
        ELSE IF field = "headers"
             THEN [key \in DOMAIN cfg[field] \union DOMAIN option[field] |->
                     IF key \in DOMAIN option[field]
                     THEN option[field][key] ELSE cfg[field][key]]
             ELSE option[field]]

(* The options in their order, over the defaults. *)
Configure(defaults, opts) == FoldLeft(Apply, defaults, opts)
===============================================================================
