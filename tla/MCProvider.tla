----------------------------- MODULE MCProvider -----------------------------
(* Small instances of Provider: which event is of which type. *)
EXTENDS ProviderInv

CONSTANTS e1, e2, e3, e4

(* Two errors, a log and a transaction. *)
MixedTypes == [e \in Events |-> CASE e \in {e1, e2} -> "errors"
                                  [] e = e3 -> "logs"
                                  [] OTHER -> "transactions"]

(* Errors only: everything competes for one buffer. *)
ErrorsOnly == [e \in Events |-> "errors"]
=============================================================================
