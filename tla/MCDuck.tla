------------------------------- MODULE MCDuck -------------------------------
(* An error in a request and a transaction, to two providers of which the  *)
(* second is strict and has a beforeSend, and one that registers late.      *)
EXTENDS DuckInv

CONSTANTS err, tx, lax, strict, late

MCType == [g \in Captures |-> IF g = tx THEN "transactions" ELSE "errors"]

MCInitial == <<lax, strict>>

MCPrivacy == [p \in Providers |->
  [request |-> p # strict, headers |-> p = lax, env |-> p # late]]

MCShape == [s \in Sections |->
  CASE s \in {"headers", "env"} -> <<"map">>
    [] s = "extra" -> <<"map", "list", "list", "map">>
    [] s = "breadcrumbs" -> <<"maps">>
    [] OTHER -> << >>]
=============================================================================
