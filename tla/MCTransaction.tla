---------------------------- MODULE MCTransaction ----------------------------
(* Small instances of Transaction. *)
EXTENDS TransactionInv, TLC

(* Spans are told apart only by the order in which they are started, and no *)
(* property is about the content of a map beyond its being the same.        *)
Symmetry == Permutations(Spans) \union Permutations(Contents)
=============================================================================
