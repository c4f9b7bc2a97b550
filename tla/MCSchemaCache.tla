--------------------------- MODULE MCSchemaCache ----------------------------
(* Two types, the first with two documents, which are alike, as are the      *)
(* contents of documents. Schemas a and b index different fields, and b      *)
(* refers to the type q.                                                     *)
EXTENDS SchemaCache, TLC

CONSTANTS p, q, d1, d2, a, b

MCTypeOf  == (d1 :> p @@ d2 :> p)
MCSchemas == {[fp |-> a, targets |-> {}], [fp |-> b, targets |-> {q}]}

Symmetry == Permutations({d1, d2}) \union Permutations(Contents)
=============================================================================
