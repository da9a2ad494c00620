-------------------------- MODULE MCSchemaOpening --------------------------
(* Three processes that open one file. *)
EXTENDS SchemaOpening, TLC

(* Openers are only compared. *)
OpenerSymmetry == Permutations(Opener)
=============================================================================
