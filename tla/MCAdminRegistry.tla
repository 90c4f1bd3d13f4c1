--------------------------- MODULE MCAdminRegistry ---------------------------
(* Instances of AdminRegistry for TLC. *)
EXTENDS AdminRegistry, TLC

(* Only whether it sets policies tells one bundle name from another. *)
Symmetry == Permutations(Names \ Holders)
=============================================================================
