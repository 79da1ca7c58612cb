--------------------------- MODULE MCRelationHandler ---------------------------
(***************************************************************************)
(* An instance of RelationHandler for TLC: regions and values of a         *)
(* program, and the two special ValueInfos of Data.                        *)
(***************************************************************************)
EXTENDS RelationHandler

CONSTANTS el, ea, g, h, t1, t2

(* The program's regions are interchangeable, and so are its values. *)
Symmetric == Permutations({g, h}) \cup Permutations({t1, t2})
===============================================================================
