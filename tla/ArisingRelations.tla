----------------------------- MODULE ArisingRelations -----------------------------
(***************************************************************************)
(* The relations of a program: those that createData hands to              *)
(* RelationHandler, and those that InstructionAnalyzer may come up with    *)
(* after others.                                                           *)
(***************************************************************************)
EXTENDS PointsTo

CONSTANTS ExternallyLinkableRegions, ExternallyAccessibleRegions

ASSUME ExternalsAssumption ==
    /\ ExternallyLinkableRegions \in Regions
    /\ ExternallyAccessibleRegions \in VIs \ Regions

-----------------------------------------------------------------------------
(* createData: two special ValueInfos stand for what other translation     *)
(* units can link to and can access.                                       *)

EL == ExternallyLinkableRegions
EA == ExternallyAccessibleRegions

(* Bug: what external functions return is forgotten. *)
createData_NoReturns ==
    <<Relation("DEPENDS_ON", EA, EL),
      Relation("ARGUMENT_TO_CALLEE", EA, EA),
      Relation("LOADED_FROM", EA, EA),
      Relation("STORED_TO", EA, EA),
      Relation("ARGUMENT_FROM_CALLER", EA, EL),
      Relation("RETURNED_TO_CALLER", EA, EL)>>

createData ==
    <<Relation("DEPENDS_ON", EA, EL),
      Relation("ARGUMENT_TO_CALLEE", EA, EA),
      Relation("LOADED_FROM", EA, EA),
      Relation("RETURNED_FROM_CALLEE", EA, EA),
      Relation("STORED_TO", EA, EA),
      Relation("ARGUMENT_FROM_CALLER", EA, EL),
      Relation("RETURNED_TO_CALLER", EA, EL)>>

-----------------------------------------------------------------------------
(* The relations InstructionAnalyzer may come up with after rels. *)

Mentioned(rels, v) == \E R \in rels : v \in {R.Src, R.Dst}

(* The result of a load, a call or an argument is new and is defined once; *)
(* a PHI node, a select or an alias depends on any number of ValueInfos.   *)
(* The externally linkable regions depend on what the module exports, and  *)
(* are what the symbols it imports stand for. Arguments and return values  *)
(* belong to functions with a body.                                        *)
OwnValue(v)  == v \in VIs \ (Regions \cup {EA})
OwnRegion(v) == v \in Regions \ {EL}
Defined(rels, v) == \E R \in rels :
                     /\ R.Src = v
                     /\ R.type \in {"LOADED_FROM", "RETURNED_FROM_CALLEE", "ARGUMENT_FROM_CALLER"}

Arises(rels, R) ==
    /\ EA \notin {R.Src, R.Dst}
    /\ CASE R.type \in {"LOADED_FROM", "RETURNED_FROM_CALLEE"} ->
               OwnValue(R.Src) /\ ~Mentioned(rels, R.Src) /\ R.Dst # R.Src
         [] R.type = "ARGUMENT_FROM_CALLER" ->
               OwnValue(R.Src) /\ ~Mentioned(rels, R.Src) /\ OwnRegion(R.Dst)
         [] R.type = "DEPENDS_ON" ->
               R.Src = EL \/ (OwnValue(R.Src) /\ ~Defined(rels, R.Src))
         [] R.type = "RETURNED_TO_CALLER" -> OwnRegion(R.Dst)
         [] OTHER -> TRUE
===================================================================================
