------------------------------- MODULE PointsTo -------------------------------
(***************************************************************************)
(* Andersen's analysis as a textbook defines it: the points-to sets that a *)
(* set of relations between ValueInfos asks for (RelationType.h), with the *)
(* regions' contents, parameters and return values as explicit sets, and   *)
(* without algorithms, reverse sets, work lists or laziness. It is what    *)
(* the equations of RelationHandler are compared with.                     *)
(***************************************************************************)
EXTENDS Fixpoint, FiniteSets

CONSTANTS VIs,       \* the ValueInfos
          Regions    \* those that are regions: they point to themselves

ASSUME RegionsAssumption == Regions \subseteq VIs /\ IsFiniteSet(VIs)

RelationTypes == {"ARGUMENT_FROM_CALLER", "ARGUMENT_TO_CALLEE", "DEPENDS_ON", "LOADED_FROM",
                  "RETURNED_FROM_CALLEE", "RETURNED_TO_CALLER", "STORED_TO"}

Relations == [type : RelationTypes, Src : VIs, Dst : VIs]

Relation(t, s, d) == [type |-> t, Src |-> s, Dst |-> d]

-----------------------------------------------------------------------------
(* The unknowns: what each ValueInfo points to and, for each region, what  *)
(* its memory, its parameters and its return value point to.               *)
Unknowns == ({"points-to"} \X VIs) \cup ({"memory", "parameters", "return"} \X Regions)

pt(S, v) == S[<<"points-to", v>>]

(* What the unknowns called part hold for the regions v may point to. *)
Contents(S, part, v) == UNION {S[<<part, r>>] : r \in pt(S, v)}

(* The relations of rels with the given type. *)
OfType(rels, t) == {R \in rels : R.type = t}

(* Everything a relation of rels stores into this part of the region r. *)
FlowsInto(rels, S, t, r) == UNION {pt(S, R.Src) : R \in {Q \in OfType(rels, t) : r \in pt(S, Q.Dst)}}

Derived(rels, S, u) ==
    LET From(t) == {R.Dst : R \in {Q \in OfType(rels, t) : Q.Src = u[2]}}
    IN  CASE u[1] = "points-to" ->
               UNION {{u[2]} \cap Regions,
                      UNION {pt(S, d) : d \in From("DEPENDS_ON")},
                      UNION {Contents(S, "memory", d) : d \in From("LOADED_FROM")},
                      UNION {Contents(S, "return", d) : d \in From("RETURNED_FROM_CALLEE")},
                      UNION {S[<<"parameters", d>>] : d \in From("ARGUMENT_FROM_CALLER")}}
          [] u[1] = "memory"     -> FlowsInto(rels, S, "STORED_TO", u[2])
          [] u[1] = "parameters" -> FlowsInto(rels, S, "ARGUMENT_TO_CALLEE", u[2])
          [] u[1] = "return"     ->
               UNION {pt(S, R.Src) : R \in {Q \in OfType(rels, "RETURNED_TO_CALLER") : Q.Dst = u[2]}}

(* The points-to sets, and the contents of the regions, that rels imply. *)
Andersen(rels) ==
    LET Step == [S \in [Unknowns -> SUBSET Regions] |-> [u \in Unknowns |-> S[u] \cup Derived(rels, S, u)]]
    IN  LeastFixedPoint(Step, [u \in Unknowns |-> {}])
===============================================================================
