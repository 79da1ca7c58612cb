------------------------------- MODULE Fixpoint -------------------------------
(***************************************************************************)
(* Least fixed points in finite lattices.                                  *)
(***************************************************************************)

(* The least fixed point above bottom of F, a monotone and inflationary    *)
(* function from a finite lattice to itself.                               *)
LeastFixedPoint(F, bottom) ==
    LET lfp[S \in DOMAIN F] == LET T == F[S] IN IF T = S THEN S ELSE lfp[T]
    IN  lfp[bottom]
===============================================================================
