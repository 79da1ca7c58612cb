---------------------------- MODULE MCAndersenPass ----------------------------
(***************************************************************************)
(* A few sets and values for TLC.                                          *)
(***************************************************************************)
EXTENDS AndersenPass

CONSTANTS a1, a2, none,  \* two sets, and the one that is always empty
          x, y,          \* regions
          c1, c2,        \* clients
          u, v, w, t     \* values; t is an unreachable instruction

(* w points to nothing. *)
MCMaps == {(u :> a1) @@ (v :> a2) @@ (w :> NoAR)}
===============================================================================
