------------------------ MODULE MCAndersenAliasAnalysis ------------------------
(***************************************************************************)
(* A few sets and values for TLC.                                          *)
(***************************************************************************)
EXTENDS AndersenAliasAnalysis

CONSTANTS a1, a2, none,  \* two sets, and the one that is always empty
          x, y, z,       \* regions
          c1, c2,        \* clients
          u, v, w, t, n  \* values; t is unreachable, n is new

(* w points to nothing. *)
MCMaps == {(u :> a1) @@ (v :> a2) @@ (w :> NoAR)}
===============================================================================
