-------------------------------- MODULE MCModRef --------------------------------
(***************************************************************************)
(* Small programs for TLC.                                                 *)
(***************************************************************************)
EXTENDS ModRef, TLC

CONSTANTS p, q, n,  \* pointers, and an integer
          x, y, k,  \* regions; k is constant
          c1, c2

(* How a call may behave, and be known to behave. *)
Known == {b \in [does : ModRefBehaviors, site : ModRefBehaviors, function : ModRefBehaviors] :
             Implies(b.does, b.site) /\ b.function \in {b.does, UnknownModRefBehavior}}

MCPrograms ==
    {[pointsTo |-> (p :> o.p) @@ (q :> o.q),
      args |-> (c1 :> o.args1) @@ (c2 :> o.args2),
      does |-> (c1 :> o.b1.does) @@ (c2 :> o.b2.does),
      site |-> (c1 :> o.b1.site) @@ (c2 :> o.b2.site),
      function |-> (c1 :> o.b1.function) @@ (c2 :> o.b2.function),
      rest |-> o.rest] :
        o \in [p : {{}, {x}, {x, k}, {k}}, q : {{x}, {y}, {k}, {y, k}},
               args1 : {<<p>>, <<n, q>>}, args2 : {<<>>, <<q>>, <<q, p>>},
               b1 : Known, b2 : {b \in Known : b.site = b.function},
               rest : BOOLEAN]}
===============================================================================
