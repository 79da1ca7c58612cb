------------------------------ MODULE MCPhiCycle ------------------------------
(***************************************************************************)
(* The equations of two PHI nodes in a loop, one of them with one entry:   *)
(*     p = phi(q, s)    q = phi(p)    s = select(c, &x, &y)                *)
(* A PHI node has a ValueInfo of its own whatever its entries are          *)
(* (InstructionAnalyzer.cpp:132), unlike a cast of p, which would share    *)
(* the one of p (InstructionAnalyzer.cpp:491).                             *)
(***************************************************************************)
EXTENDS AnalysisResult, TLC

CONSTANTS f, x, y, p, q, s, rx, ry

MCAlgs == {f}
MCVIs  == {x, y}
MCARs  == {p, q, s, rx, ry}

PhiCycle ==
    [set |-> (p :> <<>>) @@ (q :> <<>>) @@ (s :> <<>>) @@ (rx :> <<x>>) @@ (ry :> <<y>>),
     work |-> (p :> <<SubsetWork(q), SubsetWork(s)>>) @@ (q :> <<SubsetWork(p)>>)
              @@ (s :> <<SubsetWork(rx), SubsetWork(ry)>>) @@ (rx :> <<>>) @@ (ry :> <<>>),
     results |-> f :> [v \in MCVIs |-> NoAR]]

MCSystems == {PhiCycle}
===============================================================================
