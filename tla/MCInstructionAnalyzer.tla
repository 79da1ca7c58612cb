------------------------- MODULE MCInstructionAnalyzer -------------------------
(***************************************************************************)
(* Families of modules for TLC.                                            *)
(***************************************************************************)
EXTENDS InstructionAnalyzer, TLC

CONSTANTS g, h,        \* global variables
          a,           \* an alias
          f, e,        \* functions; e is external
          c, d,        \* constant expressions or aggregates
          p,           \* the argument of f
          x, i, j, k, t, u,  \* instructions of f: x is an alloca, k a PHI node
          null,        \* a value that points to nothing
          b0, b1, b2, b3     \* the blocks of f; b3 is unreachable

(* What every module of a family has in common. *)
Skeleton(vars_, aliases, fns, consts, insts) ==
    [declarations |-> {e} \cap fns, local |-> {}, overridable |-> {}, void |-> {},
     operands |-> [v \in vars_ \cup aliases \cup consts \cup insts |-> <<>>],
     opcode |-> [v \in insts |-> "fence"],
     args |-> [v \in fns |-> <<>>],
     entry |-> [v \in fns |-> NoBlock],
     code |-> [b \in BasicBlocks |-> <<>>],
     idom |-> [b \in BasicBlocks |-> NoBlock]]

-----------------------------------------------------------------------------
(* Globals that mention each other through constants, in modules without   *)
(* code: every way of linking them, and initializers in circles.           *)

GlobalsSkeleton == Skeleton({g, h}, {a}, {e}, {c, d}, {})

GlobalsWith(inits, cOps, dOps, aliasees, overridables, locals) ==
    {[GlobalsSkeleton EXCEPT
         !.operands = (g :> <<o.g>>) @@ (h :> <<o.h>>) @@ (a :> <<o.a>>) @@ (c :> o.c) @@ (d :> o.d),
         !.overridable = o.weak, !.local = o.local \ o.weak] :
        o \in [g : inits, h : inits, c : cOps, d : dOps, a : aliasees,
               weak : overridables, local : locals]}

Sources(m, v) == Len(SelectSeq(m.operands[v], LAMBDA o : o # null))

(* A constant that comes back to itself has one source. *)
LinkageModules ==
    {m \in GlobalsWith({c, d, h, null}, {<<g, e>>, <<null, a>>, <<null>>}, {<<c>>, <<h, c>>},
                       {g, h, c}, SUBSET {g, h, a}, {{}, {g, h}, {a}})
           \cup GlobalsWith({c, d, g, null}, {<<g>>, <<h, g>>, <<g, null>>}, {<<c>>, <<h, c>>, <<a, e>>, <<null, c>>},
                           {h, c}, {{}, {h}, {a}}, {{}, {g}}) :
        WellFormed(m) /\ \A v \in Constants : MentionsItself(m, v) => Sources(m, v) = 1}

(* The constant that two globals share, one of which it mentions.          *)
SharedConstantModules ==
    GlobalsWith({c}, {<<g>>}, {<<>>}, {g}, {{}}, {{}})
-----------------------------------------------------------------------------
(* One function: b0 dominates b1 and b2, and b2 may be executed after b1   *)
(* and after the unreachable b3. f is weak, so its value is not only its   *)
(* own region, or local.                                                   *)

FunctionSkeleton ==
    [Skeleton({g}, {}, {f, e}, {}, {x, i, j, k, t, u}) EXCEPT
        !.operands = [@ EXCEPT ![g] = <<null>>, ![u] = <<i>>],
        !.opcode = [@ EXCEPT ![x] = "alloca", ![k] = "phi", ![u] = "user"],
        !.args = (f :> <<p>>) @@ (e :> <<>>),
        !.entry = (f :> b0) @@ (e :> NoBlock),
        !.code = (b0 :> <<x, i>>) @@ (b1 :> <<j>>) @@ (b2 :> <<k, t>>) @@ (b3 :> <<u>>),
        !.idom = (b0 :> NoBlock) @@ (b1 :> b0) @@ (b2 :> b0) @@ (b3 :> NoBlock)]

Inst(op, ops, void) == [op |-> op, ops |-> ops, void |-> void]

Voids == {"store", "memset", "memcpy", "memmove", "va_start", "va_copy", "va_end", "fence", "ret"}
Plain(op, ops) == Inst(op, ops, op \in Voids)

(* Every opcode with one operand or two out of W. *)
Unary(W)  == {Plain(op, <<v>>) : op \in {"load", "va_arg", "va_start", "ret", "user", "call"}, v \in W}
Binary(W) == {Plain(op, <<v, w>>) : op \in {"store", "memset", "cmpxchg", "atomicrmw", "memcpy", "memmove",
                                            "va_copy", "call", "user"}, v \in W, w \in W}
                \cup {Inst("call", <<v, w>>, TRUE) : v \in W, w \in W}
Others    == {Plain("fence", <<>>), Plain("va_end", <<x>>), Plain("ret", <<>>)}

(* An instruction without a result is not used; the argument is instead.   *)
UseResults(m) ==
    [m EXCEPT !.operands = [v \in DOMAIN @ |-> [n \in DOMAIN @[v] |-> IF @[v][n] \in m.void THEN p ELSE @[v][n]]]]

FunctionsWith(iInsts, jInsts, kOps, tInsts, weaks) ==
    {UseResults([FunctionSkeleton EXCEPT
        !.operands = [@ EXCEPT ![i] = o.i.ops, ![j] = o.j.ops, ![k] = o.k, ![t] = o.t.ops],
        !.opcode   = [@ EXCEPT ![i] = o.i.op, ![j] = o.j.op, ![t] = o.t.op],
        !.void     = {q \in {i, j, t} : o[ToString(q)].void},
        !.overridable = o.weak, !.local = {f} \ o.weak]) :
        o \in [i : iInsts, j : jInsts, k : kOps, t : tInsts, weak : weaks]}

(* The first instruction is any, on every kind of operand; what follows    *)
(* uses its result, keeps it in a loop and hands it on.                    *)
FunctionModules ==
    FunctionsWith(Unary({x, p, f, null}) \cup Binary({x, p, null}) \cup Others,
                  {Plain("load", <<i>>), Plain("store", <<x, i>>), Plain("call", <<e, i>>)},
                  {<<j, u>>, <<k, i>>},
                  {Plain("ret", <<k>>), Inst("call", <<k, p>>, TRUE)},
                  {{}, {f}})
================================================================================
