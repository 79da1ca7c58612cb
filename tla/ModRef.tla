--------------------------------- MODULE ModRef ---------------------------------
(***************************************************************************)
(* Mod/ref queries of AndersenAliasAnalysis. Its own handlers only call    *)
(* those of AliasAnalysis, which do more than forward: with this being     *)
(* AndersenAliasAnalysis they come back to its alias and                   *)
(* pointsToConstantMemory, and they merge in what the rest of the chain of *)
(* alias analyses says.                                                    *)
(*                                                                         *)
(* Bits that are or'd and and'd are sets here.                             *)
(***************************************************************************)
EXTENDS Sequences, SequencesExt, FiniteSetsExt

CONSTANTS Pointers,
          Scalars,         \* values that are not of pointer type
          Regions, ConstantRegions,
          Calls, NoCall, NoPointer,
          ProgramsToAsk    \* the programs that queries are about

ASSUME ConstantRegionsAssumption == ConstantRegions \subseteq Regions

VARIABLES program, query, answer

vars == <<program, query, answer>>

-----------------------------------------------------------------------------
ModRefResults == SUBSET {"Mod", "Ref"}

NoModRef == {}
Ref      == {"Ref"}
Mod      == {"Mod"}
ModRef   == {"Mod", "Ref"}

Behavior(where, effects) == [where |-> where, effects |-> effects]

Nowhere          == {}
ArgumentPointees == {"arguments"}
Anywhere         == {"arguments", "elsewhere"}

DoesNotAccessMemory          == Behavior(Nowhere, NoModRef)
OnlyReadsArgumentPointees    == Behavior(ArgumentPointees, Ref)
OnlyAccessesArgumentPointees == Behavior(ArgumentPointees, ModRef)
OnlyReadsMemory              == Behavior(Anywhere, Ref)
UnknownModRefBehavior        == Behavior(Anywhere, ModRef)

ModRefBehaviors == {DoesNotAccessMemory, OnlyReadsArgumentPointees, OnlyAccessesArgumentPointees,
                    OnlyReadsMemory, UnknownModRefBehavior}

(* Bitwise and. *)
Both(b, c) == Behavior(b.where \cap c.where, b.effects \cap c.effects)

Implies(b, c) == b.where \subseteq c.where /\ b.effects \subseteq c.effects

onlyReadsMemory(MRB)         == "Mod" \notin MRB.effects
onlyAccessesArgPointees(MRB) == MRB.where \subseteq ArgumentPointees
doesAccessArgPointees(MRB)   == MRB.effects # {} /\ "arguments" \in MRB.where

(* pointsTo is what AndersenPass answers. does is how a call behaves in    *)
(* truth; site and function are what the rest of the chain knows of it by  *)
(* way of the call site and of the called function, if that is known. rest *)
(* tells whether the rest of the chain knows more than NoAA about memory.  *)
AllPrograms == [pointsTo : [Pointers -> SUBSET Regions],
                args     : [Calls -> Seq(Pointers \cup Scalars)],
                does     : [Calls -> ModRefBehaviors],
                site     : [Calls -> ModRefBehaviors],
                function : [Calls -> ModRefBehaviors],
                rest     : BOOLEAN]

Sound(p) == \A c \in Calls : Implies(p.does[c], p.site[c]) /\ Implies(p.does[c], p.function[c])

ASSUME ProgramsAssumption == \A p \in ProgramsToAsk : p \in AllPrograms /\ Sound(p)

-----------------------------------------------------------------------------
(* What the program does to memory. Loads from constant regions do not     *)
(* count (AliasAnalysis.h:238) and stores to them cannot be.               *)

Variable(S) == S \ ConstantRegions

PointerArgs(c) == ToSet(program.args[c]) \cap Pointers

Reachable(c) ==
    IF "elsewhere" \in program.does[c].where THEN Regions
    ELSE IF "arguments" \in program.does[c].where THEN UNION {program.pointsTo[P] : P \in PointerArgs(c)}
    ELSE {}

Reads(c)  == IF "Ref" \in program.does[c].effects THEN Variable(Reachable(c)) ELSE {}
Writes(c) == IF "Mod" \in program.does[c].effects THEN Variable(Reachable(c)) ELSE {}

Overlap(S, T) == S \cap T # {}

-----------------------------------------------------------------------------
(* The rest of the chain: as vague as NoAA, or as exact as can be. *)

RestEffects(S, T) ==
    IF program.rest THEN {e \in ModRef : IF e = "Ref" THEN Overlap(S.reads, T) ELSE Overlap(S.writes, T)}
    ELSE ModRef

Effects(c) == [reads |-> Reads(c), writes |-> Writes(c)]

(* See AndersenAliasAnalysis!AliasIsExact, !ConstantMemoryIsExact. *)
isNoAlias(P, Q) == ~Overlap(program.pointsTo[P], program.pointsTo[Q])

pointsToConstantMemory(P) == program.pointsTo[P] \subseteq ConstantRegions

(* Of the function, if it is known, and of the call site. *)
getModRefBehavior(c) == Both(program.site[c], program.function[c])

-----------------------------------------------------------------------------
(* getModRefInfo of a call and a location. *)

(* Bug: only the first argument is looked at. *)
ArgumentAliases_First(c, P) ==
    /\ doesAccessArgPointees(getModRefBehavior(c))
    /\ \E Arg \in PointerArgs(c) : Arg = Head(program.args[c]) /\ ~isNoAlias(Arg, P)

(* Some pointer argument may alias P. *)
ArgumentAliases(c, P) ==
    /\ doesAccessArgPointees(getModRefBehavior(c))
    /\ \E Arg \in PointerArgs(c) : ~isNoAlias(Arg, P)

(* What calls that behave like that can do to the location. *)
CallMask(c, P) ==
    IF onlyReadsMemory(getModRefBehavior(c)) THEN Ref
    ELSE IF pointsToConstantMemory(P) THEN ModRef \ Mod ELSE ModRef

CallModRef(c, P) ==
    IF \/ getModRefBehavior(c) = DoesNotAccessMemory
       \/ onlyAccessesArgPointees(getModRefBehavior(c)) /\ ~ArgumentAliases(c, P)
    THEN NoModRef
    ELSE RestEffects(Effects(c), program.pointsTo[P]) \cap CallMask(c, P)

-----------------------------------------------------------------------------
(* getModRefInfo of two calls: what the first does to memory that the      *)
(* second uses.                                                            *)

(* Each pointer argument of c is a location. *)
Locations(c) == IF doesAccessArgPointees(getModRefBehavior(c)) THEN PointerArgs(c) ELSE {}

RestBetween(c, d) ==
    IF program.rest THEN {e \in ModRef : IF e = "Ref" THEN Overlap(Reads(c), Writes(d))
                                         ELSE Overlap(Writes(c), Reads(d) \cup Writes(d))}
    ELSE ModRef

(* Bug: two calls are taken to be independent if one of them only reads. *)
Independent_EitherReads(B1, B2) ==
    DoesNotAccessMemory \in {B1, B2} \/ onlyReadsMemory(B1) \/ onlyReadsMemory(B2)

Independent(B1, B2) ==
    DoesNotAccessMemory \in {B1, B2} \/ (onlyReadsMemory(B1) /\ onlyReadsMemory(B2))

CallsModRef(c, d) ==
    LET B1   == getModRefBehavior(c)
        B2   == getModRefBehavior(d)
        Mask == IF onlyReadsMemory(B1) THEN Ref ELSE ModRef
    IN  IF Independent(B1, B2) THEN NoModRef
        ELSE IF onlyAccessesArgPointees(B2)
        THEN Mask \cap UNION {CallModRef(c, P) : P \in Locations(d)}
        ELSE IF onlyAccessesArgPointees(B1) /\ \A P \in Locations(c) : CallModRef(d, P) = NoModRef
        THEN NoModRef
        ELSE RestBetween(c, d) \cap Mask

-----------------------------------------------------------------------------
(* getModRefInfo of the instructions that access the memory at P. Ordered  *)
(* ones may make accesses of other threads visible.                        *)

Opcodes == {"load", "store", "va_arg", "cmpxchg", "atomicrmw", "fence"}

(* Bug: a store to what may be constant changes nothing. *)
InstructionModRef_PerhapsConstant(op, ordered, P, Q) ==
    IF op = "fence" \/ (ordered /\ op # "va_arg") THEN ModRef
    ELSE IF isNoAlias(P, Q) THEN NoModRef
    ELSE IF op \in {"store", "va_arg"} /\ Overlap(program.pointsTo[Q], ConstantRegions) THEN NoModRef
    ELSE IF op = "load" THEN Ref ELSE IF op = "store" THEN Mod ELSE ModRef

InstructionModRef(op, ordered, P, Q) ==
    IF op = "fence" \/ (ordered /\ op # "va_arg") THEN ModRef
    ELSE IF isNoAlias(P, Q) THEN NoModRef
    ELSE IF op \in {"store", "va_arg"} /\ pointsToConstantMemory(Q) THEN NoModRef
    ELSE IF op = "load" THEN Ref ELSE IF op = "store" THEN Mod ELSE ModRef

-----------------------------------------------------------------------------
Query(op, c, d, P, Q, ordered) == [op |-> op, c |-> c, d |-> d, P |-> P, Q |-> Q, ordered |-> ordered]
NoQuery == Query("none", NoCall, NoCall, NoPointer, NoPointer, FALSE)

Init == program \in ProgramsToAsk /\ query = NoQuery /\ answer = NoModRef

Answers(q, result) == query' = q /\ answer' = result /\ UNCHANGED program

AskAboutCall ==
    \E c \in Calls, Q \in Pointers :
        Answers(Query("call", c, NoCall, NoPointer, Q, FALSE), CallModRef(c, Q))

AskAboutCalls ==
    \E c, d \in Calls :
        Answers(Query("calls", c, d, NoPointer, NoPointer, FALSE), CallsModRef(c, d))

AskAboutInstruction ==
    \E op \in Opcodes, P, Q \in Pointers, ordered \in BOOLEAN :
        Answers(Query(op, NoCall, NoCall, P, Q, ordered), InstructionModRef(op, ordered, P, Q))

Next == query = NoQuery /\ (AskAboutCall \/ AskAboutCalls \/ AskAboutInstruction)

Spec == Init /\ [][Next]_vars

-----------------------------------------------------------------------------
(* Properties. *)

(* docs/AliasAnalysis.rst:145-148: the answer names whatever the call may  *)
(* do to the memory at the location.                                       *)
CallsAreCovered ==
    query.op = "call" =>
        /\ Overlap(Reads(query.c), program.pointsTo[query.Q]) => "Ref" \in answer
        /\ Overlap(Writes(query.c), program.pointsTo[query.Q]) => "Mod" \in answer

(* docs/AliasAnalysis.rst:150-156: what the first call may do to memory    *)
(* that the second uses. The answer is made up of answers about arguments, *)
(* of either call, and of the rest of the chain.                           *)
DependencesAreCovered ==
    query.op = "calls" =>
        LET c == query.c
            d == query.d
        IN  /\ Overlap(Reads(c), Writes(d)) => "Ref" \in answer
            /\ Overlap(Writes(c), Reads(d) \cup Writes(d)) => "Mod" \in answer

(* The same for instructions: reads and writes of memory at P where it may *)
(* be the memory at Q.                                                     *)
AccessesAreCovered ==
    query.op \in Opcodes \ {"fence"} =>
        LET Shared == Variable(program.pointsTo[query.P] \cap program.pointsTo[query.Q])
        IN  Shared # {} =>
               /\ query.op # "store" => "Ref" \in answer
               /\ query.op # "load" => "Mod" \in answer
===============================================================================
