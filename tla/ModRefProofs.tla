------------------------------ MODULE ModRefProofs ------------------------------
(***************************************************************************)
(* Proofs about mod/ref queries: for every set of pointers, regions and    *)
(* calls, and all programs that can be made of them, an answer names every *)
(* effect. As a query is answered in one step, all there is to prove is    *)
(* what the handlers return for a program that is known truly.             *)
(***************************************************************************)
EXTENDS ModRef, TLAPS

(* What is known of a call is true of what it does. *)
LEMMA BehaviorCovers ==
    ASSUME program \in AllPrograms, Sound(program), NEW c \in Calls
    PROVE  Implies(program.does[c], getModRefBehavior(c))
BY DEF Sound, Implies, getModRefBehavior, Both, Behavior

(* A region that a call reads or writes is variable and reachable; what is *)
(* known of the call allows for the effect and for some place.             *)
LEMMA EffectsAreKnown ==
    ASSUME program \in AllPrograms, Sound(program), NEW c \in Calls, NEW r
    PROVE  /\ r \in Reads(c) \cup Writes(c) =>
                 /\ r \in Variable(Reachable(c))
                 /\ getModRefBehavior(c).where # {}
                 /\ getModRefBehavior(c).effects # {}
           /\ r \in Reads(c) => "Ref" \in getModRefBehavior(c).effects
           /\ r \in Writes(c) => "Mod" \in getModRefBehavior(c).effects
<1> DEFINE B == getModRefBehavior(c)
<1>1. Implies(program.does[c], B)
  BY BehaviorCovers
<1>2. r \in Reads(c) => r \in Variable(Reachable(c)) /\ "Ref" \in B.effects
  BY <1>1 DEF Reads, Implies
<1>3. r \in Writes(c) => r \in Variable(Reachable(c)) /\ "Mod" \in B.effects
  BY <1>1 DEF Writes, Implies
<1>4. Reachable(c) # {} => B.where # {}
  BY <1>1 DEF Reachable, Implies
<1> QED
  BY <1>2, <1>3, <1>4 DEF Variable

(* A call that accesses nothing but what its arguments point to reaches a  *)
(* region only through one of them.                                        *)
LEMMA ReachedThroughArguments ==
    ASSUME program \in AllPrograms, Sound(program), NEW c \in Calls, NEW r,
           r \in Reads(c) \cup Writes(c),
           onlyAccessesArgPointees(getModRefBehavior(c))
    PROVE  \E P \in Locations(c) : r \in program.pointsTo[P]
<1> DEFINE B == getModRefBehavior(c)
<1>1. Implies(program.does[c], B)
  BY BehaviorCovers
<1>2. "elsewhere" \notin program.does[c].where
  BY <1>1 DEF Implies, onlyAccessesArgPointees, ArgumentPointees
<1>3. r \in Reachable(c) /\ B.where # {} /\ B.effects # {}
  BY EffectsAreKnown DEF Variable
<1>4. \E P \in PointerArgs(c) : r \in program.pointsTo[P]
  BY <1>2, <1>3 DEF Reachable
<1>5. doesAccessArgPointees(B)
  BY <1>3 DEF doesAccessArgPointees, onlyAccessesArgPointees, ArgumentPointees
<1> QED
  BY <1>4, <1>5 DEF Locations

(* getModRefInfo of a call and a location names every effect of the call   *)
(* on the memory at the location.                                          *)
LEMMA CallAnswer ==
    ASSUME program \in AllPrograms, Sound(program), NEW c \in Calls, NEW P \in Pointers
    PROVE  /\ Overlap(Reads(c), program.pointsTo[P]) => "Ref" \in CallModRef(c, P)
           /\ Overlap(Writes(c), program.pointsTo[P]) => "Mod" \in CallModRef(c, P)
<1> DEFINE B == getModRefBehavior(c)
<1>1. ASSUME NEW r \in Reads(c) \cup Writes(c), r \in program.pointsTo[P]
      PROVE  CallModRef(c, P) = RestEffects(Effects(c), program.pointsTo[P]) \cap CallMask(c, P)
  <2>1. B # DoesNotAccessMemory
    BY EffectsAreKnown, <1>1 DEF DoesNotAccessMemory, Behavior, Nowhere
  <2>2. ASSUME onlyAccessesArgPointees(B)
        PROVE  ArgumentAliases(c, P)
    <3>1. PICK Arg \in Locations(c) : r \in program.pointsTo[Arg]
      BY ReachedThroughArguments, <1>1, <2>2
    <3>2. doesAccessArgPointees(B) /\ Arg \in PointerArgs(c)
      BY <3>1 DEF Locations
    <3>3. ~isNoAlias(Arg, P)
      BY <1>1, <3>1 DEF isNoAlias, Overlap
    <3> QED
      BY <3>2, <3>3 DEF ArgumentAliases
  <2> QED
    BY <2>1, <2>2 DEF CallModRef
<1>2. ASSUME NEW r \in Reads(c), r \in program.pointsTo[P]
      PROVE  "Ref" \in CallModRef(c, P)
  <2>1. "Ref" \in RestEffects(Effects(c), program.pointsTo[P])
    BY <1>2 DEF RestEffects, Effects, Overlap, ModRef
  <2>2. "Ref" \in CallMask(c, P)
    BY DEF CallMask, Ref, Mod, ModRef
  <2> QED
    BY <1>1, <1>2, <2>1, <2>2
<1>3. ASSUME NEW r \in Writes(c), r \in program.pointsTo[P]
      PROVE  "Mod" \in CallModRef(c, P)
  <2>1. "Mod" \in RestEffects(Effects(c), program.pointsTo[P])
    BY <1>3 DEF RestEffects, Effects, Overlap, ModRef
  <2>2. "Mod" \in B.effects /\ r \in Variable(Reachable(c))
    BY EffectsAreKnown, <1>3
  <2>3. ~onlyReadsMemory(B) /\ ~pointsToConstantMemory(P)
    BY <1>3, <2>2 DEF onlyReadsMemory, pointsToConstantMemory, Variable
  <2>4. "Mod" \in CallMask(c, P)
    BY <2>3 DEF CallMask, ModRef
  <2> QED
    BY <1>1, <1>3, <2>1, <2>4
<1> QED
  BY <1>2, <1>3 DEF Overlap

(* What getModRefInfo of two calls masks out, or takes for independence,   *)
(* was no effect.                                                          *)
LEMMA IndependentCallsShareNothing ==
    ASSUME program \in AllPrograms, Sound(program), NEW c \in Calls, NEW d \in Calls, NEW r,
           \/ r \in Reads(c) /\ r \in Writes(d)
           \/ r \in Writes(c) /\ r \in Reads(d) \cup Writes(d)
    PROVE  ~Independent(getModRefBehavior(c), getModRefBehavior(d))
<1>1. /\ getModRefBehavior(c) # DoesNotAccessMemory
      /\ getModRefBehavior(d) # DoesNotAccessMemory
  BY EffectsAreKnown DEF DoesNotAccessMemory, Behavior, Nowhere
<1>2. "Mod" \in getModRefBehavior(c).effects \/ "Mod" \in getModRefBehavior(d).effects
  BY EffectsAreKnown
<1> QED
  BY <1>1, <1>2 DEF Independent, onlyReadsMemory

(* getModRefInfo of two calls names every effect of the first on memory    *)
(* that the second uses.                                                   *)
LEMMA CallsAnswer ==
    ASSUME program \in AllPrograms, Sound(program), NEW c \in Calls, NEW d \in Calls
    PROVE  /\ Overlap(Reads(c), Writes(d)) => "Ref" \in CallsModRef(c, d)
           /\ Overlap(Writes(c), Reads(d) \cup Writes(d)) => "Mod" \in CallsModRef(c, d)
<1> DEFINE B1 == getModRefBehavior(c)
           B2 == getModRefBehavior(d)
           Mask == IF onlyReadsMemory(B1) THEN Ref ELSE ModRef
           Used(r, e) == \/ e = "Ref" /\ r \in Reads(c) /\ r \in Writes(d)
                         \/ e = "Mod" /\ r \in Writes(c) /\ r \in Reads(d) \cup Writes(d)
<1>1. SUFFICES ASSUME NEW r, NEW e, Used(r, e)
               PROVE  e \in CallsModRef(c, d)
  BY DEF Overlap
<1>2. ~Independent(B1, B2)
  BY <1>1, IndependentCallsShareNothing
<1>3. r \in Reads(c) \cup Writes(c) /\ r \in Reads(d) \cup Writes(d)
  BY <1>1
<1>4. e \in Mask
  <2>1. e = "Mod" => "Mod" \in B1.effects
    BY <1>1, EffectsAreKnown
  <2> QED
    BY <1>1, <2>1 DEF Ref, ModRef, onlyReadsMemory
<1>5. \A P \in Locations(c) \cup Locations(d) : P \in Pointers
  BY DEF Locations, PointerArgs
<1>6. CASE onlyAccessesArgPointees(B2)
  <2>1. PICK P \in Locations(d) : r \in program.pointsTo[P]
    BY <1>3, <1>6, ReachedThroughArguments
  <2>2. e \in CallModRef(c, P)
    BY <1>1, <1>5, <2>1, CallAnswer DEF Overlap
  <2> QED
    BY <1>2, <1>4, <1>6, <2>1, <2>2 DEF CallsModRef
<1>7. CASE ~onlyAccessesArgPointees(B2)
  <2>1. ASSUME onlyAccessesArgPointees(B1)
        PROVE  \E P \in Locations(c) : CallModRef(d, P) # NoModRef
    <3>1. PICK P \in Locations(c) : r \in program.pointsTo[P]
      BY <1>3, <2>1, ReachedThroughArguments
    <3>2. "Ref" \in CallModRef(d, P) \/ "Mod" \in CallModRef(d, P)
      BY <1>3, <1>5, <3>1, CallAnswer DEF Overlap
    <3> QED
      BY <3>1, <3>2 DEF NoModRef
  <2>2. e \in RestBetween(c, d)
    BY <1>1 DEF RestBetween, Overlap, ModRef
  <2>3. CallsModRef(c, d) = RestBetween(c, d) \cap Mask
    BY <1>2, <1>7, <2>1 DEF CallsModRef
  <2> QED
    BY <1>4, <2>2, <2>3
<1> QED
  BY <1>6, <1>7

(* getModRefInfo of an instruction that accesses the memory at P.          *)
LEMMA InstructionAnswer ==
    ASSUME NEW op \in Opcodes \ {"fence"}, NEW ordered \in BOOLEAN,
           NEW P \in Pointers, NEW Q \in Pointers,
           Variable(program.pointsTo[P] \cap program.pointsTo[Q]) # {}
    PROVE  /\ op # "store" => "Ref" \in InstructionModRef(op, ordered, P, Q)
           /\ op # "load" => "Mod" \in InstructionModRef(op, ordered, P, Q)
<1>1. ~isNoAlias(P, Q) /\ ~pointsToConstantMemory(Q)
  BY DEF isNoAlias, Overlap, pointsToConstantMemory, Variable
<1> QED
  BY <1>1 DEF InstructionModRef, ModRef, Ref, Mod, Opcodes

-----------------------------------------------------------------------------
(* The program is one that is known truly, and an answer names every       *)
(* effect. Every step starts with no query, so nothing else is needed.     *)
Covered ==
    /\ program \in ProgramsToAsk
    /\ CallsAreCovered
    /\ DependencesAreCovered
    /\ AccessesAreCovered

LEMMA CoveredInit == Init => Covered
BY DEF Init, Covered, NoQuery, Query, CallsAreCovered, DependencesAreCovered,
       AccessesAreCovered, Opcodes

LEMMA CoveredStep == Covered /\ [Next]_vars => Covered'
<1> SUFFICES ASSUME Covered, [Next]_vars PROVE Covered'
  OBVIOUS
<1>1. program \in AllPrograms /\ Sound(program)
  BY ProgramsAssumption DEF Covered
<1>2. CASE AskAboutCall
  <2>1. PICK c \in Calls, Q \in Pointers :
            Answers(Query("call", c, NoCall, NoPointer, Q, FALSE), CallModRef(c, Q))
    BY <1>2 DEF AskAboutCall
  <2>2. /\ query'.op = "call" /\ query'.c = c /\ query'.Q = Q
        /\ answer' = CallModRef(c, Q) /\ program' = program
    BY <2>1 DEF Answers, Query
  <2>3. CallsAreCovered'
    BY <1>1, <2>2, CallAnswer DEF CallsAreCovered, Reads, Writes, Reachable, PointerArgs
  <2> QED
    BY <2>2, <2>3 DEF Covered, DependencesAreCovered, AccessesAreCovered, Opcodes
<1>3. CASE AskAboutCalls
  <2>1. PICK c \in Calls, d \in Calls :
            Answers(Query("calls", c, d, NoPointer, NoPointer, FALSE), CallsModRef(c, d))
    BY <1>3 DEF AskAboutCalls
  <2>2. /\ query'.op = "calls" /\ query'.c = c /\ query'.d = d
        /\ answer' = CallsModRef(c, d) /\ program' = program
    BY <2>1 DEF Answers, Query
  <2>3. DependencesAreCovered'
    BY <1>1, <2>2, CallsAnswer DEF DependencesAreCovered, Reads, Writes, Reachable, PointerArgs
  <2> QED
    BY <2>2, <2>3 DEF Covered, CallsAreCovered, AccessesAreCovered, Opcodes
<1>4. CASE AskAboutInstruction
  <2>1. PICK op \in Opcodes, P \in Pointers, Q \in Pointers, ordered \in BOOLEAN :
            Answers(Query(op, NoCall, NoCall, P, Q, ordered), InstructionModRef(op, ordered, P, Q))
    BY <1>4 DEF AskAboutInstruction
  <2>2. /\ query'.op = op /\ query'.P = P /\ query'.Q = Q
        /\ answer' = InstructionModRef(op, ordered, P, Q) /\ program' = program
    BY <2>1 DEF Answers, Query
  <2>3. AccessesAreCovered'
    BY <2>2, InstructionAnswer DEF AccessesAreCovered, Variable
  <2> QED
    BY <2>2, <2>3 DEF Covered, CallsAreCovered, DependencesAreCovered, Opcodes
<1>5. CASE UNCHANGED vars
  BY <1>5 DEF vars, Covered, CallsAreCovered, DependencesAreCovered, AccessesAreCovered,
              Reads, Writes, Reachable, PointerArgs, Variable, Overlap
<1> QED
  BY <1>2, <1>3, <1>4, <1>5 DEF Next

(* Whatever a call may do to the memory at a location, the answer of       *)
(* getModRefInfo(ImmutableCallSite, Location) names it.                    *)
THEOREM CallsAlwaysCovered == Spec => []CallsAreCovered
<1>1. Covered => CallsAreCovered
  BY DEF Covered
<1> QED
  BY CoveredInit, CoveredStep, <1>1, PTL DEF Spec

(* Whatever a call may do to memory that another one uses, the answer of   *)
(* getModRefInfo(ImmutableCallSite, ImmutableCallSite) names it.           *)
THEOREM DependencesAlwaysCovered == Spec => []DependencesAreCovered
<1>1. Covered => DependencesAreCovered
  BY DEF Covered
<1> QED
  BY CoveredInit, CoveredStep, <1>1, PTL DEF Spec

(* Whatever an instruction does to memory that may be that at a location,  *)
(* the answer of getModRefInfo names it, also where it may be constant.    *)
THEOREM AccessesAlwaysCovered == Spec => []AccessesAreCovered
<1>1. Covered => AccessesAreCovered
  BY DEF Covered
<1> QED
  BY CoveredInit, CoveredStep, <1>1, PTL DEF Spec
===============================================================================
