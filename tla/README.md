# A verification project for the lazy Andersen analysis

This directory models and verifies the part of the repository that is its own:
the Andersen points-to analysis in `lib/Analysis/Andersen` (with the headers
`AndersenPass.h` and `AndersenEnumerator.h` in `include/llvm/Analysis`), built
into an otherwise upstream LLVM 3.3 tree. The analysis has no tests and no
design document; its code and comments are the reference.

## The system

The analysis works in two phases (`Phase.h`). *Instruction analysis* scans a
module once and writes down set equations. *Enumeration* solves the equations
lazily, one element at a time, as clients ask for points-to sets.

| Component | State | Operations | What makes it correct |
|---|---|---|---|
| Enumeration engine: `AnalysisResult`, `SubsetWork`, `TransformWorkBase`, `EnumerationContext`, `Enumerator`, `EnumerationResult`, `AndersenEnumerator` | per AnalysisResult (AR): `Set` (values found), `Work` (list of SubsetWorks and TransformWorks, each with an Enumerator into another AR), `Subsets` (every subset it was ever given), `EnumerationDepth`; per activation: list iterator, retry cancellation point | `enumerate` returns the next value, or that there is none; on the way work is inlined, rewritten, retried, erased, inserted | every query ends; a set that claims to be done is the least solution of the equations; no set ever holds more; iterators of suspended activations stay valid |
| `ValueInfo` and the algorithms | per ValueInfo (VI): `Results`, the ARs that algorithms have for it, created on demand | `getAlgorithmResult` in either phase, `addInstructionAnalysisWork`, `run` of each algorithm | one AR per (VI, algorithm); a missing AR means the empty set where the code takes it for one |
| `RelationHandler` | none of its own; fills the work lists | `handleRelation` for seven relations | the equations define Andersen's points-to sets, and their inverse |
| `InstructionAnalyzer` | `Data`, `CurrentFunction`, `PHINodeWork` | `visit*`, `analyzeValue` and what it calls, recursively through constants, globals and aliases | every value is analyzed once; every effect of the program becomes a relation |
| `Data` | `ValueInfos`, `GlobalRegionInfos`, the two external VIs, anonymous VIs | `visitValueInfos` | each VI is visited exactly once |
| `AndersenPass` | `Data`; the enumerators its clients hold | `getHandleToPointsToSet`, `getPointsToSet`, `isPointsToSetEmpty`, `enumerate*`, `runOnModule`, `releaseMemory` | answers agree with the points-to sets, however queries are interleaved |
| `AndersenAliasAnalysis`, with its base class `AliasAnalysis` | pointer to the pass | `alias`, `pointsToConstantMemory`, `getModRefInfo`, `deleteValue`, `copyValue`, `addEscapingUse` | NoAlias only for disjoint points-to sets, also while the program is being changed; mod/ref answers name every effect |
| Graph viewer, `DebugInfo`, names of algorithms | none | printing | not modelled: pure output |
| Registration (`Andersen.cpp`, `tools/opt`) | none | static | not modelled: no behaviour |
| LLVM itself | - | - | what the analysis relies on: linkage, aliases, dominance, the verifier's guarantees, the dominator tree iterator, the base class of alias analyses. The rest is upstream code |

How they interact: `InstructionAnalyzer` calls `RelationHandler` for every
effect it finds; that creates ARs through `ValueInfo` and appends work to them.
Afterwards a client (`AndersenPass`, and `AndersenAliasAnalysis` through it)
advances `AndersenEnumerator`s. Each call runs the engine, which re-enters
itself: to find the next value of one AR it enumerates the ARs in its work
list, and these form cycles whenever the program has loops, recursion or
cyclic data.

There are no threads. What is hard is the re-entrance: an activation of
`AnalysisResult::enumerate` is suspended in the middle of a loop over a list
while the activations above it edit that list, the sets and each other's
positions; several clients hold enumerators at different positions; and
results of five kinds travel through frames of two kinds. `PROJECT.json`
lists these hazards with their lines.

## The modules

| Module | Models |
|---|---|
| `IR` | modules as data: values, linkage, operands, blocks, dominance, and what the verifier makes sure of |
| `ProgramMeaning` | what the constructs of a module mean to Andersen's analysis, without an order or a cache (the reference for `InstructionAnalyzer`) |
| `InstructionAnalyzer` | the walk over a module, the recursive analysis of values with its cache, the visitors; `Data`, which they fill |
| `RelationHandler` | `ValueInfo`, the algorithms and `handleRelation`: how relations become equations, and which of them are created later |
| `ArisingRelations` | the relations of `createData`, and which ones a program can add to others: what `InstructionAnalyzer` guarantees and `RelationHandler` is given |
| `PointsTo` | Andersen's analysis as a textbook defines it (the reference for both) |
| `Equations` | ARs, values and works as data; what a solution of the equations is, and the least one (the reference for the engine); what a cycle of subsets is, and which ARs have nothing to do with any (`Settled`) |
| `Fixpoint`, `Solutions` | least fixed points; the least solution of a system by iteration |
| `AnalysisResult` | the enumeration engine, as a state machine; its properties |
| `LazySets` | what enumeration promises its clients: sets that are found bit by bit, and whole at their end if they are `reliable` (abstract specification) |
| `LazyAnalysisResult` | the refinement: `AnalysisResult` implements `LazySets`, whose reliable sets are the settled ones |
| `AndersenPass` | the queries of the pass and the enumerators of its clients, over `LazySets` |
| `AndersenAliasAnalysis` | `alias` and `pointsToConstantMemory`, one call of the pass at a time, and passes that change the program |
| `ModRef` | the mod/ref queries that the base class puts together from these two |
| `Andersen` | the composition: relations, the equations `RelationHandler` makes of them, the engine that solves these, clients that ask |
| `AnalysisResultProofs` | theorems about `AnalysisResult`, on all systems: its recursion, results, retries and ends; what its sets and works hold |
| `CompletenessProofs` | what `SettledProofs` rests on: lemmas about `AnalysisResult` where there are no cycles of subsets, by which nothing is lost there |
| `SettledProofs` | theorems about `AnalysisResult`, on all systems: nothing is lost of the sets that have nothing to do with a cycle of subsets, and it implements `LazySets` |
| `AndersenPassProofs`, `ModRefProofs` | theorems about `AndersenPass` and `AndersenAliasAnalysis`, and about `ModRef` |
| `RelationHandlerProofs` | theorems about `RelationHandler` |
| `InstructionAnalyzerProofs` | theorems about `InstructionAnalyzer`: its walk and its recursion; what it fills `Data` with and the relations it comes up with |
| `DataLemmas` | facts about the operators on sequences that the models use, for these proofs |
| `MCInstructionAnalyzer`, `MCRelationHandler`, `MCAnalysisResult`, `MCPhiCycle`, `MCLazy`, `MCAndersenPass`, `MCAndersenAliasAnalysis`, `MCModRef`, `MCAndersen` | the instances for TLC: families of modules, systems of equations and programs |

How they fit together:

    IR, ProgramMeaning --- InstructionAnalyzer     Module -> relations
                                   |
    PointsTo ------------- RelationHandler         relations -> equations
                                   |                                  } Andersen
    Equations ------------ AnalysisResult          equations -> values
                                   | implements
                              LazySets             what clients may rely on
                                   |
                             AndersenPass          queries, enumerators
                                   |
                         AndersenAliasAnalysis     alias, constant memory
                                   |
                                ModRef             effects of calls, instructions

### `AnalysisResult` and the code

The C++ functions call each other recursively, `AnalysisResult::enumerate` →
`SubsetWork::enumerate` or `TransformWorkBase::enumerate` →
`Enumerator::enumerate` → `AnalysisResult::enumerate`. The model keeps the
`EnumerationContext`s of the running activations in `stack` and says in `pc`
where the innermost one is:

| `pc` | place in the code | actions |
|---|---|---|
| `idle` | no query is running | `Query` |
| `call` | `AnalysisResult::enumerate` is entered (AnalysisResult.cpp:52) | `EnterRewrite`, `EnterCached`, `EnterRetry`, `EnterRun`: the four ways the lines 59-82 go |
| `run` | head of the loop (line 82) | `RunInline`, `RunRecurse`: the work at `Ctx.Pos` is run; `EndComplete`, `EndCancelRetry`, `EndRetry`: the end of the list, lines 166-190 |
| `return` | a result is returned | `AddNewValue` ... `RewriteBegin`: what the SubsetWork or TransformWork and then the `switch` of lines 84-164 do with it; `Answer`: it reaches the client |
| `rewrite` | loop of lines 135-142 | `RewriteKeep`, `RewriteDrop`, and `RewriteSplice` for lines 144-150 |

One step of the model is one decision of the code together with everything
the code changes before the next call or decision. List iterators are
positions in a sequence: the code only erases at, inserts before or appends
after the position of a suspended iterator, and `IteratorsValid` checks that
the position keeps denoting the work the activation runs. `size_t &i`, the
reference through which a value moves the caller's Enumerator forward, is
`Advance`. The ARs that algorithms create on demand during enumeration are
part of the system from the start (`sys.results`): until something refers to
them they cannot be told from ARs that do not exist.

A system of equations starts in any of the forms instruction analysis can
leave: any work lists, with the subsets noted in `Subsets`, sets that are
empty or hold the one value they are seeded with. Clients ask for any AR at
any position up to its current size, in any order (`Query`): the enumerators
of any number of clients.

### `RelationHandler` and the code

An algorithm is the path it follows: `PointsToAlgorithm` is `<<"self">>`, and
`ThreeHopTraversal<A, B, C>` is the concatenation of three one-hop paths; the
traversal that its second hop is comes out as the tail of the path. An AR is
the pair of an algorithm and a VI, and `heap` holds the ARs that exist, which
is what the `Results` maps of all VIs hold. `getOrCreateAlgorithmResult`,
`run`, `appendSubset` and the eight `For...` operators (one for each
`ForAlgorithm` template of RelationHandler.cpp) take the heap to the next
heap, and `HandleRelation` is one call of `handleRelation` with all it does.

`Init` is the state after `createData`. The relations that follow are those
that `InstructionAnalyzer` can come up with (`Arises`): a load, a call or an
argument defines a new VI, once; PHI nodes and selects depend on any VIs,
also on ones defined later; only functions with a body have arguments and
return values. A relation may be repeated. After `EndInstructionAnalysis`,
`AnalyzeValueInfo` creates the ARs that a TransformWork asks for when it meets
a value of its input; `Solution` is what enumeration then finds. `System`
gives the heap as a system in the sense of `Equations`, the input of
`AnalysisResult`.

Not modelled here: the buckets of the `Results` map. `getOrCreateAlgorithmResult`
keeps a reference into the map while `run` may insert into it
(ValueInfo.cpp:77-79). There are 16 algorithms, and `DenseMap` allocates 64
buckets with the first insertion, before the reference is taken, and grows at
48 entries; so the reference stays valid today, by a margin and not by design.

### `InstructionAnalyzer` and the code

`analyzeValue` recurs through the operands of constants, the initializers of
variables and the aliasees of aliases. The recursion is a stack of frames: the
handler that is running, the operands that are still to be analyzed, the
ValueInfos that came back. An `Analyze...` action is `analyzeValue` entered
for a value that is not in the cache, up to the first call for an operand;
`AnalyzedValue` is the return of such a call; the actions of `Finish` are what
a handler does when its operands are there, relations and cache included. The
actions of `Walk` are the constructor's loops and `processFunction`:
declarations, function and arguments, blocks in the order of the depth-first
iterator over the dominator tree (`NextBlock`), instructions in the order of
the block, PHI nodes last. `Turn` keeps the order variables, aliases,
functions and leaves the order within each open, which is the module's. The
children of a node in the dominator tree have no order one could rely on, so
`NextBlock` chooses any.

The C++ asserts are invariants and not guards: the model goes on as a build
without asserts does. ValueInfos are named by the value they are made for and
counted, so that two for one value are told apart. The relations that come
out are compared with `ProgramMeaning` by their points-to sets (in the sense
of `PointsTo`), not one by one: the code leaves out the ValueInfos and
relations that change nothing, and `RelationsMeanProgram` says that they
change nothing.

`visitValueInfos` of `Data` is the operator of that name: how often it comes
to a ValueInfo. ValueInfos are reference-counted through the maps of `Data`
only; `Owned` is what these refer to.

### `LazySets`, `AndersenPass`, `AndersenAliasAnalysis` and the code

A step of `LazySets` finds an element of some set, or finds a set to be whole,
or gives an answer to the enumerator that is being advanced. That is all that
a client of the engine can see, and all that the modules above it use. The sets
in `reliable` end only when they are whole; others may end before, as
`phi_cycle` shows that some do in the engine, but never hold anything wrong.
What the pass and the alias analysis promise is therefore two-sided for
reliable sets and one-sided for others: a set that ended early may be called
empty, disjoint from another, or constant, and nothing else can be wrong.

The pass and its alias analysis are sequences of calls of `enumerate`, and a
call is several steps of `LazySets`, in which any other set may grow too.
`call` is the running query of `AndersenPass`; `frame` is the running query of
`AndersenAliasAnalysis`, whose field `at` says which call of the pass it waits
for. Queries run one after the other as in the code; what is interleaved is
what other clients hold: each has an enumerator, made at some time, and
advances it between queries of others. `runOnModule` starts from any
contents of the sets that instruction analysis could leave, with the non-lazy
loop in any order (a `DenseMap`'s). `got` and `ended` are history variables.

`meaning` in `AndersenAliasAnalysis` is what the program's values may point to
now, which the callbacks of transformation passes change.

### `ModRef` and the code

`AndersenAliasAnalysis` overrides the mod/ref handlers only to call those of
`AliasAnalysis`, which call back to `alias` and `pointsToConstantMemory` and
then merge what the rest of the chain says. Masks of bits are sets and `&` is
`\cap`. The state is one program, one query and its answer; a program says
what each call does in truth and what is known of it, so that the properties
can compare answers with effects. `rest` makes the chain behind either know
nothing (`NoAA`) or everything: what lies between can only answer between.

### `Andersen`

A program is a sequence of relations. `EquationsOf` is what `RelationHandler`
makes of it, as the initial `sys` of `AnalysisResult`; the ARs are the pairs
of algorithm and VI of `RelationHandler`. Clients query points-to sets, as
`Data` hands out no others, and the sets are compared with Andersen's solution
of the relations.

## The runs

| Run | Bounds | Question | Properties |
|---|---|---|---|
| `linkage` | 2 variables, an alias, an external function, 2 constants; linkage, initializers, aliasees and constants that refer to each other, also in circles (through constants with one source) | is every value analyzed once, and does the result mean the module | `TypeOK`, `CirclesOnlyAgain`, `RecursionEnds`, `RelationsMeanProgram`, `RelationsArise`, `VisitedOnce`, `NothingDangles` |
| `functions` | a function of 4 blocks, one of them unreachable, with an alloca, a PHI node in a loop and 4 more instructions; the first is any, on any operands, the others use its result | are instructions analyzed before their uses, and does the result mean the module | `UsedAfterExecuted`, `RelationsMeanProgram`, `RelationsArise`, `NothingDangles` |
| `shared_constant` | 2 variables that one constant initializes, which mentions one of them | is a value analyzed once | `AnalyzedOnce` (violated) |
| `relations` | the external VIs, two regions and two values; up to 3 relations after those of `createData`, in every order, that mention up to 3 of these four (`MaxMentioned`); enumeration after up to 1 | are the equations Andersen's, and what escapes found | `TypeOK`, `PointsToIsAndersen`, `ReverseIsInverse`, `TransformsDistinct`, `EscapeIsClosed` |
| `cyclic_systems` | 3 ARs, 2 values, 1 algorithm; every work list of up to 2 subsets or 1 transform, in every order | what may never happen in the recursion, and does every query end | `TypeOK`, `IteratorsValid`, `DepthsMirrorStack`, `WellRouted`, `TargetsBelow`, `RetriedWorkRemains`, `PositionsInRange`, `Precise`, `EndMeansDone`, `DoneIsForever`, `QueryAnswered` |
| `settled_systems` | 3 ARs, 2 values, 1 algorithm; work lists of 1 work of either kind, for one AR also of 2; at least one AR has nothing to do with a cycle of subsets (`Settled`), the others may | is anything of such an AR lost, whatever is rewritten elsewhere, and does the engine implement `LazySets` | `EquationsPreserved`, `ImplementsLazySets` |
| `phi_cycle` | the 5 ARs of one loop | is a done set complete | `DoneIsComplete` (violated) |
| `programs` | 6 VIs; up to 3 relations of the program's own in any order, out of two pools: memory, calls; and the 5 relations of a loop that loads and stores through two pointers | from relations to answers: is it Andersen's solution | `SetsAreAndersen` |
| `pass` | 2 sets of up to 2 elements and the empty one, null handles, values that are not found; 2 clients with enumerators; with and without `-andersen-non-lazy`; both sets reliable, or one | are answers and enumerators exact | `QueriesAnswerTruly`, `EnumeratorsExact`, `NonLazyIsWhole` |
| `alias` | 3 regions: external, constant, local; 2 sets and the empty one, both sets reliable or one; 3 values, one of them with a null handle | are alias and constant memory exact, and are they answered | `AATypeOK`, `AliasIsExact`, `ConstantMemoryIsExact`, `QueryIsAnswered` |
| `copied_value` | 2 regions, with `copyValue`, `deleteValue` and `addEscapingUse` | is NoAlias right after a pass has changed the program | `NoAliasIsDisjoint` (violated) |
| `mod_ref` | 2 calls with every behaviour and knowledge of it, 2 pointers, 3 regions, one of them constant | does an answer name every effect | `CallsAreCovered`, `DependencesAreCovered`, `AccessesAreCovered` |

Every run ends within two or three minutes.

Why these bounds are enough to mean something. *Engine*: three ARs allow a
cycle with a third AR entered in the middle, two activations to be rewritten
to one target, a retry that is passed on over an activation that has its own,
and an inline through a chain; all actions fire in `cyclic_systems`. Two
values are needed so that a lost or a premature end is not hidden by the only
value having been found already. Work lists are exhaustive up to the stated
length, so no interesting system was left out by hand. Sets and positions are
bounded by the number of values; there is no artificial bound on the steps.
*Instruction analysis*: two variables and an alias give all circles of two
and three through initializers and aliasees; four blocks give a branch whose
children the dominator tree may list in either order, a join that only one of
them dominates, a loop and an unreachable block that defines an operand of
the PHI node. `MaxValueInfos` only bounds the names of ValueInfos, and
`TypeOK` would be violated if it were reached. *Queries*: with two sets and
two clients an enumerator can be left behind at every position while its set
or another grows; the third set is the one of a null handle. *Mod/ref*: a
query looks at two calls at most, and at each argument separately.

`Precise`, `DoneIsComplete` and `EquationsPreserved` compare with the least
solution in `Equations`, which is defined as the intersection of all solutions
and shares nothing with the engine's way of computing it. The systems of
`RelationHandler` are too large for that definition; `Solutions` iterates. That
both definitions agree is a theorem (`IterationFindsLeast`), and an assumption
of `MCAnalysisResult` checks it on a smaller family with the same kinds of
cycles.

In `relations`, regions double as pointers to themselves, so one
relation on a region does what takes two in a program; with the seven
relations of `createData` always present, three more are enough for a value
stored through one pointer and loaded through another, passed to a function
that is called through a pointer, or returned from it, in either order. The
bound on enumeration limits only how many programs the on-demand creation is
explored for; the solution is compared in every program.

### What the runs show

* The asserts and `llvm_unreachable`s of the engine hold, for every query
  order, on every system of the family: results are routed correctly
  (`WellRouted`), retry and rewrite targets are being enumerated at a lesser
  depth (`TargetsBelow`), the work list is empty at the end exactly if there
  is nothing to retry (`RetriedWorkRemains`), positions are in range.
* Enumeration never invents a value (`Precise`), and an AR that is done never
  changes again (`DoneIsForever`), which `AndersenAliasAnalysis::alias` relies
  on when it keeps a set in hand while enumerating another.
* Of the ARs that have nothing to do with a cycle of subsets nothing is ever
  lost, although transforms may depend on their own output and other ARs, which
  are on such cycles, enumerate them and are rewritten meanwhile
  (`EquationsPreserved`).
* With a cycle of subsets values can be lost (`phi_cycle`): a rewrite moves
  the work of an AR to the rewrite target and leaves the AR with one
  SubsetWork for the target, but its `Subsets` keep the moved entries. When
  the target offers itself for inlining with one of the moved subsets, the AR
  takes it for known and erases the only work it has. Two PHI nodes that take
  each other's value in a loop give such a system, `p = phi(q, s)` and
  `q = phi(p)`: a PHI node has a ValueInfo of its own even if it has one entry
  only (InstructionAnalyzer.cpp:132), while a cast of `p` would share the one of
  `p` (InstructionAnalyzer.cpp:491) and give no cycle. It contradicts the
  promise of `AndersenPass.h:53-54`.
* The equations are right (`PointsToIsAndersen`), for any order of the
  relations and at every point of the on-demand creation: a missing AR may be
  taken for the empty set where the code does so. The forward and the reverse
  rules, which are written separately and use each other's sets, agree
  (`ReverseIsInverse`). The comment that transform steps are unique, on which
  rewriting relies, is true (`TransformsDistinct`).
* Relating one VI with itself in every way gives the closure under what
  external code can do (`EscapeIsClosed`).
* Every query ends, with cycles of every kind (`QueryAnswered`): inlining,
  rewriting and retrying do not go on for ever.
* The engine implements `LazySets` (`ImplementsLazySets`): whatever the
  recursion does to the work lists, a client sees sets grow one element of the
  solution at a time, and a settled one ends when it is whole. `phi_cycle` is
  why this cannot be said of every set.
* What that means for programs. Every program's system has a cycle of subsets:
  `createData` stores the external ValueInfo to itself, so its points-to set
  includes what is stored where it points to, its own points-to set among it.
  That set is therefore never settled, nor, in the pools of `programs`, is that
  of a pointer which comes from an exported region or is put back where it came
  from. But the points-to set of what a program loads, is passed or gets
  returned is, if it exports nothing and does not put it back
  (`OwnPointersAreSettled`, an assumption of `MCAndersen` that TLC evaluates):
  for these the promises of the pass and of alias analysis hold of the system as
  a whole. For the others they hold one-sidedly; that these sets are whole
  nevertheless, for the programs of the pools, is what `programs` checks
  (`SetsAreAndersen`). The pools have none of the PHI nodes that make it false.
* Instruction analysis means what the module means (`RelationsMeanProgram`),
  although overridable symbols have two ValueInfos, values that point to
  nothing have none and values with one source share one; its recursion ends,
  since every global is in the cache before what it mentions is analyzed
  (`RecursionEnds`).
* It does not analyze every value once: a constant that is used to initialize
  a global it mentions is analyzed again while it is under way, and
  `assert(!analyzed(V))` fails (`shared_constant`). Only such constants are
  affected (`CirclesOnlyAgain`). In a build without asserts, nothing is lost
  if the constant has one source. With two, the second analysis replaces the
  ValueInfo of the first, whose last counted reference that was. `linkage`
  leaves such constants out, and `NothingDangles` is false for them: it does not
  say that the hazard at InstructionAnalyzer.cpp:332 is avoided, but that no
  other construct meets it, such as an alias that is mentioned while its aliasee
  is analyzed (the mutant caches it again at its end).
* In functions the dominator tree order is enough for all uses that the
  verifier accepts, in whatever order children come (`UsedAfterExecuted`).
* Queries of the pass tell the truth of reliable sets and enumerators come to
  every element once, however clients interleave (`QueriesAnswerTruly`, `EnumeratorsExact`).
* `alias` and `pointsToConstantMemory` are exact for reliable sets and not only
  safe, although they see sets grow while they work (`AliasIsExact`,
  `ConstantMemoryIsExact`). They are about the program as it was analyzed:
  after `copyValue`, `deleteValue` or `addEscapingUse`, which are not
  implemented, NoAlias may be answered for pointers that may be equal
  (`copied_value`).
* The mod/ref answers that the base class makes out of these name every
  effect (`CallsAreCovered`, `DependencesAreCovered`, `AccessesAreCovered`).

## Fairness

`AnalysisResult!FairSpec` assumes weak fairness of the engine's steps
together: it is straight-line code in the thread of its client; at any state
exactly one of its actions is enabled and nothing waits. `AASpec` assumes weak
fairness of `Proceed`, the steps of a query that is running, for the same
reason. That includes the steps of `LazySets!Serve`, of which any number could
find elements of other sets before the answer comes; as sets are finite they
run out. No fairness is assumed of clients: they may stop asking at any time.
The other specifications have safety properties only.

## Proofs

Every theorem holds for all values of the constants that satisfy the named
assumptions of the modules, and TLC evaluates the assumptions on every run. An
invariant is proved by an inductive one: it holds initially, every action
keeps it (one lemma for each action or kind of action), and it implies the
property. TLC checked the inductive invariants below on the instances of the
runs before they were proved.

### The engine

For every set of ARs, values and algorithms and every family of equation
systems, cyclic ones included. Assumed is that the null objects are not members
(`NullsAssumption`), that systems have the right type (`SystemsAssumption`) and
that no work has begun (`FreshAssumption`: instruction analysis constructs
every `Enumerator` at position 0).

| Theorem | Property | Inductive invariant |
|---|---|---|
| `TypeCorrect`, `IteratorsStayValid`, `DepthsDescribeRecursion` | `TypeOK`, `IteratorsValid`, `DepthsMirrorStack` | `Recursion` |
| `ResultsWellRouted`, `TargetsStayBelow`, `WorkToRetryRemains` | `WellRouted`, `TargetsBelow`, `RetriedWorkRemains` | `Recursion /\ Routing` |
| `EndIsDone`, `DoneStaysDone` | `EndMeansDone`, the action property `DoneIsForever` | the same |
| `SetsArePrecise` | `Precise` | `... /\ EverySound` |
| `PositionsStayInRange` | `PositionsInRange` | `... /\ InRange` |

`Recursion` is the conjunction of the first three properties with `ControlOK`
(which results can be in flight at which `pc`). Iterators stay valid because a
work list is edited at the position of the innermost activation only, and an AR
has one activation at most; that is what `DepthsMirrorStack` says, which in turn
needs the iterators to know which work a suspended activation runs. The proof
has three layers: facts about sequences (`DataLemmas`); facts about frames
(`SameFrames`, `PopFrame`, `PushFrame`) and about the works of suspended
activations (`SetWorkKept`, `EraseCurKept`, `AdvanceKept`); and the lemmas for
the actions, which only say what kind of edit each is.

`Routing` adds what makes the asserts on results true. `ResultRouted`: the
depth of the last transform that was passed to the activation that returned
lies below the target of a rewrite, so that the rewrite meets SubsetWorks only,
and an inline has somewhere to go. `RetriesBelow`: no activation retries at one
above it. `RetriedPassed`: an activation has a retry cancellation point exactly
if it has moved past some work, which is why the list is empty at its end
exactly if there is nothing to retry. `DoneIsForever` follows from the place of
an edit: whoever adds a value or a work to an AR runs it, and runs work of its
list (`SuspendedHasWork`).

`EverySound` says of *every* solution of the initial system that it contains
all sets, satisfies all works, and is respected by the result in flight
(`ResultSound`) and by the chain of subsets between a rewrite and its target
(`ChainSound`). It takes the place of the least solution, which need not be
mentioned until the end: a value in all solutions is in their intersection.
The chain is what makes inlining and rewriting sound: below the last transform
each AR is a subset of the one before it.

`InRange`: no `Enumerator`, neither of a work, nor of the client, nor in a
result, is ahead of its set. Sets only grow, and a position moves only with a
value that was read there.

### What the engine finds

That a set is whole at its end is false in general (`phi_cycle`). It is proved,
in every system, of the ARs in `Settled(sys)`: those in some group that reads
from itself only and in which no AR can come to be a subset of one of its own
subsets (some AR of any part of it has no subsets in that part, those counted
that its transforms can come up with for the values of the solution). Whatever
cycles the other ARs are on, they may enumerate settled ones, at any depth of
the recursion, and inputs of transforms may depend on their outputs, so there
are retries of every kind. Assumed besides the above are, for the refinement
only, that ARs and values are finitely many (`FiniteAssumption`), that a set
starts with at most the one value that is its own (`SeedsAssumption`) and that
"no answer" is none of the answers (`AnswerAssumption`).

| Theorem | Property | Inductive invariant |
|---|---|---|
| `SettledSetsAreWhole` | `DoneIsComplete`, of settled ARs | `PartComplete` |
| `NothingIsLost` | `EquationsPreserved` | `PartComplete` |
| `EnumerationIsLazy` | `ImplementsLazySets` | `PartComplete /\ ClientOK` |
| `IterationFindsLeast` | `IteratedSolution(s) = LeastSolution(s)` | - |

The argument has two halves. `CompletenessProofs` has the one for a system that
is settled altogether, as a long list of lemmas about the actions; no program's
system is like that. `SettledProofs` applies it to the settled part of any
system, by an instance (`In`) of these lemmas for the restricted system
`Restricted(sys)` and for what settled ARs see of the state:

* `PartSet`, `PartWork`, `PartSubsets` are their rows of the tables; the others
  are empty there.
* Since settled ARs read from settled ones only, their activations are the
  innermost ones: those above some `Base` of the stack (`Inside`, `HasBase`).
  `PartStack` is these, with depths counted from the base (`Rebased`).
* Whoever enumerates a settled AR and is none is their client: `PartCursor` is
  the client's enumerator or that of the work which the activation at the base
  runs, and `PartPc` is `idle` while no settled AR is asked or being enumerated.
* A step of the engine below the base is a query, its answer or nothing to the
  settled ARs (`LowerStep`); one above is the same action on the restricted
  system (`UpperStep`). No retry or rewrite gets past the base, since an AR
  that is re-entered above it is settled and so is enumerated above it, too. An
  inline that is offered to the base is, to the settled ARs, the end of the query.
* The least solution of the restricted system is that of the system, for
  settled ARs (`SettledSolution`, `ClosedSolution`).

So `PartComplete`, the engine's invariants of the previous section with
`In!Completeness`, is inductive. The rest of this section is about
`Completeness`, for a system without a cycle of subsets (`NoSubsetCycles`).

`EquationsPreserved` speaks of the moments between queries. It is not inductive:
within a query a value that a transform has read is in no work list until
its subset is pushed, a result in flight says things of the work it came from,
and whether work may be given up depends on all activations below. `Completeness`
is a conjunction of six parts:

* `Known`: the invariants of the previous section, and no cycle of subsets in
  the system that the instance is about.
* `Ordered`: the works, the subsets noted and the chain of activations between
  two transforms go down an order of ARs, the transitive `Lower`, which is
  irreflexive because there are no cycles. It follows that nothing is ever
  rewritten (`NothingRewritten`), which is where `phi_cycle` goes wrong.
* `Positions`: how far each Enumerator has come, seen from its owner. What a
  SubsetWork has passed is in the set of its AR, but for the value being handed
  over (`Seen`); whoever waits for a callee has come to the end of the callee's
  set (`CallersWait`, `ClientWaits`); and what a result says of the AR it came
  from (`ResultMeans`), for an INLINE that it has this one work at this position.
* `Waits`: why work may be passed over. For an activation with a retry
  cancellation point there is a set `Y` of ARs such that all work of `Y`, and
  all work passed over, stands at the end of an input that is in `Y` or is being
  enumerated between the cancellation point and the activation (`PassedFor`).
  When the cancellation point is the activation itself, `Y` with its own AR
  waits for nothing but itself: there is nothing left to be found, and the list
  may be cleared. The set `Y` is different for each activation and never
  appears in the code; it is bound by a quantifier in the invariant.
* `NothingLost`: every family of sets that contains what has been found and
  meets what the works still ask for (`Meets`, where a transform asks nothing
  for the values it has read, and the value in flight is added by `Pending`)
  contains the least solution.
* `Covered`: a subset that is noted in `Subsets` need not be pushed again, or
  an inlined one taken over: for all families that fit (`Fits`) the set contains
  the subset already. It is what `prepareForSubset` rests on.

`NothingLost` is shown for the actions through the least of all such families
(`LeastMeets`), in which an AR with one SubsetWork left is exactly what it has
and its subset (`Exact`): taking over that subset, or dropping it as known,
loses nothing (`InlineSubsetLost`, `DropInlinedLost`). For the clearing of a
list, `EndCancelRetryLost` cuts the sets of `Y` in that family down to what they
hold (`Cut`), and it still meets everything.

`LeftIsWhole` concludes that values and works together still have the least
solution as theirs, between queries; for `EquationsPreserved` this is taken back
to the whole of what is left, in which the settled ARs are still a group that
reads from itself only (`LeftClosed`).

`EnumerationIsLazy` maps the solution to `IteratedSolution(sys)`, the reliable
sets to the settled ones, the sets that are done to those without work, and the
answer to the result once the stack is empty. Each action is then one step of
`LazySets` or none, for any AR, settled or not: `AddNewValue` is `Find`, or
`GiveNew` in the outermost activation; the end of a list, a completed or a
dropped work is `Finish` or `GiveEnd`, for which a settled set must be whole
(`SettledAreDone`); a cached value is `GiveKnown` for the client and nothing for
a work (`NextRefines`). A rewrite is no step of `LazySets`: while its list is
moved an AR may be without work, which does not make it done, and it gets a
SubsetWork in the end (`RewriteRefines`).

### The pass and alias analysis

For every set of ARs, values, regions and clients, from `PassAssumption` (what
instruction analysis leaves has the right type) and `RegionsAssumption`, and
relative to `LazySets`: however lazily sets are found, in whatever order, and
whichever of them are reliable. What is said of others errs to one side only.

| Theorem | Property | Inductive invariant |
|---|---|---|
| `TypeCorrect` | `TypeOK` | `PassInv` |
| `QueriesTellTheTruth` | `QueriesAnswerTruly` | `PassInv` |
| `EnumeratorsAreExact` | `EnumeratorsExact` | `PassInv` |
| `NonLazyComputesAll` | `NonLazyIsWhole` | `PassInv` |
| `AATypeCorrect` | `AATypeOK` | `AAInv` |
| `AliasAnswersExactly` | `AliasIsExact` | `AAInv` |
| `ConstantMemoryAnswersExactly` | `ConstantMemoryIsExact` | `AAInv` |

`PassInv` relates the four copies of a position that exist during a call: the
client's `AndersenEnumerator`, the one of the call, the query that the engine
serves, and the length of the set. `ReaderOK` says that what a client has got is
the set up to its position and that an end it saw is the end of a set that is
done; it survives the growth of the set by anyone because sets only grow at the
end. `AAInv` adds what is known at each place of `alias`
(`AliasOK`: the set of A is whole when the set of B is enumerated, and nothing of
B up to the position was in it) and of `pointsToConstantMemory` (`ConstantOK`), and
that the meaning of values, fixed when instruction analysis ended, is still what
the handles give (`MeaningOK`). Both directions are proved: an answer of
NoAlias is right, if both sets are reliable, and it is given whenever it is
right.

### Mod/ref

For every set of pointers, regions and calls, calls with any number of
arguments and all of their behaviours, from `ProgramsAssumption` (what is known
of a call is true of it): `CallsAlwaysCovered` (`CallsAreCovered`),
`DependencesAlwaysCovered` (`DependencesAreCovered`) and `AccessesAlwaysCovered`
(`AccessesAreCovered`). A query is one step, so the invariant `Covered` is their
conjunction. The argument is in the lemmas about the handlers: a call of which
it is known that it accesses argument pointees only reaches a region through a
`Location` that the handler looks at (`ReachedThroughArguments`); what is masked
out was no effect (`CallAnswer`, `IndependentCallsShareNothing`); `CallsAnswer`
combines the answers for single arguments.

### Relations and equations

For every finite set of ValueInfos and of relations between them, in every
order of handling, with any bounds, from `RegionsAssumption` (there are
finitely many ValueInfos, and regions are among them) and
`ExternalsAssumption` (what the two external ValueInfos are). Comparing two
least fixed points needs no induction over data here: a least fixed point of a
monotone function on a finite lattice is characterised once
(`LeastFixedPointIsLeast` in `DataLemmas`, by the finiteness of the lattice),
and from then on only by being the least.

| Theorem | Property | Inductive invariant |
|---|---|---|
| `RelationHandlerTypes` | `TypeOK` | `Arranged` |
| `TransformsAreDistinct` | `TransformsDistinct` | `Arranged` |
| `EquationsAreAndersen` | `PointsToIsAndersen` | `Arranged` |
| `ReverseSetsAgree` | `ReverseIsInverse` | `Arranged` |
| `EscapesAreClosed` | `EscapeIsClosed` | `Arranged` |

`Arranged` says that the heap is exactly what the inclusions of the handled
relations ask for (`Holds`): which ARs there are, what each holds, that its work is
the one transform of its algorithm and a SubsetWork for each inclusion, once. The
actions keep it because each `For...` operator adds one inclusion (`HandleHolds`)
and enumeration adds ARs as their algorithm makes them. That this gives
Andersen's sets is an argument about one state, in five parts:

1. The textbook's sets are the least that obey the relations (`AndersenIsLeast`).
2. The heap is described by its inclusions (`Holds`).
3. `Solution` is the least assignment of sets to ARs with these inclusions and
   what the traversals find (`SolutionSolves`).
4. Leaving out the ARs that stand between the hops of a traversal, such an
   assignment is a pair of points-to and reverse points-to sets that obey ten
   rules (`SolutionFlows`), and every such pair can be extended to one
   (`FlowsSolve`).
5. The least such pair is Andersen's sets and their inverse: Andersen's sets
   with their inverse are such a pair (`FlowIsSound`); the reverse sets of the
   least pair are no smaller than the inverse of its points-to sets and lead only
   to values that point to as much (`ReverseIsTransitive`, `FlowsAgree`); so it
   obeys the relations and contains Andersen's sets (`FlowIsComplete`).

Part 5 is where the two sets of rules of `RelationHandler.cpp` are weighed
against each other. That a missing AR may count as empty is in part 3: an AR of
an algorithm with `isEmptyIfMissing` has no inclusions if it is missing.

### Instruction analysis

For every set of values and blocks and every well-formed module
(`ModulesAssumption`), with globals and constants that refer to each other in
any way, any number of functions, and any order of the children in a dominator
tree. Well-formed is what the verifier and the IR's own data structures make
sure of (`WellFormed` in `IR`): linkage (`WellLinked`), operands (`WellTyped`),
one place for every instruction and one tree for every function (`WellPlaced`),
definitions that dominate their uses (`DefinedBeforeUse`). Assumed besides are
that a value is of one kind (`KindsAssumption`) and that the null objects are
none of the real ones (`BlocksAssumption`, `NoValueAssumption`,
`NullsAssumption`).

| Theorem | Property | Inductive invariant |
|---|---|---|
| `RecursionAlwaysEnds` | `RecursionEnds` | `Analyzing` |
| `AlwaysUsedAfterExecuted` | `UsedAfterExecuted` | `Analyzing` |
| `OnlyCirclesAreAnalyzedAgain` | `CirclesOnlyAgain` | `Analyzing` |
| `AlwaysTyped` | `TypeOK`, while `created \subseteq VIs` | `Analyzing /\ Knowing` |
| `RelationsAlwaysArise` | `RelationsArise`, while `created \subseteq VIs` | `Analyzing /\ Knowing` |
| `NothingEverDangles` | `NothingDangles`, if `NoCircles(M)` | `Analyzing /\ Knowing` |
| `AlwaysVisitedOnce` | `VisitedOnce`, if `NoCircles(M)` | `Analyzing /\ Knowing` |

`created \subseteq VIs` says that no value has had more than `MaxValueInfos`
ValueInfos, the bound of the runs: `TypeOK` and `RelationsArise` are stated with
the set `VIs` that it bounds, and nothing else depends on it. `NoCircles(M)` says
that no constant is part of what it mentions. It is needed: the second analysis
of such a constant overwrites the reference that the first one left (see
`shared_constant`), and the theorem on the assert says that nothing else does.

`Analyzing` is a conjunction of four parts. `Recurring` is about the stack:
every frame waits for the value of the frame above it (`Framed`), and a global
is in the cache from the push of its frame (`GlobalsCached`). A global that is
asked for again is therefore answered from the cache, and no two frames are of
the same one. `Walking` is about the walk: the visited blocks contain the
immediate dominators of their members (`TreeWalked`), the instructions of
visited blocks have been executed up to the position in the current one
(`CodeExecuted`), and PHI nodes wait for the end of their function
(`PHINodesWait`). `ExecutedOnly` is the reverse: of the instructions that can
be executed, the cache knows only those of functions that have been processed
and those that the walk has passed. `OnlyCircles` says when a frame may find
its own value cached: only a constant, and only if what it mentions leads back
to it.

Dominance and `MentionsItself` are stated with closed sets instead of paths: `a`
dominates `b` if it is in every set that has `b` and, with a block, its
immediate dominator. That is the form the proof uses: the visited blocks are
such a set, so they have what dominates the current block, and no induction on
paths is needed.

`Knowing` is about the data. `Filled` says what is in `Data`: ValueInfos are
numbered as they were made (`Numbered`), so that a new one is new; the cache
has a ValueInfo, and not null, for every global and every address an alias may
stand for (`Cached`); a definition that is in the cache has a region
(`RegionsMade`); anonymous ValueInfos are listed once (`AnonymousKept`); and each
ValueInfo has a place that accounts for it (`Accounted`): one of the two external
ones, a list entry, the entry of its own value, or that of its region. `Related`
says of the relations that each fits the module (`Fits`) and that one which
defines a ValueInfo comes before all others that mention it. `Holds` says of every
frame that it got a ValueInfo or null for each value that it asked for, and none
for what is never null (`FirstIsKept`): an alias has one operand, which is an
address, so `EndGlobalAlias` may use it unseen. `FunctionKnown` is why the region of
the running function is there when an argument, a return or a `va_start` asks
for it, and `PHINodesOwn` why a PHI node still has the ValueInfo it was visited
with. An action's proof is in two halves: what it does to the data
(`AnalyzeData`, `FinishData`, `WalkData`), and what it does to the frames
(`AnalyzeKnows`, `FinishKnows`, `WalkKnows`), which needs only that the data has
grown (`Kept`).

### Only model-checked

* `QueryAnswered` and `QueryIsAnswered`: liveness is out of the prover's reach.
* `SetsAreAndersen`, that is, the composition of what is proved of relations and
  of equations. Its parts are proved: the equations are Andersen's
  (`EquationsAreAndersen`), no set exceeds their solution (`SetsArePrecise`),
  and settled sets that are done are all of it (`SettledSetsAreWhole`). That a
  set which depends on a cycle of subsets, such as createData's, is whole when
  it is done is checked for the programs of the pools only, and cannot hold of
  all programs (`phi_cycle`).
* `InstructionAnalyzer`: `RelationsMeanProgram` compares the results of two
  whole analyses, of which one follows the module and the other does not.
  `NothingDangles` and `VisitedOnce` are proved without circles of constants; that
  a circle of constants with one source does no harm is only model-checked.

## Plan

Every component with control of its own is modelled, and the algorithms are
proved from the recursion up to the queries. What is left, in order:

1. `Andersen`: that the sets an enumerator returns are a subset of Andersen's
   whatever systems of equations there are, from `EverySound` and `FlowsSolve`.
2. One half of `RelationsMeanProgram`: every relation holds in the module's
   meaning.

## Not modelled

* Printing (`AndersenGraphViewer`, `DebugInfo`, the names of algorithms and
  the `write*` and `print*` members): nothing depends on it. Registration.
* LLVM: the repository is a copy of the LLVM 3.3 tree of some 950,000 lines,
  of which the analysis and its headers are 4,300. The rest is upstream code
  that the analysis does not call, with its own tests; what it does call or
  rely on is modelled as listed above. Measured against the whole tree the
  share of lines covered is therefore small and will stay so.
* `InstructionAnalyzer.cpp:432-438`, what happens to an alias without an
  aliasee: the verifier rejects such aliases (Verifier.cpp:485).
* `callCapturesBefore` and `canInstructionRangeModify` of the base class,
  which the handlers of `AndersenAliasAnalysis` do not reach.
* Clients that use enumerators after `releaseMemory`: the contract of the pass
  manager excludes them.
* Memory: ARs and VIs live as long as the pass, except for the overwritten
  cache entry above. The buckets of `Results`, see `RelationHandler`.
* `unsigned` and `int` overflow of depths and positions: both are bounded by
  the number of ARs and VIs in memory.
