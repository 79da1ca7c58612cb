---------------------------- MODULE AnalysisResult ----------------------------
(***************************************************************************)
(* The lazy enumeration engine: AnalysisResult::enumerate with the         *)
(* SubsetWork, TransformWorkBase and EnumerationContext code it runs.      *)
(*                                                                         *)
(* The functions call each other recursively through the work lists. The   *)
(* recursion is an explicit stack of EnumerationContexts, and pc says      *)
(* where the innermost activation is:                                      *)
(*   "idle"     no query is running                                        *)
(*   "call"     AR->enumerate(Depth, LastTransformDepth, i) is entered     *)
(*   "run"      at the head of the loop over the work list                 *)
(*   "rewrite"  in the loop that prepares the work list for the splice     *)
(*   "return"   result is being returned to the innermost activation, or   *)
(*              to AndersenEnumerator::enumerate when the stack is empty   *)
(***************************************************************************)
EXTENDS Equations

CONSTANT Systems    \* the equation systems instruction analysis may leave

ASSUME SystemsAssumption == Systems \subseteq EquationSystems

(* Instruction analysis makes every Enumerator at position 0, the default  *)
(* argument of its constructor, and advances none.                         *)
ASSUME FreshAssumption ==
    \A s \in Systems : \A a \in ARs : \A k \in DOMAIN s.work[a] : s.work[a][k].i = 0

VARIABLES
    sys,               \* the equations as instruction analysis left them
    Set,               \* AR -> the values found so far, in order
    Work,              \* AR -> the work list
    Subsets,           \* AR -> the subsets it has ever been given
    EnumerationDepth,  \* AR -> depth of its activation, -1 if it has none
    stack,             \* the EnumerationContexts, outermost first
    cursor,            \* the AndersenEnumerator that is being advanced
    result,            \* the EnumerationResult being returned
    pc

vars == <<sys, Set, Work, Subsets, EnumerationDepth, stack, cursor, result, pc>>

Enumerators == [AR : ARs \cup {NoAR}, i : Nat]
Nobody      == [AR |-> NoAR, i |-> 0]

(* Pos is the position in the work list, Retry the retry cancellation      *)
(* point found so far. The context's Depth is its index in stack minus 1.  *)
Contexts == [AR : ARs, LTD : Nat \cup {-1}, Pos : Nat \ {0}, Retry : ARs \cup {NoAR}]

NextValue(v)  == [type |-> "NEXT_VALUE", VI |-> v, AR |-> NoAR, i |-> 0]
Inline(E)     == [type |-> "INLINE", VI |-> NoVI, AR |-> E.AR, i |-> E.i]
Retry(a)      == [type |-> "RETRY", VI |-> NoVI, AR |-> a, i |-> 0]
Rewrite(a)    == [type |-> "REWRITE", VI |-> NoVI, AR |-> a, i |-> 0]
Complete      == [type |-> "COMPLETE", VI |-> NoVI, AR |-> NoAR, i |-> 0]
NoResult      == [type |-> "NONE", VI |-> NoVI, AR |-> NoAR, i |-> 0]

ResultTypes == {"NEXT_VALUE", "INLINE", "RETRY", "REWRITE", "COMPLETE", "NONE"}

EnumerationResults == [type : ResultTypes, VI : VIs \cup {NoVI}, AR : ARs \cup {NoAR}, i : Nat]

-----------------------------------------------------------------------------
(* The innermost activation. *)

Ctx   == stack[Len(stack)]
This  == Ctx.AR
Depth == Len(stack) - 1
Cur   == Work[This][Ctx.Pos]

AtEnd == Ctx.Pos > Len(Work[This])

(* The Enumerator whose AR->enumerate is entered, and the depths it passes. *)
Callee    == IF stack = <<>> THEN cursor ELSE [AR |-> Cur.AR, i |-> Cur.i]
CalleeLTD == IF stack = <<>> THEN -1
             ELSE IF IsTransform(Cur) THEN Depth ELSE Ctx.LTD

(* Bug: depth 0 is taken for "not enumerating". *)
isEnumerating_NotAtDepth0(a) == EnumerationDepth[a] > 0

isEnumerating(a) == EnumerationDepth[a] >= 0

(* AnalysisResult::prepareForSubset: whether s is a new subset of a, and   *)
(* the entry it leaves in Subsets.                                         *)
prepareForSubset(a, s) == s # a /\ s \notin Subsets[a]
NoteSubset(a, s) == Subsets' = [Subsets EXCEPT ![a] = @ \cup ({s} \ {a})]

canInline == Depth > Ctx.LTD + 1 /\ Len(Work[This]) = 1

-----------------------------------------------------------------------------
(* Effects that several steps share. *)

SetPos(p)  == stack' = [stack EXCEPT ![Len(stack)].Pos = p]
SetWork(w) == Work' = [Work EXCEPT ![This] = w]
EraseCur   == SetWork(RemoveAt(Work[This], Ctx.Pos))

Goto(l)    == pc' = l /\ result' = NoResult
Return(er) == pc' = "return" /\ result' = er

(* ++i on the caller's Enumerator, for the activations stk that remain. *)
Advance(stk) ==
    IF stk = <<>>
    THEN cursor' = [cursor EXCEPT !.i = @ + 1] /\ UNCHANGED Work
    ELSE /\ Work' = [Work EXCEPT ![Last(stk).AR][Last(stk).Pos].i = @ + 1]
         /\ UNCHANGED cursor

(* Bug: the destructor of ScopedSetEnumerating does not reset the depth. *)
Leave_KeepsDepth(er) == stack' = Front(stack) /\ UNCHANGED EnumerationDepth /\ Return(er)

(* AnalysisResult::enumerate returns er; its ScopedSetEnumerating ends. *)
Leave(er) == /\ stack' = Front(stack)
             /\ EnumerationDepth' = [EnumerationDepth EXCEPT ![This] = -1]
             /\ Return(er)

-----------------------------------------------------------------------------
(* A client advances an AndersenEnumerator of the AR a that has seen i     *)
(* elements: AR->enumerate(0, -1, i).                                      *)
Query(a, i) ==
    /\ pc = "idle"
    /\ cursor' = [AR |-> a, i |-> i]
    /\ Goto("call")
    /\ UNCHANGED <<sys, Set, Work, Subsets, EnumerationDepth, stack>>

(* The result reaches AndersenEnumerator::enumerate, which hands the value *)
(* or null to the client. It does not expect any other result.             *)
Answer ==
    /\ pc = "return" /\ stack = <<>>
    /\ result.type \in {"NEXT_VALUE", "COMPLETE"}
    /\ Goto("idle")
    /\ cursor' = Nobody
    /\ UNCHANGED <<sys, Set, Work, Subsets, EnumerationDepth, stack>>

-----------------------------------------------------------------------------
(* Entering AnalysisResult::enumerate. *)

(* Bug: a TransformWork in between is overlooked. *)
IsRewrite_PastTransforms == isEnumerating(Callee.AR)

IsRewrite == CalleeLTD < EnumerationDepth[Callee.AR]
IsCached  == Callee.i < Len(Set[Callee.AR])

(* The callee is being enumerated and only SubsetWorks lie in between. *)
EnterRewrite ==
    /\ pc = "call" /\ IsRewrite
    /\ Return(Rewrite(Callee.AR))
    /\ UNCHANGED <<sys, Set, Work, Subsets, EnumerationDepth, stack, cursor>>

EnterCached ==
    /\ pc = "call" /\ ~IsRewrite /\ IsCached
    /\ Return(NextValue(Set[Callee.AR][Callee.i + 1]))
    /\ Advance(stack)
    /\ UNCHANGED <<sys, Set, Subsets, EnumerationDepth, stack>>

(* A transform is applied to a set that contains its own output. *)
EnterRetry ==
    /\ pc = "call" /\ ~IsRewrite /\ ~IsCached /\ isEnumerating(Callee.AR)
    /\ Return(Retry(Callee.AR))
    /\ UNCHANGED <<sys, Set, Work, Subsets, EnumerationDepth, stack, cursor>>

EnterRun ==
    /\ pc = "call" /\ ~IsRewrite /\ ~IsCached /\ ~isEnumerating(Callee.AR)
    /\ stack' = Append(stack, [AR |-> Callee.AR, LTD |-> CalleeLTD, Pos |-> 1, Retry |-> NoAR])
    /\ EnumerationDepth' = [EnumerationDepth EXCEPT ![Callee.AR] = Len(stack)]
    /\ Goto("run")
    /\ UNCHANGED <<sys, Set, Work, Subsets, cursor>>

-----------------------------------------------------------------------------
(* The loop over the work list: run the work at Pos. *)

(* SubsetWork::enumerate offers its Enumerator to the SubsetWork above,    *)
(* and AnalysisResult::enumerate passes the offer on.                      *)
RunInline ==
    /\ pc = "run" /\ ~AtEnd /\ IsSubset(Cur) /\ canInline
    /\ Leave(Inline(Cur))
    /\ UNCHANGED <<sys, Set, Work, Subsets, cursor>>

RunRecurse ==
    /\ pc = "run" /\ ~AtEnd /\ ~(IsSubset(Cur) /\ canInline)
    /\ Goto("call")
    /\ UNCHANGED <<sys, Set, Work, Subsets, EnumerationDepth, stack, cursor>>

(* The end of the work list: nothing new was found. *)

(* Bug: the retries that were asked for are forgotten. *)
EndComplete_IgnoresRetry ==
    /\ pc = "run" /\ AtEnd
    /\ Leave(Complete)
    /\ UNCHANGED <<sys, Set, Work, Subsets, cursor>>

EndComplete ==
    /\ pc = "run" /\ AtEnd /\ Ctx.Retry = NoAR
    /\ Leave(Complete)
    /\ UNCHANGED <<sys, Set, Work, Subsets, cursor>>

(* Bug: this AR gives up although it waits for another. *)
EndCancelRetry_ForOthers ==
    /\ pc = "run" /\ AtEnd /\ Ctx.Retry # NoAR
    /\ SetWork(<<>>)
    /\ Leave(Complete)
    /\ UNCHANGED <<sys, Set, Subsets, cursor>>

(* Everything that has to be retried waits for this AR only. *)
EndCancelRetry ==
    /\ pc = "run" /\ AtEnd /\ Ctx.Retry = This
    /\ SetWork(<<>>)
    /\ Leave(Complete)
    /\ UNCHANGED <<sys, Set, Subsets, cursor>>

(* Bug: a retry is passed on even when this AR can cancel it. *)
EndRetry_EvenHere ==
    /\ pc = "run" /\ AtEnd /\ Ctx.Retry # NoAR
    /\ Leave(Retry(Ctx.Retry))
    /\ UNCHANGED <<sys, Set, Work, Subsets, cursor>>

EndRetry ==
    /\ pc = "run" /\ AtEnd /\ Ctx.Retry \notin {NoAR, This}
    /\ Leave(Retry(Ctx.Retry))
    /\ UNCHANGED <<sys, Set, Work, Subsets, cursor>>

-----------------------------------------------------------------------------
(* A result comes back to the activation that ran the work at Pos. *)

Returned(t) == pc = "return" /\ stack # <<>> /\ result.type = t

(* SubsetWork: the value is new to this AR, which returns it in turn. *)
AddNewValue ==
    /\ Returned("NEXT_VALUE") /\ IsSubset(Cur)
    /\ ~Contains(Set[This], result.VI)
    /\ Set' = [Set EXCEPT ![This] = Append(@, result.VI)]
    /\ Advance(Front(stack))
    /\ Leave(result)
    /\ UNCHANGED <<sys, Subsets>>

SkipKnownValue ==
    /\ Returned("NEXT_VALUE") /\ IsSubset(Cur)
    /\ Contains(Set[This], result.VI)
    /\ Goto("run")
    /\ UNCHANGED <<sys, Set, Work, Subsets, EnumerationDepth, stack, cursor>>

(* TransformWork: analyzeValueInfo on the value of the input set. *)
Analyzed == sys.results[Cur.alg][result.VI]

TransformToNothing ==
    /\ Returned("NEXT_VALUE") /\ IsTransform(Cur)
    /\ Analyzed # NoAR => ~prepareForSubset(This, Analyzed)
    /\ Goto("call")
    /\ UNCHANGED <<sys, Set, Work, Subsets, EnumerationDepth, stack, cursor>>

(* Bug: the null result of an algorithm is pushed like any other. *)
TransformToSubset_PushesNull ==
    /\ Returned("NEXT_VALUE") /\ IsTransform(Cur)
    /\ prepareForSubset(This, Analyzed)
    /\ NoteSubset(This, Analyzed)
    /\ SetWork(InsertAt(Work[This], Ctx.Pos, SubsetWork(Analyzed)))
    /\ Goto("run")
    /\ UNCHANGED <<sys, Set, EnumerationDepth, stack, cursor>>

(* Bug: the transform's input is pushed instead of its output. *)
TransformToSubset_PushesInput ==
    /\ Returned("NEXT_VALUE") /\ IsTransform(Cur)
    /\ Analyzed # NoAR /\ prepareForSubset(This, Analyzed)
    /\ NoteSubset(This, Analyzed)
    /\ SetWork(InsertAt(Work[This], Ctx.Pos, SubsetWork(Cur.AR)))
    /\ Goto("run")
    /\ UNCHANGED <<sys, Set, EnumerationDepth, stack, cursor>>

(* EnumerationContext::pushSubset, and the new SubsetWork is run. *)
TransformToSubset ==
    /\ Returned("NEXT_VALUE") /\ IsTransform(Cur)
    /\ Analyzed # NoAR /\ prepareForSubset(This, Analyzed)
    /\ NoteSubset(This, Analyzed)
    /\ SetWork(InsertAt(Work[This], Ctx.Pos, SubsetWork(Analyzed)))
    /\ Goto("run")
    /\ UNCHANGED <<sys, Set, EnumerationDepth, stack, cursor>>

(* Bug: the AR is taken over without the position in it. *)
InlineSubset_KeepsPosition ==
    /\ Returned("INLINE") /\ IsSubset(Cur)
    /\ prepareForSubset(This, result.AR)
    /\ NoteSubset(This, result.AR)
    /\ SetWork([Work[This] EXCEPT ![Ctx.Pos].AR = result.AR])
    /\ Goto("call")
    /\ UNCHANGED <<sys, Set, EnumerationDepth, stack, cursor>>

(* SubsetWork: the subset has a sole subset of its own; take its place. *)
InlineSubset ==
    /\ Returned("INLINE") /\ IsSubset(Cur)
    /\ prepareForSubset(This, result.AR)
    /\ NoteSubset(This, result.AR)
    /\ SetWork([Work[This] EXCEPT ![Ctx.Pos].AR = result.AR, ![Ctx.Pos].i = result.i])
    /\ Goto("call")
    /\ UNCHANGED <<sys, Set, EnumerationDepth, stack, cursor>>

DropInlined ==
    /\ Returned("INLINE") /\ IsSubset(Cur)
    /\ ~prepareForSubset(This, result.AR)
    /\ EraseCur
    /\ Goto("run")
    /\ UNCHANGED <<sys, Set, Subsets, EnumerationDepth, stack, cursor>>

(* The overall cancellation point is the one with the least depth. *)
CancellationPoint(old, new) ==
    IF old = NoAR \/ EnumerationDepth[new] < EnumerationDepth[old] THEN new ELSE old

(* Bug: the work to retry is erased like completed work. *)
SkipRetried_Erases ==
    /\ Returned("RETRY")
    /\ stack' = [stack EXCEPT ![Len(stack)].Retry = CancellationPoint(@, result.AR)]
    /\ EraseCur
    /\ Goto("run")
    /\ UNCHANGED <<sys, Set, Subsets, EnumerationDepth, cursor>>

(* Bug: the work to retry is tried again at once. *)
SkipRetried_Stays ==
    /\ Returned("RETRY")
    /\ stack' = [stack EXCEPT ![Len(stack)].Retry = CancellationPoint(@, result.AR)]
    /\ Goto("run")
    /\ UNCHANGED <<sys, Set, Work, Subsets, EnumerationDepth, cursor>>

SkipRetried ==
    /\ Returned("RETRY")
    /\ stack' = [stack EXCEPT ![Len(stack)].Pos = @ + 1,
                              ![Len(stack)].Retry = CancellationPoint(@, result.AR)]
    /\ Goto("run")
    /\ UNCHANGED <<sys, Set, Work, Subsets, EnumerationDepth, cursor>>

EraseCompleted ==
    /\ Returned("COMPLETE")
    /\ EraseCur
    /\ Goto("run")
    /\ UNCHANGED <<sys, Set, Subsets, EnumerationDepth, stack, cursor>>

-----------------------------------------------------------------------------
(* REWRITE: this AR is on a cycle of subsets through the rewrite target.   *)

RewriteHere ==
    /\ Returned("REWRITE") /\ IsSubset(Cur) /\ result.AR = This
    /\ EraseCur
    /\ Goto("run")
    /\ UNCHANGED <<sys, Set, Subsets, EnumerationDepth, stack, cursor>>

(* The work is erased and the rest of the list is gone through from the    *)
(* beginning; Pos, no longer needed, stands for the loop's iterator.       *)
RewriteBegin ==
    /\ Returned("REWRITE") /\ IsSubset(Cur) /\ result.AR # This
    /\ EraseCur
    /\ SetPos(1)
    /\ pc' = "rewrite"
    /\ UNCHANGED <<sys, Set, Subsets, EnumerationDepth, cursor, result>>

(* prepareForRewrite: the target takes every TransformWork, and the        *)
(* SubsetWorks whose subsets are new to it.                                *)
RewriteKeep ==
    /\ pc = "rewrite" /\ ~AtEnd
    /\ IsSubset(Cur) => prepareForSubset(result.AR, Cur.AR)
    /\ IF IsSubset(Cur) THEN NoteSubset(result.AR, Cur.AR) ELSE UNCHANGED Subsets
    /\ SetPos(Ctx.Pos + 1)
    /\ UNCHANGED <<sys, Set, Work, EnumerationDepth, cursor, result, pc>>

RewriteDrop ==
    /\ pc = "rewrite" /\ ~AtEnd
    /\ IsSubset(Cur) /\ ~prepareForSubset(result.AR, Cur.AR)
    /\ EraseCur
    /\ UNCHANGED <<sys, Set, Subsets, EnumerationDepth, stack, cursor, result, pc>>

(* Bug: the lists are swapped instead of spliced. *)
RewriteSplice_Swaps ==
    /\ pc = "rewrite" /\ AtEnd
    /\ Work' = [Work EXCEPT ![result.AR] = Work[This],
                            ![This] = <<SubsetWork(result.AR)>>]
    /\ Leave(result)
    /\ UNCHANGED <<sys, Set, Subsets, cursor>>

(* Bug: the list is referred to elsewhere, but not moved there. *)
RewriteSplice_Drops ==
    /\ pc = "rewrite" /\ AtEnd
    /\ Work' = [Work EXCEPT ![This] = <<SubsetWork(result.AR)>>]
    /\ Leave(result)
    /\ UNCHANGED <<sys, Set, Subsets, cursor>>

(* Splice what is left to the end of the target's list, and refer to it. *)
RewriteSplice ==
    /\ pc = "rewrite" /\ AtEnd
    /\ Work' = [Work EXCEPT ![result.AR] = @ \o Work[This],
                            ![This] = <<SubsetWork(result.AR)>>]
    /\ Leave(result)
    /\ UNCHANGED <<sys, Set, Subsets, cursor>>

-----------------------------------------------------------------------------
Enter == EnterRewrite \/ EnterCached \/ EnterRetry \/ EnterRun
Run   == RunInline \/ RunRecurse \/ EndComplete \/ EndCancelRetry \/ EndRetry
Handle == \/ AddNewValue \/ SkipKnownValue
          \/ TransformToNothing \/ TransformToSubset
          \/ InlineSubset \/ DropInlined
          \/ SkipRetried \/ EraseCompleted
          \/ RewriteHere \/ RewriteBegin \/ RewriteKeep \/ RewriteDrop \/ RewriteSplice

Step == Enter \/ Run \/ Handle \/ Answer

(* Nothing has been enumerated of the equations s. *)
StartsFrom(s) ==
    /\ Set = s.set
    /\ Work = s.work
    /\ Subsets = [a \in ARs |-> {w.AR : w \in {u \in ToSet(s.work[a]) : IsSubset(u)}}]
    /\ EnumerationDepth = [a \in ARs |-> -1]
    /\ stack = <<>>
    /\ cursor = Nobody
    /\ result = NoResult
    /\ pc = "idle"

Init == sys \in Systems /\ StartsFrom(sys)

Next == Step \/ \E a \in ARs : \E i \in 0 .. Len(Set[a]) : Query(a, i)

Spec == Init /\ [][Next]_vars

(* The engine runs in the thread of the query and nothing it does waits. *)
FairSpec == Spec /\ WF_vars(Step)

-----------------------------------------------------------------------------
(* Properties. *)

(* The types of the variables.                                             *)
TypeOK ==
    /\ sys \in EquationSystems
    /\ Set \in [ARs -> Seq(VIs)]
    /\ Work \in [ARs -> Seq(Works)]
    /\ Subsets \in [ARs -> SUBSET ARs]
    /\ EnumerationDepth \in [ARs -> Nat \cup {-1}]
    /\ stack \in Seq(Contexts)
    /\ cursor \in Enumerators
    /\ result \in EnumerationResults
    /\ pc \in {"idle", "call", "run", "rewrite", "return"}

(* The work that a suspended activation runs. *)
Running(k) == Work[stack[k].AR][stack[k].Pos]

(* The std::list iterators of suspended activations survive everything the *)
(* activations above them do to work lists (erase, insert, clear, splice): *)
(* each still denotes the work whose Enumerator the next activation is     *)
(* computing for.                                                          *)
IteratorsValid ==
    \A k \in 1 .. Len(stack) :
        /\ (k < Len(stack) \/ pc \in {"call", "return"}) =>
               stack[k].Pos \in DOMAIN Work[stack[k].AR]
        /\ k < Len(stack) => Running(k).AR = stack[k + 1].AR

(* EnumerationDepth and LastTransformDepth mirror the recursion: an AR has *)
(* one activation at most, at its EnumerationDepth, and LastTransformDepth *)
(* is the depth of the nearest activation below that runs a TransformWork. *)
DepthsMirrorStack ==
    /\ \A k \in 1 .. Len(stack) :
          /\ EnumerationDepth[stack[k].AR] = k - 1
          /\ stack[k].LTD = IF k = 1 THEN -1
                            ELSE IF IsTransform(Running(k - 1)) THEN k - 2
                            ELSE stack[k - 1].LTD
    /\ \A a \in ARs : EnumerationDepth[a] # -1 =>
          /\ EnumerationDepth[a] < Len(stack)
          /\ stack[EnumerationDepth[a] + 1].AR = a

(* The llvm_unreachables: only a value or the end of the set reaches a     *)
(* client, and neither an INLINE nor a REWRITE reaches a TransformWork.    *)
WellRouted ==
    pc = "return" =>
        IF stack = <<>>
        THEN result.type \in {"NEXT_VALUE", "COMPLETE"}
        ELSE IsTransform(Cur) => result.type \notin {"INLINE", "REWRITE"}

(* The asserts about retries and rewrites: the AR to retry at and the AR   *)
(* to rewrite to are being enumerated, no deeper than the activation that  *)
(* gets the result.                                                        *)
TargetsBelow ==
    /\ \A k \in 1 .. Len(stack) :
          stack[k].Retry # NoAR => EnumerationDepth[stack[k].Retry] \in 0 .. k - 1
    /\ pc = "return" /\ result.type \in {"RETRY", "REWRITE"} =>
          EnumerationDepth[result.AR] \in 0 .. Depth
    /\ pc = "rewrite" => EnumerationDepth[result.AR] \in 0 .. Depth - 1

(* The asserts at the end of the loop: the work list is empty exactly if   *)
(* there is nothing to retry.                                              *)
RetriedWorkRemains ==
    pc = "run" /\ AtEnd => (Ctx.Retry = NoAR <=> Work[This] = <<>>)

(* assert(i <= Set.size()): nobody is ahead of the set it enumerates. *)
PositionsInRange ==
    /\ pc # "idle" => cursor.i <= Len(Set[cursor.AR])
    /\ \A a \in ARs : \A k \in DOMAIN Work[a] :
          Work[a][k].i <= Len(Set[Work[a][k].AR])

(* No AR is given a value that the equations do not force into it. *)
Precise ==
    pc = "idle" => \A a \in ARs : ToSet(Set[a]) \subseteq LeastSolution(sys)[a]

(* An AR whose work list is empty when no query runs has all its values.   *)
DoneIsComplete ==
    pc = "idle" =>
        \A a \in ARs : Work[a] = <<>> => ToSet(Set[a]) = LeastSolution(sys)[a]

(* Between queries the values and work that are left are an equation       *)
(* system that still gives every AR its set, but for the ARs that have to  *)
(* do with a cycle of subsets, where rewriting may lose some of it.        *)
EquationsPreserved ==
    pc = "idle" =>
        LET left == LeastSolution([set |-> Set, work |-> Work, results |-> sys.results])
        IN  \A a \in ARs : left[a] = LeastSolution(sys)[a] \/ a \notin Settled(sys)

(* AnalysisResult::isDone. The work list of an activation is empty for a   *)
(* moment while it is spliced away.                                        *)
isDone(a) == Work[a] = <<>> /\ ~(pc = "rewrite" /\ a = This)

(* AndersenPass hands out done ARs as plain sets, which alias() goes on    *)
(* using while it enumerates others: a done AR never changes again.        *)
DoneIsForever == [][\A a \in ARs : isDone(a) => isDone(a)' /\ Set'[a] = Set[a]]_vars

(* A client that is told that the set has ended can rely on isDone.        *)
EndMeansDone ==
    pc = "return" /\ stack = <<>> /\ result.type = "COMPLETE" => isDone(cursor.AR)

(* Every query is answered: inlining, rewriting and retrying terminate.    *)
QueryAnswered == pc # "idle" ~> pc = "idle"
===============================================================================
