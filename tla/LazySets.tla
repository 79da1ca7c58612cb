------------------------------- MODULE LazySets -------------------------------
(***************************************************************************)
(* What lazy enumeration promises its clients (AndersenEnumerator.h,       *)
(* AnalysisResult.h): sets that are found bit by bit while an enumerator   *)
(* of any of them is advanced. AnalysisResult is how it is kept.           *)
(***************************************************************************)
EXTENDS Integers, Sequences, SequencesExt

CONSTANTS ARs,       \* the sets
          VIs,       \* what their elements may be
          NoAR,
          NoVI,      \* the null ValueInfo *, with which a client is told the end
          NoAnswer   \* nothing, while the answer is sought

ASSUME NullsAssumption == NoAR \notin ARs /\ NoVI \notin VIs /\ NoAnswer \notin VIs \cup {NoVI}

VARIABLES
    solution,  \* AR -> the whole set
    reliable,  \* the ARs of which nothing gets lost
    Set,       \* AR -> the elements found so far, in order
    done,      \* the ARs that isDone() tells are whole
    query,     \* the AndersenEnumerator that is being advanced
    answer     \* what enumerate() returns

sets     == <<solution, reliable>>
lazyVars == <<Set, done, query, answer, sets>>

Enumerator(a, n) == [AR |-> a, i |-> n]
Nobody == Enumerator(NoAR, 0)

Idle == query = Nobody

IsWhole(a) == ToSet(Set[a]) = solution[a]

(* Others may end too early, but hold nothing wrong. *)
MayEnd(a) == IsWhole(a) \/ a \notin reliable

-----------------------------------------------------------------------------
(* AndersenEnumerator::enumerate is called. *)
Ask(E) ==
    /\ Idle
    /\ E.i <= Len(Set[E.AR])
    /\ query' = E
    /\ UNCHANGED <<sets, Set, done, answer>>

Seeks == ~Idle /\ answer = NoAnswer

(* An element that an AR did not have. *)
New(a, v) ==
    /\ a \notin done /\ ~Contains(Set[a], v)
    /\ v \in solution[a]
    /\ Set' = [Set EXCEPT ![a] = Append(@, v)]

(* Any set may grow on the way, and turn out to be whole. *)
Find(a, v) ==
    /\ Seeks
    /\ New(a, v)
    /\ UNCHANGED <<sets, done, query, answer>>

Finish(a) ==
    /\ Seeks
    /\ a \notin done /\ MayEnd(a)
    /\ done' = done \cup {a}
    /\ UNCHANGED <<sets, Set, query, answer>>

Advanced == query' = [query EXCEPT !.i = @ + 1]

(* The element at the enumerator's place, which was known ... *)
GiveKnown ==
    /\ Seeks
    /\ query.i < Len(Set[query.AR])
    /\ answer' = Set[query.AR][query.i + 1]
    /\ Advanced
    /\ UNCHANGED <<sets, Set, done>>

(* ... or has been found now. *)
GiveNew(v) ==
    /\ Seeks
    /\ query.i = Len(Set[query.AR])
    /\ New(query.AR, v)
    /\ answer' = v
    /\ Advanced
    /\ UNCHANGED <<sets, done>>

GiveEnd ==
    /\ Seeks
    /\ query.i = Len(Set[query.AR]) /\ MayEnd(query.AR)
    /\ answer' = NoVI
    /\ done' = done \cup {query.AR}
    /\ UNCHANGED <<sets, Set, query>>

(* enumerate() returns to its caller. *)
Take ==
    /\ answer # NoAnswer
    /\ query' = Nobody
    /\ answer' = NoAnswer
    /\ UNCHANGED <<sets, Set, done>>

Serve ==
    \/ \E a \in ARs : Finish(a) \/ \E v \in VIs : Find(a, v)
    \/ GiveKnown \/ GiveEnd \/ \E v \in VIs : GiveNew(v)

(* A region's set is seeded with the region; the others start empty. A set *)
(* without work is whole.                                                  *)
FreshSets ==
    {f \in [solution : [ARs -> SUBSET VIs], reliable : SUBSET ARs, Set : [ARs -> SeqOf(VIs, 1)],
            done : SUBSET ARs] :
        \A a \in ARs : /\ ToSet(f.Set[a]) \subseteq f.solution[a]
                       /\ a \in f.done => ToSet(f.Set[a]) = f.solution[a]}

LazyInit ==
    /\ [solution |-> solution, reliable |-> reliable, Set |-> Set, done |-> done] \in FreshSets
    /\ query = Nobody /\ answer = NoAnswer

LazyNext == Serve \/ Take \/ \E a \in ARs : \E n \in 0 .. Len(Set[a]) : Ask(Enumerator(a, n))

LazySpec == LazyInit /\ [][LazyNext]_lazyVars
===============================================================================
