-------------------------- MODULE AndersenPassProofs --------------------------
(***************************************************************************)
(* Theorems about AndersenPass and AndersenAliasAnalysis, for every set of *)
(* ARs, values, regions and clients, whatever instruction analysis leaves, *)
(* and however lazily the sets are found: queries answer for the whole set *)
(* although they and the clients' enumerators all make it grow, and alias  *)
(* and pointsToConstantMemory are exact, although they work on sets of     *)
(* which one is still growing. All that can be missed is what the engine   *)
(* loses of sets that are not reliable.                                    *)
(***************************************************************************)
EXTENDS AndersenAliasAnalysis, DataLemmas

-----------------------------------------------------------------------------
(* The inductive invariant. *)

Enumerators == [AR : ARs \cup {NoAR}, i : Nat]

CallNames == {"none", "isPointsToSetEmpty", "getPointsToSet", "enumerate"}

PassTypes ==
    /\ solution \in [ARs -> SUBSET VIs]
    /\ reliable \subseteq ARs
    /\ Set \in [ARs -> Seq(VIs)]
    /\ done \subseteq ARs
    /\ query \in Enumerators
    /\ answer \in VIs \cup {NoVI, NoAnswer}
    /\ NonLazy \in BOOLEAN
    /\ Data \in ValueInfoMaps \cup {NoData}
    /\ toCompute \subseteq ARs \cup {NoAR}
    /\ enumerators \in [Clients -> Enumerators]
    /\ got \in [Clients -> Seq(VIs)]
    /\ ended \in [Clients -> BOOLEAN]
    /\ call \in [fn : CallNames, AH : ARs \cup {NoAR}, E : Enumerators, who : Clients \cup {NoClient}]

(* The sets hold nothing wrong and nothing twice, and those that are done  *)
(* nothing less.                                                           *)
SetsOK ==
    /\ \A a \in ARs : /\ ToSet(Set[a]) \subseteq solution[a]
                      /\ IsInjective(Set[a])
                      /\ a \in done => MayEnd(a)
    /\ solution[EmptyAnalysisResult] = {}

(* Nothing survives releaseMemory, and no answer the next call. *)
LifeOK ==
    /\ Data = NoData => /\ call = NoCall /\ toCompute = {} /\ ret = NoReturn
                        /\ \A c \in Clients : enumerators[c] = Nobody
    /\ call # NoCall => ret = NoReturn

(* The Enumerator a call advances, and where the client's is meanwhile. *)
CallOK ==
    /\ call # NoCall => /\ call.fn # "none"
                        /\ call.E.AR \in ARs
                        /\ call.E.i <= Len(Set[call.E.AR])
    /\ call.fn \in {"isPointsToSetEmpty", "getPointsToSet"} => call.AH = call.E.AR
    /\ call.fn = "isPointsToSetEmpty" => call.E.i = 0
    /\ call.fn = "enumerate" /\ call.who \in Clients => call.E = enumerators[call.who]

(* What enumerate() has found: the element at the Enumerator's place, or   *)
(* that there is none.                                                     *)
QueryOK ==
    /\ query = Nobody => answer = NoAnswer
    /\ query # Nobody => call # NoCall /\ query.AR = call.E.AR
    /\ query # Nobody /\ answer = NoAnswer => query = call.E
    /\ answer \in VIs => /\ query.i = call.E.i + 1
                         /\ query.i <= Len(Set[query.AR])
                         /\ answer = Set[query.AR][query.i]
    /\ answer = NoVI => /\ query = call.E
                        /\ query.i = Len(Set[query.AR])
                        /\ query.AR \in done

(* A client has read the set up to its enumerator, and all of it at the    *)
(* end; a set whose end was seen is done, so that it will not grow.        *)
ReaderOK(c) ==
    enumerators[c] # Nobody =>
        /\ enumerators[c].AR \in ARs
        /\ enumerators[c].i <= Len(Set[enumerators[c].AR])
        /\ got[c] = SubSeq(Set[enumerators[c].AR], 1, enumerators[c].i)
        /\ ended[c] => /\ enumerators[c].AR \in done
                       /\ enumerators[c].i = Len(Set[enumerators[c].AR])

ReadersOK == \A c \in Clients : ReaderOK(c)

(* The non-lazy loop has computed what it is not about to compute. *)
NonLazyOK ==
    NonLazy /\ Data # NoData =>
        \A h \in Handles : \/ h = NoAR \/ h \in done \/ h \in toCompute
                           \/ call.fn = "getPointsToSet" /\ call.AH = h

(* A set that was called empty is done without elements, one that was not   *)
(* has some, and one that was returned is done.                            *)
Filled(h) == h # NoAR /\ Set[h] # <<>>

ReturnOK ==
    /\ ret.fn = "isPointsToSetEmpty" =>
          \/ ret.AH = NoAR /\ ret.value
          \/ ret.AH \in ARs /\ ret.AH \in done /\ Set[ret.AH] = <<>> /\ ret.value
          \/ ret.AH \in ARs /\ Filled(ret.AH) /\ ~ret.value
    /\ ret.fn = "getPointsToSet" =>
          \/ ret.AH = NoAR /\ ret.value = NoSet
          \/ ret.AH \in done /\ ret.value = SetOrNull(Set, ret.AH)

PassInv == /\ PassTypes /\ SetsOK /\ LifeOK /\ CallOK /\ QueryOK
           /\ ReadersOK /\ NonLazyOK /\ ReturnOK


-----------------------------------------------------------------------------
(* enumerate() is called and works: the sets may grow. *)

LEMMA LenOfSet ==
    ASSUME PassTypes, NEW a \in ARs
    PROVE  Len(Set[a]) \in Nat
BY LenProperties DEF PassTypes

(* Whoever advances an Enumerator does it in a call. *)
LEMMA BusyQuery ==
    ASSUME PassTypes, CallOK, QueryOK, query # Nobody
    PROVE  /\ call # NoCall
           /\ query.AR \in ARs
           /\ query.i \in Nat
           /\ Len(Set[query.AR]) \in Nat
<1>1. call # NoCall /\ query.AR \in ARs
  BY DEF CallOK, QueryOK
<1> QED  BY <1>1, LenOfSet DEF PassTypes, Enumerators

(* An element that a set did not have is put at its end. *)
LEMMA NewElement ==
    ASSUME PassTypes, SetsOK, NEW a \in ARs, NEW v, New(a, v)
    PROVE  /\ v \in VIs /\ a \notin done
           /\ Set' \in [ARs -> Seq(VIs)]
           /\ Set'[a] = Append(Set[a], v)
           /\ \A b \in ARs \ {a} : Set'[b] = Set[b]
           /\ ToSet(Set'[a]) \subseteq solution[a]
           /\ IsInjective(Set'[a])
           /\ Len(Set'[a]) = Len(Set[a]) + 1
           /\ Set'[a][Len(Set[a]) + 1] = v
<1>1. /\ Set \in [ARs -> Seq(VIs)]
      /\ Set' = [Set EXCEPT ![a] = Append(Set[a], v)]
      /\ v \in VIs /\ v \in solution[a] /\ a \notin done /\ ~Contains(Set[a], v)
  BY DEF PassTypes, New
<1>2. Set[a] \in Seq(VIs) /\ IsInjective(Set[a]) /\ ToSet(Set[a]) \subseteq solution[a]
  BY <1>1 DEF SetsOK
<1>3. /\ Append(Set[a], v) \in Seq(VIs)
      /\ Len(Append(Set[a], v)) = Len(Set[a]) + 1
      /\ Append(Set[a], v)[Len(Set[a]) + 1] = v
  BY <1>1, <1>2, AppendProperties
<1>4. IsInjective(Append(Set[a], v))
  BY <1>1, <1>2, AppendKeepsInjective
<1>5. ToSet(Append(Set[a], v)) = ToSet(Set[a]) \cup {v}
  BY <1>1, <1>2, ToSetAppend
<1> QED  BY <1>1, <1>2, <1>3, <1>4, <1>5

(* How a set may change while something is sought: what was read of it is  *)
(* still there, and if it is done it stays as it is.                       *)
Grows(a) ==
    /\ Len(Set[a]) \in Nat /\ Len(Set'[a]) \in Nat /\ Len(Set[a]) <= Len(Set'[a])
    /\ \A n \in 0 .. Len(Set[a]) : SubSeq(Set'[a], 1, n) = SubSeq(Set[a], 1, n)
    /\ \A j \in 1 .. Len(Set[a]) : Set'[a][j] = Set[a][j]
    /\ a \in done => a \in done' /\ Set'[a] = Set[a]

LEMMA SameSetGrows ==
    ASSUME PassTypes, NEW a \in ARs, Set'[a] = Set[a], a \in done => a \in done'
    PROVE  Grows(a)
BY LenOfSet DEF Grows

LEMMA NewGrows ==
    ASSUME PassTypes, SetsOK, NEW a \in ARs, NEW v, New(a, v), done \subseteq done', NEW b \in ARs
    PROVE  Grows(b)
<1>1. CASE b # a
  BY <1>1, NewElement, SameSetGrows
<1>2. CASE b = a
  <2>1. Set[a] \in Seq(VIs) /\ v \in VIs /\ Set'[a] = Append(Set[a], v) /\ a \notin done
    BY NewElement DEF PassTypes
  <2>2. Len(Set[a]) \in Nat /\ Len(Set'[a]) = Len(Set[a]) + 1
    BY LenOfSet, NewElement
  <2>3. \A j \in 1 .. Len(Set[a]) : Set'[a][j] = Set[a][j]
    BY <2>1, AppendProperties
  <2>4. \A n \in 0 .. Len(Set[a]) : SubSeq(Set'[a], 1, n) = SubSeq(Set[a], 1, n)
    BY <2>1, PrefixOfAppend
  <2> QED  BY <1>2, <2>1, <2>2, <2>3, <2>4 DEF Grows
<1> QED  BY <1>1, <1>2

LEMMA SetsAfterNew ==
    ASSUME PassTypes, SetsOK, NEW a \in ARs, NEW v, New(a, v), UNCHANGED sets, done' = done
    PROVE  SetsOK' /\ Set' \in [ARs -> Seq(VIs)]
<1> SUFFICES ASSUME NEW b \in ARs
             PROVE  /\ ToSet(Set'[b]) \subseteq solution[b]
                    /\ IsInjective(Set'[b])
                    /\ b \in done => ToSet(Set'[b]) = solution[b] \/ b \notin reliable
  BY NewElement DEF SetsOK, MayEnd, IsWhole, sets
<1>1. CASE b = a
  BY <1>1, NewElement
<1>2. CASE b # a
  <2>1. Set'[b] = Set[b]
    BY <1>2, NewElement
  <2> QED  BY <2>1 DEF SetsOK, MayEnd, IsWhole, sets
<1> QED  BY <1>1, <1>2

(* The steps of an enumerate(): the sets grow and stay right, and it goes  *)
(* on, or has its answer.                                                  *)
LEMMA ServeSteps ==
    ASSUME PassTypes, SetsOK, CallOK, QueryOK, Serve
    PROVE  /\ UNCHANGED sets
           /\ Set' \in [ARs -> Seq(VIs)]
           /\ done' \subseteq ARs
           /\ query # Nobody /\ answer = NoAnswer
           /\ SetsOK'
           /\ \A a \in ARs : Grows(a)
           /\ \/ query' = query /\ answer' = NoAnswer
              \/ /\ query' = [query EXCEPT !.i = @ + 1]
                 /\ query.i < Len(Set'[query.AR])
                 /\ answer' = Set'[query.AR][query.i + 1]
                 /\ answer' \in VIs
              \/ /\ query' = query /\ answer' = NoVI
                 /\ query.i = Len(Set'[query.AR])
                 /\ query.AR \in done'
<1>1. query # Nobody /\ answer = NoAnswer
  BY DEF Serve, Finish, Find, GiveKnown, GiveEnd, GiveNew, Seeks, Idle
<1>2. /\ query.AR \in ARs /\ query.i \in Nat /\ Len(Set[query.AR]) \in Nat
      /\ Set \in [ARs -> Seq(VIs)] /\ done \subseteq ARs
  BY <1>1, BusyQuery DEF PassTypes
<1>3. ASSUME NEW a \in ARs, Finish(a)
      PROVE  SetsOK' /\ \A b \in ARs : Grows(b)
  <2>1. UNCHANGED <<solution, reliable, Set>> /\ MayEnd(a) /\ done' = done \cup {a}
    BY <1>3 DEF Finish, sets
  <2> QED  BY <2>1, SameSetGrows DEF SetsOK, MayEnd, IsWhole, sets
<1>4. CASE \E a \in ARs : Finish(a)
  BY <1>1, <1>2, <1>3, <1>4 DEF Finish
<1>5. CASE \E a \in ARs : \E v \in VIs : Find(a, v)
  <2>1. PICK a \in ARs, v \in VIs : New(a, v) /\ UNCHANGED <<solution, reliable, done, query, answer>>
    BY <1>5 DEF Find, sets
  <2>2. SetsOK' /\ Set' \in [ARs -> Seq(VIs)] /\ \A b \in ARs : Grows(b)
    BY <2>1, NewGrows, SetsAfterNew DEF sets
  <2> QED  BY <1>1, <1>2, <2>1, <2>2 DEF sets
<1>6. CASE GiveKnown
  <2>1. /\ query.i < Len(Set[query.AR])
        /\ answer' = Set[query.AR][query.i + 1]
        /\ query' = [query EXCEPT !.i = @ + 1]
        /\ UNCHANGED <<solution, reliable, Set, done>>
    BY <1>6 DEF GiveKnown, Advanced, sets
  <2>2. query.i + 1 \in 1 .. Len(Set[query.AR])
    BY <1>2, <2>1
  <2>3. answer' \in VIs
    BY <1>2, <2>1, <2>2, ElementOfSeq
  <2>4. SetsOK' /\ \A b \in ARs : Grows(b)
    BY <2>1, SameSetGrows DEF SetsOK, MayEnd, IsWhole, sets
  <2> QED  BY <1>1, <1>2, <2>1, <2>3, <2>4 DEF sets
<1>7. CASE GiveEnd
  <2>1. /\ query.i = Len(Set[query.AR]) /\ MayEnd(query.AR)
        /\ answer' = NoVI /\ query' = query
        /\ done' = done \cup {query.AR}
        /\ UNCHANGED <<solution, reliable, Set>>
    BY <1>7 DEF GiveEnd, sets
  <2>2. SetsOK' /\ \A b \in ARs : Grows(b)
    BY <2>1, SameSetGrows DEF SetsOK, MayEnd, IsWhole, sets
  <2> QED  BY <1>1, <1>2, <2>1, <2>2 DEF sets
<1>8. CASE \E v \in VIs : GiveNew(v)
  <2>1. PICK v \in VIs : /\ query.i = Len(Set[query.AR])
                         /\ New(query.AR, v)
                         /\ answer' = v
                         /\ query' = [query EXCEPT !.i = @ + 1]
                         /\ UNCHANGED <<solution, reliable, done>>
    BY <1>8 DEF GiveNew, Advanced, sets
  <2>2. SetsOK' /\ Set' \in [ARs -> Seq(VIs)] /\ \A b \in ARs : Grows(b)
    BY <1>2, <2>1, NewGrows, SetsAfterNew DEF sets
  <2>3. query.i < Len(Set'[query.AR]) /\ answer' = Set'[query.AR][query.i + 1]
    BY <1>2, <2>1, NewElement
  <2> QED  BY <1>1, <1>2, <2>1, <2>2, <2>3 DEF sets
<1> QED  BY <1>4, <1>5, <1>6, <1>7, <1>8 DEF Serve


-----------------------------------------------------------------------------
(* What steps keep of the invariant. *)

LEMMA NothingReturned ==
    ASSUME ret' = NoReturn
    PROVE  ReturnOK'
BY DEF ReturnOK, NoReturn

LEMMA SameSets ==
    ASSUME PassTypes, SetsOK, UNCHANGED <<solution, reliable, Set, done>>
    PROVE  SetsOK' /\ \A a \in ARs : Grows(a)
BY SameSetGrows DEF SetsOK, MayEnd, IsWhole, sets

(* A reader that does not move does not mind if its set grows. *)
LEMMA GrowthKeepsReader ==
    ASSUME PassTypes, NEW c \in Clients, ReaderOK(c), \A a \in ARs : Grows(a),
           enumerators'[c] = enumerators[c], got'[c] = got[c], ended'[c] = ended[c]
    PROVE  ReaderOK(c)'
<1> SUFFICES ASSUME enumerators[c] # Nobody
             PROVE  ReaderOK(c)'
  BY DEF ReaderOK
<1> DEFINE a == enumerators[c].AR
           i == enumerators[c].i
<1>1. /\ a \in ARs /\ i \in Nat /\ Len(Set[a]) \in Nat
      /\ i <= Len(Set[a])
      /\ got[c] = SubSeq(Set[a], 1, i)
      /\ ended[c] => a \in done /\ i = Len(Set[a])
  BY LenOfSet DEF ReaderOK, PassTypes, Enumerators
<1>2. i \in 0 .. Len(Set[a])
  BY <1>1
<1>3. /\ Len(Set'[a]) \in Nat /\ Len(Set[a]) <= Len(Set'[a])
      /\ SubSeq(Set'[a], 1, i) = SubSeq(Set[a], 1, i)
      /\ a \in done => a \in done' /\ Set'[a] = Set[a]
  BY <1>1, <1>2 DEF Grows
<1> HIDE DEF a, i
<1>4. /\ i <= Len(Set'[a])
      /\ got'[c] = SubSeq(Set'[a], 1, i)
      /\ ended'[c] => a \in done' /\ i = Len(Set'[a])
  BY <1>1, <1>3
<1> QED  BY <1>1, <1>4 DEF ReaderOK, a, i

LEMMA GrowthKeepsReaders ==
    ASSUME PassTypes, ReadersOK, \A a \in ARs : Grows(a), UNCHANGED clientVars
    PROVE  ReadersOK'
BY GrowthKeepsReader DEF ReadersOK, clientVars

(* Sets stay done, and what the loop has still to compute is not forgotten. *)
LEMMA StillNonLazy ==
    ASSUME PassTypes, NonLazyOK, UNCHANGED pass, \A a \in ARs : a \in done => a \in done',
           \A h \in toCompute : h \in toCompute' \/ h = NoAR \/ h \in done'
                                \/ (call'.fn = "getPointsToSet" /\ call'.AH = h),
           call.fn = "getPointsToSet" => \/ call'.fn = "getPointsToSet" /\ call'.AH = call.AH
                                         \/ call.AH \in done'
    PROVE  NonLazyOK'
<1>1. Handles' = Handles /\ NonLazy' = NonLazy /\ Data' = Data
  BY DEF Handles, getHandleToPointsToSet, pass
<1> SUFFICES ASSUME NonLazy, Data # NoData, NEW h \in Handles, h # NoAR
             PROVE  h \in done' \/ h \in toCompute' \/ (call'.fn = "getPointsToSet" /\ call'.AH = h)
  BY <1>1 DEF NonLazyOK
<1>2. \/ h \in done \/ h \in toCompute
      \/ call.fn = "getPointsToSet" /\ call.AH = h
  BY DEF NonLazyOK
<1>3. done \subseteq ARs
  BY DEF PassTypes
<1> QED  BY <1>2, <1>3

(* Every handle is an AR or null, and an AR stands for the null one. *)
LEMMA HandleType ==
    ASSUME PassTypes, Data # NoData
    PROVE  /\ \A v : getHandleToPointsToSet(v) \in ARs \cup {NoAR}
           /\ Handles \subseteq ARs \cup {NoAR}
           /\ \A h \in ARs \cup {NoAR} : OrEmpty(h) \in ARs
BY PassAssumption DEF PassTypes, Handles, getHandleToPointsToSet, OrEmpty

-----------------------------------------------------------------------------
(* Calls of enumerate(). *)

LEMMA EnumerateKeepsInv ==
    ASSUME PassInv, Enumerate
    PROVE  PassInv'
<1>1. /\ call # NoCall /\ query = Nobody /\ answer = NoAnswer
      /\ query' = call.E
      /\ UNCHANGED <<solution, reliable, Set, done, answer, pass, toCompute, clientVars, call, ret>>
  BY DEF Enumerate, Ask, Idle, sets, PassInv, QueryOK
<1>2. call.E \in Enumerators /\ call.E.AR \in ARs
  BY <1>1 DEF PassInv, PassTypes, CallOK
<1>3. PassTypes'
  BY <1>1, <1>2 DEF PassInv, PassTypes, pass, clientVars
<1>4. SetsOK' /\ ReadersOK'
  BY <1>1, SameSets, GrowthKeepsReaders DEF PassInv
<1>5. LifeOK' /\ CallOK'
  BY <1>1 DEF PassInv, LifeOK, CallOK, pass, clientVars
<1>6. QueryOK'
  BY <1>1, NullsAssumption DEF QueryOK
<1>7. NonLazyOK'
  BY <1>1, StillNonLazy DEF PassInv
<1>8. ReturnOK'
  BY <1>1, NothingReturned DEF PassInv, LifeOK
<1> QED  BY <1>3, <1>4, <1>5, <1>6, <1>7, <1>8 DEF PassInv

LEMMA ComputeKeepsInv ==
    ASSUME PassInv, Compute
    PROVE  PassInv'
<1>1. /\ UNCHANGED sets
      /\ Set' \in [ARs -> Seq(VIs)]
      /\ done' \subseteq ARs
      /\ query # Nobody /\ answer = NoAnswer
      /\ SetsOK'
      /\ \A a \in ARs : Grows(a)
      /\ \/ query' = query /\ answer' = NoAnswer
         \/ /\ query' = [query EXCEPT !.i = @ + 1]
            /\ query.i < Len(Set'[query.AR])
            /\ answer' = Set'[query.AR][query.i + 1]
            /\ answer' \in VIs
         \/ /\ query' = query /\ answer' = NoVI
            /\ query.i = Len(Set'[query.AR])
            /\ query.AR \in done'
  BY ServeSteps DEF Compute, PassInv
<1>2. UNCHANGED <<pass, toCompute, clientVars, call, ret>>
  BY DEF Compute
<1>3. call # NoCall /\ query = call.E /\ query.AR \in ARs /\ query.i \in Nat /\ query \in Enumerators
  BY <1>1, BusyQuery DEF PassInv, QueryOK, PassTypes
<1>4. Len(Set[query.AR]) \in Nat /\ Len(Set'[query.AR]) \in Nat /\ Len(Set[query.AR]) <= Len(Set'[query.AR])
  BY <1>1, <1>3 DEF Grows
<1>5. query'.AR = query.AR /\ query' \in Enumerators
  BY <1>1, <1>3 DEF Enumerators
<1>6. PassTypes'
  BY <1>1, <1>2, <1>5 DEF PassInv, PassTypes, pass, clientVars, sets
<1>7. LifeOK'
  BY <1>2 DEF PassInv, LifeOK, pass, clientVars
<1>8. CallOK'
  <2>1. call.E.i <= Len(Set[call.E.AR])
    BY <1>3 DEF PassInv, CallOK
  <2>2. call.E.i <= Len(Set'[call.E.AR])
    BY <1>3, <1>4, <2>1
  <2> QED  BY <1>2, <2>2 DEF PassInv, CallOK, clientVars
<1>9. QueryOK'
  <2>1. query'.AR # NoAR
    BY <1>3, <1>5, NullsAssumption
  <2>2. query' # Nobody
    BY <2>1 DEF Nobody, Enumerator
  <2>3. CASE query' = query /\ answer' = NoAnswer
    BY <1>2, <1>3, <2>2, <2>3, NullsAssumption DEF QueryOK
  <2>4. CASE /\ query' = [query EXCEPT !.i = @ + 1]
             /\ query.i < Len(Set'[query.AR])
             /\ answer' = Set'[query.AR][query.i + 1]
             /\ answer' \in VIs
    <3>1. query'.i = query.i + 1
      BY <1>3, <2>4 DEF Enumerators
    <3>2. query'.i <= Len(Set'[query.AR])
      BY <1>3, <1>4, <2>4, <3>1
    <3> QED  BY <1>2, <1>3, <1>5, <2>2, <2>4, <3>1, <3>2, NullsAssumption DEF QueryOK
  <2>5. CASE /\ query' = query /\ answer' = NoVI
             /\ query.i = Len(Set'[query.AR])
             /\ query.AR \in done'
    BY <1>2, <1>3, <2>2, <2>5, NullsAssumption DEF QueryOK
  <2> QED  BY <1>1, <2>3, <2>4, <2>5
<1>10. ReadersOK'
  BY <1>1, <1>2, GrowthKeepsReaders DEF PassInv
<1>11. NonLazyOK'
  BY <1>1, <1>2, StillNonLazy DEF PassInv, Grows
<1>12. ReturnOK'
  BY <1>2, <1>3, NothingReturned DEF PassInv, LifeOK
<1> QED  BY <1>1, <1>6, <1>7, <1>8, <1>9, <1>10, <1>11, <1>12 DEF PassInv


-----------------------------------------------------------------------------
(* enumerate() returns to whoever called it. *)

LEMMA TakenAnswer ==
    ASSUME PassTypes, CallOK, QueryOK, Take
    PROVE  /\ query' = Nobody /\ answer' = NoAnswer
           /\ UNCHANGED <<solution, reliable, Set, done>>
           /\ call # NoCall
           /\ query.AR = call.E.AR /\ query.AR \in ARs
           /\ query \in Enumerators
           /\ Len(Set[query.AR]) \in Nat /\ query.i <= Len(Set[query.AR])
           /\ \/ /\ answer \in VIs
                 /\ query.i = call.E.i + 1
                 /\ answer = Set[query.AR][query.i]
              \/ /\ answer = NoVI
                 /\ query = call.E
                 /\ query.i = Len(Set[query.AR])
                 /\ query.AR \in done
<1>1. answer # NoAnswer /\ query # Nobody
  BY DEF Take, QueryOK
<1>2. /\ query \in Enumerators /\ query.AR \in ARs /\ query.i \in Nat
      /\ call # NoCall /\ query.AR = call.E.AR /\ Len(Set[query.AR]) \in Nat
  BY <1>1, BusyQuery DEF PassTypes, QueryOK
<1>3. answer \in VIs \/ answer = NoVI
  BY <1>1 DEF PassTypes
<1> QED  BY <1>1, <1>2, <1>3 DEF Take, QueryOK, sets

LEMMA NoCallType == NoCall \in [fn : CallNames, AH : ARs \cup {NoAR}, E : Enumerators, who : Clients \cup {NoClient}]
BY DEF NoCall, Call, Nobody, Enumerator, Enumerators, CallNames

(* No call is left, and no query. *)
LEMMA FreeAgain ==
    ASSUME call' = NoCall, query' = Nobody, answer' = NoAnswer
    PROVE  CallOK' /\ QueryOK'
<1>1. call'.fn = "none"
  BY DEF NoCall, Call
<1> QED  BY <1>1, NullsAssumption DEF CallOK, QueryOK

LEMMA EmptyAnsweredKeepsInv ==
    ASSUME PassInv, EmptyAnswered
    PROVE  PassInv'
<1>1. /\ call.fn = "isPointsToSetEmpty" /\ call' = NoCall
      /\ ret' = [fn |-> call.fn, AH |-> call.AH, value |-> (answer = NoVI)]
      /\ UNCHANGED <<pass, toCompute, clientVars>>
      /\ Take
  BY DEF EmptyAnswered, Return
<1>2. /\ query' = Nobody /\ answer' = NoAnswer
      /\ UNCHANGED <<solution, reliable, Set, done>>
      /\ call # NoCall
      /\ query.AR = call.E.AR /\ query.AR \in ARs
      /\ Len(Set[query.AR]) \in Nat /\ query.i <= Len(Set[query.AR])
      /\ \/ answer \in VIs /\ query.i = call.E.i + 1 /\ answer = Set[query.AR][query.i]
         \/ answer = NoVI /\ query = call.E /\ query.i = Len(Set[query.AR]) /\ query.AR \in done
  BY <1>1, TakenAnswer DEF PassInv
<1>3. call.AH = query.AR /\ call.E.i = 0 /\ query.AR # NoAR
  BY <1>1, <1>2, NullsAssumption DEF PassInv, CallOK
<1>4. PassTypes'
  <2>1. Nobody \in Enumerators
    BY DEF Nobody, Enumerator, Enumerators
  <2> QED  BY <1>1, <1>2, <2>1, NoCallType DEF PassInv, PassTypes, pass, clientVars
<1>5. SetsOK' /\ ReadersOK'
  BY <1>1, <1>2, SameSets, GrowthKeepsReaders DEF PassInv
<1>6. LifeOK' /\ CallOK' /\ QueryOK'
  BY <1>1, <1>2, FreeAgain DEF PassInv, LifeOK, pass
<1>7. NonLazyOK'
  BY <1>1, <1>2, StillNonLazy DEF PassInv
<1>8. ReturnOK'
  <2>1. CASE answer = NoVI
    <3>1. Set[query.AR] = <<>> /\ query.AR \in done
      BY <1>2, <1>3, <2>1, NullsAssumption, EmptySeq DEF PassInv, PassTypes
    <3> QED  BY <1>1, <1>2, <1>3, <2>1, <3>1 DEF ReturnOK
  <2>2. CASE answer # NoVI
    <3>1. Len(Set[query.AR]) # 0
      BY <1>2, <1>3, <2>2
    <3>2. Filled(query.AR)
      BY <1>2, <1>3, <3>1, EmptySeq DEF Filled, PassInv, PassTypes
    <3> QED  BY <1>1, <1>2, <1>3, <2>2, <3>2 DEF ReturnOK, Filled
  <2> QED  BY <2>1, <2>2
<1> QED  BY <1>4, <1>5, <1>6, <1>7, <1>8 DEF PassInv

LEMMA GetMoreKeepsInv ==
    ASSUME PassInv, GetMore
    PROVE  PassInv'
<1>1. /\ call.fn = "getPointsToSet"
      /\ call' = [call EXCEPT !.E = query]
      /\ UNCHANGED <<pass, toCompute, clientVars, ret>>
      /\ Take
  BY DEF GetMore
<1>2. /\ query' = Nobody /\ answer' = NoAnswer
      /\ UNCHANGED <<solution, reliable, Set, done>>
      /\ call # NoCall
      /\ query.AR = call.E.AR /\ query.AR \in ARs /\ query \in Enumerators
      /\ query.i <= Len(Set[query.AR])
  BY <1>1, TakenAnswer DEF PassInv
<1>3. /\ call'.fn = "getPointsToSet" /\ call'.AH = call.AH /\ call'.E = query
      /\ call' \in [fn : CallNames, AH : ARs \cup {NoAR}, E : Enumerators, who : Clients \cup {NoClient}]
  BY <1>1, <1>2 DEF PassInv, PassTypes
<1>4. PassTypes'
  <2>1. Nobody \in Enumerators
    BY DEF Nobody, Enumerator, Enumerators
  <2> QED  BY <1>1, <1>2, <1>3, <2>1 DEF PassInv, PassTypes, pass, clientVars
<1>5. SetsOK' /\ ReadersOK'
  BY <1>1, <1>2, SameSets, GrowthKeepsReaders DEF PassInv
<1>6. LifeOK' /\ CallOK'
  BY <1>1, <1>2, <1>3 DEF PassInv, LifeOK, CallOK, pass
<1>7. QueryOK'
  BY <1>2, NullsAssumption DEF QueryOK
<1>8. NonLazyOK'
  BY <1>1, <1>2, <1>3, StillNonLazy DEF PassInv
<1>9. ReturnOK'
  BY <1>1, <1>2, NothingReturned DEF PassInv, LifeOK
<1> QED  BY <1>4, <1>5, <1>6, <1>7, <1>8, <1>9 DEF PassInv

LEMMA GetAnsweredKeepsInv ==
    ASSUME PassInv, GetAnswered
    PROVE  PassInv'
<1>1. /\ call.fn = "getPointsToSet" /\ answer = NoVI /\ call' = NoCall
      /\ ret' = [fn |-> call.fn, AH |-> call.AH, value |-> SetOrNull(Set, call.AH)]
      /\ UNCHANGED <<pass, toCompute, clientVars>>
      /\ Take
  BY DEF GetAnswered, Return
<1>2. /\ query' = Nobody /\ answer' = NoAnswer
      /\ UNCHANGED <<solution, reliable, Set, done>>
      /\ call # NoCall
      /\ query.AR = call.E.AR /\ query.AR \in ARs /\ query.AR \in done
  BY <1>1, TakenAnswer, NullsAssumption DEF PassInv
<1>3. call.AH = query.AR /\ query.AR # NoAR
  BY <1>1, <1>2, NullsAssumption DEF PassInv, CallOK
<1>4. PassTypes'
  <2>1. Nobody \in Enumerators
    BY DEF Nobody, Enumerator, Enumerators
  <2> QED  BY <1>1, <1>2, <2>1, NoCallType DEF PassInv, PassTypes, pass, clientVars
<1>5. SetsOK' /\ ReadersOK'
  BY <1>1, <1>2, SameSets, GrowthKeepsReaders DEF PassInv
<1>6. LifeOK' /\ CallOK' /\ QueryOK'
  BY <1>1, <1>2, FreeAgain DEF PassInv, LifeOK, pass
<1>7. NonLazyOK'
  BY <1>1, <1>2, <1>3, StillNonLazy DEF PassInv
<1>8. ReturnOK'
  BY <1>1, <1>2, <1>3 DEF ReturnOK
<1> QED  BY <1>4, <1>5, <1>6, <1>7, <1>8 DEF PassInv


(* A client's enumerator has come to one more element, or to the end. *)
LEMMA EnumerateAnsweredKeepsInv ==
    ASSUME PassInv, EnumerateAnswered
    PROVE  PassInv'
<1>0. PICK c \in Clients, a \in ARs : c = call.who /\ a = query.AR
  BY TakenAnswer DEF EnumerateAnswered, PassInv
<1>1. /\ call.fn = "enumerate" /\ call.who = c /\ call' = NoCall
      /\ enumerators' = [enumerators EXCEPT ![c] = query]
      /\ answer = NoVI => ended' = [ended EXCEPT ![c] = TRUE] /\ got' = got
      /\ answer # NoVI => got' = [got EXCEPT ![c] = Append(@, answer)] /\ ended' = ended
      /\ UNCHANGED <<pass, toCompute, ret>>
      /\ Take
  BY <1>0 DEF EnumerateAnswered
<1>2. /\ query' = Nobody /\ answer' = NoAnswer
      /\ UNCHANGED <<solution, reliable, Set, done>>
      /\ call # NoCall
      /\ a = query.AR /\ a = call.E.AR /\ query \in Enumerators
      /\ Len(Set[a]) \in Nat /\ query.i <= Len(Set[a])
      /\ \/ answer \in VIs /\ query.i = call.E.i + 1 /\ answer = Set[a][query.i]
         \/ answer = NoVI /\ query = call.E /\ query.i = Len(Set[a]) /\ a \in done
  BY <1>0, <1>1, TakenAnswer DEF PassInv
<1>3. /\ enumerators \in [Clients -> Enumerators]
      /\ got \in [Clients -> Seq(VIs)]
      /\ ended \in [Clients -> BOOLEAN]
      /\ Set[a] \in Seq(VIs)
  BY <1>2 DEF PassInv, PassTypes
<1>4. call.E = enumerators[c] /\ call.E.i \in Nat /\ enumerators[c] # Nobody
  <2>1. call.E = enumerators[c] /\ call.E \in Enumerators
    BY <1>1, <1>3 DEF PassInv, CallOK
  <2> QED  BY <1>2, <2>1, NullsAssumption DEF Enumerators, Nobody, Enumerator
<1>5. /\ call.E.i <= Len(Set[a])
      /\ got[c] = SubSeq(Set[a], 1, call.E.i)
      /\ ended[c] => a \in done /\ call.E.i = Len(Set[a])
  BY <1>1, <1>2, <1>4 DEF PassInv, ReadersOK, ReaderOK
<1>6. PassTypes'
  <2>1. Nobody \in Enumerators
    BY DEF Nobody, Enumerator, Enumerators
  <2>2. got' \in [Clients -> Seq(VIs)] /\ ended' \in [Clients -> BOOLEAN]
    <3>1. CASE answer = NoVI
      BY <1>1, <1>3, <3>1
    <3>2. CASE answer # NoVI
      <4>1. answer \in VIs /\ got[c] \in Seq(VIs)
        BY <1>1, <1>2, <1>3, <3>2
      <4>2. Append(got[c], answer) \in Seq(VIs)
        BY <4>1, AppendProperties
      <4> QED  BY <1>1, <1>3, <3>2, <4>2
    <3> QED  BY <3>1, <3>2
  <2>3. enumerators' \in [Clients -> Enumerators]
    BY <1>1, <1>2, <1>3
  <2> QED  BY <1>1, <1>2, <2>1, <2>2, <2>3, NoCallType DEF PassInv, PassTypes, pass
<1>7. SetsOK' /\ \A b \in ARs : Grows(b)
  BY <1>2, SameSets DEF PassInv
<1>8. LifeOK' /\ CallOK' /\ QueryOK'
  BY <1>1, <1>2, FreeAgain DEF PassInv, LifeOK, pass
<1>9. ReaderOK(c)'
  <2>1. enumerators'[c] = query
    BY <1>1, <1>3
  <2>2. CASE answer = NoVI
    <3>1. got'[c] = got[c] /\ query = call.E /\ query.i = Len(Set[a]) /\ a \in done
      BY <1>1, <1>2, <2>2, NullsAssumption
    <3> QED  BY <1>2, <1>5, <2>1, <3>1 DEF ReaderOK
  <2>3. CASE answer # NoVI
    <3>1. /\ got'[c] = Append(got[c], answer) /\ ended'[c] = ended[c]
          /\ answer = Set[a][query.i] /\ query.i = call.E.i + 1
      BY <1>1, <1>2, <1>3, <2>3
    <3>2. call.E.i < Len(Set[a])
      BY <1>2, <1>4, <3>1
    <3>3. ~ended[c]
      BY <1>2, <1>4, <1>5, <3>2
    <3>4. SubSeq(Set[a], 1, query.i) = Append(SubSeq(Set[a], 1, call.E.i), answer)
      BY <1>3, <1>4, <3>1, <3>2, PrefixNext
    <3> QED  BY <1>2, <1>5, <2>1, <3>1, <3>3, <3>4 DEF ReaderOK
  <2> QED  BY <2>2, <2>3
<1>10. ASSUME NEW d \in Clients, d # c
       PROVE  ReaderOK(d)'
  <2>1. enumerators'[d] = enumerators[d] /\ got'[d] = got[d] /\ ended'[d] = ended[d]
    BY <1>1, <1>3, <1>10
  <2>2. PassTypes /\ ReaderOK(d)
    BY DEF PassInv, ReadersOK
  <2> QED  BY <1>7, <2>1, <2>2, GrowthKeepsReader
<1>11. ReadersOK'
  BY <1>9, <1>10 DEF ReadersOK
<1>12. NonLazyOK'
  BY <1>1, <1>2, StillNonLazy DEF PassInv
<1>13. ReturnOK'
  BY <1>1, <1>2, NothingReturned DEF PassInv, LifeOK
<1> QED  BY <1>6, <1>7, <1>8, <1>11, <1>12, <1>13 DEF PassInv


-----------------------------------------------------------------------------
(* Queries begin; some are answered at once. *)

(* A query of a set, from its Enumerator E on, begins. *)
LEMMA BeginKeepsInv ==
    ASSUME PassInv, call = NoCall, Data # NoData,
           NEW fn \in {"isPointsToSetEmpty", "getPointsToSet"}, NEW AH \in ARs,
           NEW i \in 0 .. Len(Set[AH]), fn = "isPointsToSetEmpty" => i = 0,
           Begin(fn, AH, Enumerator(AH, i)),
           UNCHANGED <<lazyVars, pass, clientVars>>,
           toCompute' \subseteq toCompute,
           \A h \in toCompute : h \in toCompute' \/ (fn = "getPointsToSet" /\ h = AH)
    PROVE  PassInv'
<1>1. /\ call' = Call(fn, AH, Enumerator(AH, i), NoClient) /\ ret' = NoReturn
      /\ UNCHANGED <<solution, reliable, Set, done, query, answer>>
      /\ query = Nobody
  BY DEF Begin, lazyVars, sets, PassInv, QueryOK
<1>2. Enumerator(AH, i) \in Enumerators /\ Enumerator(AH, i).AR = AH /\ Enumerator(AH, i).i = i
  BY LenOfSet DEF Enumerator, Enumerators, PassInv
<1>3. /\ call'.fn = fn /\ call'.AH = AH /\ call'.E = Enumerator(AH, i)
      /\ call' \in [fn : CallNames, AH : ARs \cup {NoAR}, E : Enumerators, who : Clients \cup {NoClient}]
  BY <1>1, <1>2 DEF Call, CallNames
<1>4. PassTypes'
  BY <1>1, <1>3 DEF PassInv, PassTypes, pass, clientVars
<1>5. SetsOK' /\ ReadersOK'
  BY <1>1, SameSets, GrowthKeepsReaders DEF PassInv
<1>6. LifeOK'
  BY <1>1 DEF PassInv, LifeOK, pass
<1>7. i <= Len(Set[AH])
  BY LenOfSet DEF PassInv
<1>8. CallOK'
  BY <1>1, <1>2, <1>3, <1>7 DEF CallOK
<1>9. QueryOK'
  BY <1>1, NullsAssumption DEF PassInv, QueryOK
<1>10. NonLazyOK'
  BY <1>1, <1>3, StillNonLazy DEF PassInv, NoCall, Call
<1>11. ReturnOK'
  BY <1>1, NothingReturned
<1> QED  BY <1>4, <1>5, <1>6, <1>8, <1>9, <1>10, <1>11 DEF PassInv

(* No call is made, and the answer is true. *)
LEMMA ReturnKeepsInv ==
    ASSUME PassInv, call = NoCall, Data # NoData,
           NEW fn, NEW AH, NEW value, Return(fn, AH, value),
           UNCHANGED <<lazyVars, pass, clientVars>>,
           toCompute' \subseteq toCompute,
           \A h \in toCompute : h \in toCompute' \/ h = NoAR \/ h \in done,
           ReturnOK'
    PROVE  PassInv'
<1>1. /\ call' = call
      /\ UNCHANGED <<solution, reliable, Set, done, query, answer>>
  BY DEF Return, lazyVars, sets
<1>2. PassTypes'
  BY <1>1 DEF PassInv, PassTypes, pass, clientVars
<1>3. SetsOK' /\ ReadersOK'
  BY <1>1, SameSets, GrowthKeepsReaders DEF PassInv
<1>4. LifeOK' /\ CallOK' /\ QueryOK'
  BY <1>1 DEF PassInv, LifeOK, CallOK, QueryOK, pass, clientVars
<1>5. NonLazyOK'
  BY <1>1, StillNonLazy DEF PassInv
<1> QED  BY <1>2, <1>3, <1>4, <1>5 DEF PassInv

LEMMA EmptyQueryKeepsInv ==
    ASSUME PassInv, call = NoCall, Data # NoData, NEW AH \in ARs \cup {NoAR},
           isPointsToSetEmpty(AH), toCompute' = toCompute
    PROVE  PassInv'
<1>1. UNCHANGED <<lazyVars, pass, clientVars>>
  BY DEF isPointsToSetEmpty
<1>2. CASE AH = NoAR
  <2>1. Return("isPointsToSetEmpty", NoAR, TRUE)
    BY <1>2 DEF isPointsToSetEmpty
  <2>2. ReturnOK'
    <3>1. ret' = [fn |-> "isPointsToSetEmpty", AH |-> NoAR, value |-> TRUE]
      BY <2>1 DEF Return
    <3> QED  BY <3>1 DEF ReturnOK
  <2> QED  BY <1>1, <2>1, <2>2, ReturnKeepsInv
<1>3. CASE AH # NoAR
  <2>1. AH \in ARs /\ Begin("isPointsToSetEmpty", AH, Enumerator(AH, 0))
    BY <1>3 DEF isPointsToSetEmpty
  <2>2. 0 \in 0 .. Len(Set[AH])
    BY <2>1, LenOfSet DEF PassInv
  <2> QED  BY <1>1, <2>1, <2>2, BeginKeepsInv
<1> QED  BY <1>2, <1>3

LEMMA GetQueryKeepsInv ==
    ASSUME PassInv, call = NoCall, Data # NoData, NEW AH \in ARs \cup {NoAR},
           getPointsToSet(AH), toCompute' = toCompute \/ toCompute' = toCompute \ {AH}
    PROVE  PassInv'
<1>1. UNCHANGED <<lazyVars, pass, clientVars>>
  BY DEF getPointsToSet
<1>2. CASE AH = NoAR
  <2>1. Return("getPointsToSet", NoAR, NoSet)
    BY <1>2 DEF getPointsToSet
  <2>2. ReturnOK'
    <3>1. ret' = [fn |-> "getPointsToSet", AH |-> NoAR, value |-> NoSet]
      BY <2>1 DEF Return
    <3> QED  BY <3>1 DEF ReturnOK
  <2> QED  BY <1>1, <1>2, <2>1, <2>2, ReturnKeepsInv
<1>3. CASE AH \in done
  <2>1. AH \in ARs /\ AH # NoAR /\ Return("getPointsToSet", AH, SetOrNull(Set, AH))
    BY <1>3, NullsAssumption DEF getPointsToSet, PassInv, PassTypes
  <2>2. ReturnOK'
    <3>1. ret' = [fn |-> "getPointsToSet", AH |-> AH, value |-> SetOrNull(Set, AH)]
      BY <2>1 DEF Return
    <3> QED  BY <1>1, <1>3, <3>1 DEF ReturnOK, lazyVars
  <2> QED  BY <1>1, <1>3, <2>1, <2>2, ReturnKeepsInv
<1>4. CASE AH # NoAR /\ AH \notin done
  <2>1. AH \in ARs /\ Begin("getPointsToSet", AH, Enumerator(AH, Len(Set[AH])))
    BY <1>4 DEF getPointsToSet, enumerateRemaining
  <2>2. Len(Set[AH]) \in 0 .. Len(Set[AH])
    BY <2>1, LenOfSet DEF PassInv
  <2> QED  BY <1>1, <2>1, <2>2, BeginKeepsInv
<1> QED  BY <1>2, <1>3, <1>4

-----------------------------------------------------------------------------
(* Clients make enumerators and advance them. *)

LEMMA HoldKeepsInv ==
    ASSUME PassInv, Free, NEW c \in Clients, NEW a \in ARs, NEW i \in 0 .. Len(Set[a]),
           Hold(c, Enumerator(a, i), SubSeq(Set[a], 1, i))
    PROVE  PassInv'
<1>1. /\ enumerators' = [enumerators EXCEPT ![c] = Enumerator(a, i)]
      /\ got' = [got EXCEPT ![c] = SubSeq(Set[a], 1, i)]
      /\ ended' = [ended EXCEPT ![c] = FALSE]
      /\ ret' = NoReturn /\ call' = NoCall /\ call = NoCall /\ Data # NoData
      /\ UNCHANGED <<solution, reliable, Set, done, query, answer, pass, toCompute>>
  BY DEF Hold, Free, lazyVars, sets
<1>2. Set[a] \in Seq(VIs) /\ Len(Set[a]) \in Nat /\ i \in Nat /\ i <= Len(Set[a])
  BY LenOfSet DEF PassInv, PassTypes
<1>3. /\ enumerators \in [Clients -> Enumerators]
      /\ got \in [Clients -> Seq(VIs)]
      /\ ended \in [Clients -> BOOLEAN]
  BY DEF PassInv, PassTypes
<1>4. PassTypes'
  <2>1. Enumerator(a, i) \in Enumerators /\ SubSeq(Set[a], 1, i) \in Seq(VIs)
    BY <1>2, PrefixProperties DEF Enumerator, Enumerators
  <2> QED  BY <1>1, <1>3, <2>1, NoCallType DEF PassInv, PassTypes, pass
<1>5. SetsOK' /\ \A b \in ARs : Grows(b)
  BY <1>1, SameSets DEF PassInv
<1>6. LifeOK'
  BY <1>1 DEF LifeOK, pass
<1>7. CallOK' /\ QueryOK'
  BY <1>1 DEF PassInv, CallOK, QueryOK, NoCall, Call
<1>8. ReadersOK'
  <2>1. ReaderOK(c)'
    BY <1>1, <1>2, <1>3 DEF ReaderOK, Enumerator
  <2>2. ASSUME NEW d \in Clients, d # c
        PROVE  ReaderOK(d)'
    <3>1. enumerators'[d] = enumerators[d] /\ got'[d] = got[d] /\ ended'[d] = ended[d]
      BY <1>1, <1>3, <2>2
    <3>2. PassTypes /\ ReaderOK(d)
      BY DEF PassInv, ReadersOK
    <3> QED  BY <1>5, <3>1, <3>2, GrowthKeepsReader
  <2> QED  BY <2>1, <2>2 DEF ReadersOK
<1>9. NonLazyOK'
  BY <1>1, StillNonLazy DEF PassInv
<1>10. ReturnOK'
  BY <1>1, NothingReturned
<1> QED  BY <1>4, <1>5, <1>6, <1>7, <1>8, <1>9, <1>10 DEF PassInv

(* The set that stands for a null handle has no contents either. *)
LEMMA ClientHoldsInv ==
    ASSUME PassInv, NEW c \in Clients, NEW AH \in ARs \cup {NoAR},
           \/ enumeratePointsToSet(c, AH) \/ enumeratePointsToSetContentsRemaining(c, AH)
    PROVE  PassInv'
<1> DEFINE a == OrEmpty(AH)
<1>1. a \in ARs /\ Free
  BY HandleType
     DEF PassInv, Free, enumeratePointsToSet, enumeratePointsToSetContentsRemaining
<1>2. Len(Set[a]) \in Nat /\ Set[a] \in Seq(VIs)
  BY <1>1, LenOfSet DEF PassInv, PassTypes
<1>3. CASE enumeratePointsToSet(c, AH)
  <2>1. SubSeq(Set[a], 1, 0) = <<>> /\ 0 \in 0 .. Len(Set[a])
    BY <1>2, SubSeqEmpty
  <2> QED  BY <1>1, <1>3, <2>1, HoldKeepsInv DEF enumeratePointsToSet
<1>4. CASE enumeratePointsToSetContentsRemaining(c, AH)
  <2>1. SubSeq(Set[a], 1, Len(Set[a])) = Set[a]
    BY <1>2, SubSeqFull
  <2>2. getPointsToSetContentsSoFar(AH) = Set[a]
    <3>1. CASE AH = NoAR
      <4>1. a = EmptyAnalysisResult
        BY <3>1 DEF OrEmpty
      <4>2. ToSet(Set[a]) = {}
        BY <1>1, <4>1 DEF PassInv, SetsOK
      <4> QED  BY <1>2, <3>1, <4>2, ToSetEmpty DEF getPointsToSetContentsSoFar
    <3>2. CASE AH # NoAR
      BY <3>2 DEF getPointsToSetContentsSoFar, OrEmpty
    <3> QED  BY <3>1, <3>2
  <2>3. Len(Set[a]) \in 0 .. Len(Set[a])
    BY <1>2
  <2> QED  BY <1>1, <1>4, <2>1, <2>2, <2>3, HoldKeepsInv
           DEF enumeratePointsToSetContentsRemaining, enumerateRemaining
<1> QED  BY <1>3, <1>4

(* enumerate() of an Enumerator that a client, or a query of another       *)
(* analysis, holds.                                                        *)
LEMMA CallEnumerateKeepsInv ==
    ASSUME PassInv, call = NoCall, Data # NoData,
           NEW E \in Enumerators, E.AR \in ARs, E.i <= Len(Set[E.AR]),
           NEW who \in Clients \cup {NoClient}, who \in Clients => E = enumerators[who],
           call' = Call("enumerate", E.AR, E, who), ret' = NoReturn,
           UNCHANGED <<lazyVars, pass, toCompute, clientVars>>
    PROVE  PassInv'
<1>1. UNCHANGED <<solution, reliable, Set, done, query, answer>> /\ query = Nobody
  BY DEF lazyVars, sets, PassInv, QueryOK
<1>2. /\ call'.fn = "enumerate" /\ call'.E = E /\ call'.who = who
      /\ call' \in [fn : CallNames, AH : ARs \cup {NoAR}, E : Enumerators, who : Clients \cup {NoClient}]
  BY DEF Call, CallNames
<1>3. PassTypes'
  BY <1>1, <1>2 DEF PassInv, PassTypes, pass, clientVars
<1>4. SetsOK' /\ ReadersOK'
  BY <1>1, SameSets, GrowthKeepsReaders DEF PassInv
<1>5. LifeOK' /\ CallOK' /\ QueryOK'
  BY <1>1, <1>2, NullsAssumption DEF PassInv, LifeOK, CallOK, QueryOK, pass, clientVars
<1>6. NonLazyOK'
  BY <1>1, <1>2, StillNonLazy DEF PassInv, NoCall, Call
<1>7. ReturnOK'
  BY NothingReturned
<1> QED  BY <1>3, <1>4, <1>5, <1>6, <1>7 DEF PassInv

LEMMA AdvanceKeepsInv ==
    ASSUME PassInv, NEW c \in Clients, Advance(c)
    PROVE  PassInv'
<1> DEFINE E == enumerators[c]
<1>1. /\ call = NoCall /\ Data # NoData /\ E # Nobody
      /\ call' = Call("enumerate", E.AR, E, c) /\ ret' = NoReturn
      /\ UNCHANGED <<lazyVars, pass, toCompute, clientVars>>
  BY DEF Advance, Free
<1>2. E \in Enumerators /\ E.AR \in ARs /\ E.i <= Len(Set[E.AR])
  BY <1>1 DEF PassInv, PassTypes, ReadersOK, ReaderOK
<1> QED  BY <1>1, <1>2, CallEnumerateKeepsInv


-----------------------------------------------------------------------------
(* The life of the pass. *)

(* What instruction analysis leaves. *)
LEMMA RunKeepsInv ==
    ASSUME PassInv, runOnModule
    PROVE  PassInv'
<1>1. /\ Data = NoData /\ call = NoCall /\ toCompute = {} /\ ret = NoReturn
      /\ query = Nobody /\ answer = NoAnswer
      /\ \A c \in Clients : enumerators[c] = Nobody
      /\ UNCHANGED <<NonLazy, query, answer, clientVars, call, ret>>
  BY DEF runOnModule, PassInv, LifeOK, QueryOK
<1>2. PICK m \in ValueInfoMaps : /\ Data' = m
                                 /\ toCompute' = IF NonLazy THEN {m[v] : v \in DOMAIN m} ELSE {}
  BY DEF runOnModule
<1>3. PICK fresh \in FreshSets :
          /\ fresh.solution[EmptyAnalysisResult] = {} /\ EmptyAnalysisResult \in fresh.done
          /\ solution' = fresh.solution /\ Set' = fresh.Set /\ done' = fresh.done
          /\ reliable' = fresh.reliable
  BY DEF runOnModule
<1>4. /\ solution' \in [ARs -> SUBSET VIs] /\ reliable' \subseteq ARs
      /\ Set' \in [ARs -> SeqOf(VIs, 1)]
      /\ done' \subseteq ARs
      /\ \A a \in ARs : /\ ToSet(Set'[a]) \subseteq solution'[a]
                        /\ a \in done' => ToSet(Set'[a]) = solution'[a]
  BY <1>3 DEF FreshSets
<1>5. \A a \in ARs : Set'[a] \in Seq(VIs) /\ IsInjective(Set'[a])
  BY <1>4, SeqOfOne
<1>6. PassTypes'
  <2>1. toCompute' \subseteq ARs \cup {NoAR}
    BY <1>2, PassAssumption
  <2>2. Set' \in [ARs -> Seq(VIs)]
    BY <1>4, <1>5
  <2> QED  BY <1>1, <1>2, <1>4, <2>1, <2>2 DEF PassInv, PassTypes, clientVars
<1>7. SetsOK'
  BY <1>3, <1>4, <1>5 DEF SetsOK, MayEnd, IsWhole, sets
<1>8. LifeOK'
  BY <1>1, <1>2, PassAssumption DEF LifeOK
<1>9. CallOK' /\ QueryOK'
  BY <1>1, FreeAgain
<1>10. ReadersOK'
  BY <1>1 DEF ReadersOK, ReaderOK, clientVars
<1>11. NonLazyOK'
  <2> SUFFICES ASSUME NonLazy, NEW v \in Values, v \in DOMAIN m
               PROVE  m[v] \in toCompute'
    BY <1>1, <1>2 DEF NonLazyOK, Handles, getHandleToPointsToSet
  <2> QED  BY <1>2
<1>12. ReturnOK'
  BY <1>1, NothingReturned
<1> QED  BY <1>6, <1>7, <1>8, <1>9, <1>10, <1>11, <1>12 DEF PassInv

LEMMA ReleaseKeepsInv ==
    ASSUME PassInv, releaseMemory
    PROVE  PassInv'
<1>1. /\ call = NoCall /\ call' = NoCall /\ toCompute = {} /\ toCompute' = {}
      /\ Data' = NoData /\ NonLazy' = NonLazy /\ ret' = NoReturn
      /\ query = Nobody /\ answer = NoAnswer /\ UNCHANGED <<query, answer>>
      /\ solution' = [a \in ARs |-> {}] /\ reliable' = ARs /\ Set' = [a \in ARs |-> <<>>] /\ done' = ARs
      /\ enumerators' = [c \in Clients |-> Nobody]
      /\ got' = [c \in Clients |-> <<>>]
      /\ ended' = [c \in Clients |-> FALSE]
  BY DEF releaseMemory, Free, Cleared, PassInv, QueryOK
<1>2. ToSet(<<>>) = {} /\ IsInjective(<<>>) /\ <<>> \in Seq(VIs)
  BY EmptySeq DEF ToSet, IsInjective
<1>3. PassTypes'
  <2>1. Nobody \in Enumerators
    BY DEF Nobody, Enumerator, Enumerators
  <2> QED  BY <1>1, <1>2, <2>1, NoCallType DEF PassInv, PassTypes
<1>4. SetsOK'
  BY <1>1, <1>2, PassAssumption DEF SetsOK, MayEnd, IsWhole, sets
<1>5. LifeOK'
  BY <1>1 DEF LifeOK
<1>6. CallOK' /\ QueryOK'
  BY <1>1, FreeAgain
<1>7. ReadersOK' /\ NonLazyOK'
  BY <1>1 DEF ReadersOK, ReaderOK, NonLazyOK
<1>8. ReturnOK'
  BY <1>1, NothingReturned
<1> QED  BY <1>3, <1>4, <1>5, <1>6, <1>7, <1>8 DEF PassInv

LEMMA InitInv ==
    ASSUME Init
    PROVE  PassInv
<1>1. /\ solution = [a \in ARs |-> {}] /\ reliable = ARs /\ Set = [a \in ARs |-> <<>>] /\ done = ARs
      /\ query = Nobody /\ answer = NoAnswer
      /\ enumerators = [c \in Clients |-> Nobody]
      /\ got = [c \in Clients |-> <<>>]
      /\ ended = [c \in Clients |-> FALSE]
      /\ NonLazy \in BOOLEAN
      /\ Data = NoData /\ toCompute = {} /\ call = NoCall /\ ret = NoReturn
  BY PassAssumption DEF Init, Nothing, NoClients
<1>2. ToSet(<<>>) = {} /\ IsInjective(<<>>) /\ <<>> \in Seq(VIs)
  BY EmptySeq DEF ToSet, IsInjective
<1>3. PassTypes
  <2>1. Nobody \in Enumerators
    BY DEF Nobody, Enumerator, Enumerators
  <2> QED  BY <1>1, <1>2, <2>1, NoCallType DEF PassTypes
<1>4. SetsOK
  BY <1>1, <1>2, PassAssumption DEF SetsOK, MayEnd, IsWhole, sets
<1>5. LifeOK /\ ReadersOK /\ NonLazyOK
  BY <1>1 DEF LifeOK, ReadersOK, ReaderOK, NonLazyOK
<1>6. CallOK /\ QueryOK
  BY <1>1, NullsAssumption DEF CallOK, QueryOK, NoCall, Call
<1>7. ReturnOK
  BY <1>1 DEF ReturnOK, NoReturn
<1> QED  BY <1>3, <1>4, <1>5, <1>6, <1>7 DEF PassInv

(* What is begun goes on. *)
LEMMA RunningKeepsInv ==
    ASSUME PassInv, Running
    PROVE  PassInv'
<1>1. CASE NonLazyLoop
  <2>1. PICK AH \in toCompute : /\ call = NoCall
                                /\ toCompute' = toCompute \ {AH}
                                /\ getPointsToSet(AH)
    BY <1>1 DEF NonLazyLoop
  <2>2. AH \in ARs \cup {NoAR} /\ Data # NoData
    BY DEF PassInv, PassTypes, LifeOK
  <2> QED  BY <2>1, <2>2, GetQueryKeepsInv
<1>2. CASE ~NonLazyLoop
  BY <1>2, EnumerateKeepsInv, ComputeKeepsInv, EmptyAnsweredKeepsInv, GetMoreKeepsInv,
     GetAnsweredKeepsInv, EnumerateAnsweredKeepsInv DEF Running
<1> QED  BY <1>1, <1>2

(* What clients ask for. *)
LEMMA RequestsKeepInv ==
    ASSUME PassInv, Requests
    PROVE  PassInv'
<1>1. Data # NoData /\ Handles \subseteq ARs \cup {NoAR}
  BY HandleType DEF Requests, PassInv
<1>2. CASE \E AH \in Handles : Query(AH)
  BY <1>1, <1>2, EmptyQueryKeepsInv, GetQueryKeepsInv DEF Query, Free
<1>3. CASE \E c \in Clients : Advance(c)
  BY <1>3, AdvanceKeepsInv
<1>4. CASE \E c \in Clients, AH \in Handles : \/ enumeratePointsToSet(c, AH)
                                             \/ enumeratePointsToSetContentsRemaining(c, AH)
  BY <1>1, <1>4, ClientHoldsInv
<1> QED  BY <1>2, <1>3, <1>4 DEF Requests

LEMMA SameVarsKeepInv ==
    ASSUME PassInv, UNCHANGED passVars
    PROVE  PassInv'
<1>1. UNCHANGED <<solution, reliable, Set, done, query, answer, NonLazy, Data, toCompute,
                  enumerators, got, ended, call, ret>>
  BY DEF passVars, lazyVars, sets, pass, clientVars
<1>2. PassTypes' /\ LifeOK' /\ CallOK' /\ QueryOK'
  BY <1>1 DEF PassInv, PassTypes, LifeOK, CallOK, QueryOK
<1>3. SetsOK' /\ ReadersOK'
  BY <1>1, SameSets, GrowthKeepsReaders DEF PassInv, clientVars
<1>4. NonLazyOK'
  BY <1>1, StillNonLazy DEF PassInv, pass
<1>5. ReturnOK'
  BY <1>1 DEF PassInv, ReturnOK, Filled
<1> QED  BY <1>2, <1>3, <1>4, <1>5 DEF PassInv

LEMMA NextKeepsInv ==
    ASSUME PassInv, [Next]_passVars
    PROVE  PassInv'
BY RunningKeepsInv, RequestsKeepInv, RunKeepsInv, ReleaseKeepsInv, SameVarsKeepInv DEF Next

LEMMA PassInvariant == Spec => []PassInv
<1>1. Init => PassInv
  BY InitInv
<1>2. PassInv /\ [Next]_passVars => PassInv'
  BY NextKeepsInv
<1> QED  BY <1>1, <1>2, PTL DEF Spec

-----------------------------------------------------------------------------
(* What the invariant says of answers. *)

(* A set that is done is whole if it is reliable. *)
LEMMA DoneIsWhole ==
    ASSUME PassInv, NEW a \in ARs
    PROVE  /\ ToSet(Set[a]) \subseteq solution[a]
           /\ Set[a] = <<>> <=> ToSet(Set[a]) = {}
           /\ a \in done => MayEnd(a)
           /\ a \in done => ToSet(Set[a]) = solution[a] \/ a \notin reliable
BY ToSetEmpty DEF PassInv, PassTypes, SetsOK, MayEnd, IsWhole

LEMMA FilledHasElements ==
    ASSUME PassInv, NEW h \in ARs \cup {NoAR}, Filled(h)
    PROVE  h \in ARs /\ Whole(h) # {}
BY DoneIsWhole DEF Filled, Whole

LEMMA AnswersAreTrue ==
    ASSUME PassInv
    PROVE  QueriesAnswerTruly
<1>1. ReturnOK /\ done \subseteq ARs
  BY DEF PassInv, PassTypes
<1>2. ASSUME ret.fn = "isPointsToSetEmpty"
      PROVE  /\ Whole(ret.AH) = {} => ret.value
             /\ ret.value => Whole(ret.AH) = {} \/ ~Reliable(ret.AH)
  <2>1. CASE ret.AH = NoAR /\ ret.value
    BY <2>1 DEF Whole
  <2>2. CASE ret.AH \in ARs /\ ret.AH \in done /\ Set[ret.AH] = <<>> /\ ret.value
    BY <2>2, DoneIsWhole, NullsAssumption DEF Whole, Reliable
  <2>3. CASE ret.AH \in ARs /\ Filled(ret.AH) /\ ~ret.value
    BY <2>3, FilledHasElements
  <2> QED  BY <1>1, <1>2, <2>1, <2>2, <2>3 DEF ReturnOK
<1>3. ASSUME ret.fn = "getPointsToSet"
      PROVE  /\ Whole(ret.AH) = {} => ret.value = NoSet
             /\ ret.value = NoSet => Whole(ret.AH) = {} \/ ~Reliable(ret.AH)
             /\ ret.value # NoSet => ret.value = ret.AH /\ MayEnd(ret.AH) /\ ret.AH \in done
  <2>1. CASE ret.AH = NoAR /\ ret.value = NoSet
    BY <2>1 DEF Whole
  <2>2. CASE ret.AH \in done /\ ret.value = SetOrNull(Set, ret.AH)
    <3>1. ret.AH \in ARs /\ ret.AH # NoAR /\ ret.AH # NoSet
      BY <1>1, <2>2, NullsAssumption, PassAssumption
    <3>2. Whole(ret.AH) = solution[ret.AH] /\ (Reliable(ret.AH) <=> ret.AH \in reliable)
      BY <3>1 DEF Whole, Reliable
    <3>3. ret.value = IF Set[ret.AH] = <<>> THEN NoSet ELSE ret.AH
      BY <2>2 DEF SetOrNull
    <3> QED  BY <2>2, <3>1, <3>2, <3>3, DoneIsWhole
  <2> QED  BY <1>1, <1>3, <2>1, <2>2 DEF ReturnOK
<1> QED  BY <1>2, <1>3 DEF QueriesAnswerTruly

-----------------------------------------------------------------------------
(* Theorems. *)

LEMMA PassTypeCorrect ==
    ASSUME PassInv
    PROVE  TypeOK
BY DEF PassInv, PassTypes, CallOK, TypeOK, Enumerators, CallNames

(* The variables have the types they are given. *)
THEOREM TypeCorrect == Spec => []TypeOK
BY PassTypeCorrect, PassInvariant, PTL

(* isPointsToSetEmpty and getPointsToSet tell the truth about the whole    *)
(* set (AndersenPass.h:49-58), whichever part of it other queries and the  *)
(* enumerators of clients have already made the engine find, and a set     *)
(* that is returned is done and not empty; of a set that is not reliable   *)
(* they may miss elements, and never tell of ones it does not have.        *)
THEOREM QueriesTellTheTruth == Spec => []QueriesAnswerTruly
<1>1. PassInv => QueriesAnswerTruly
  BY AnswersAreTrue
<1> QED  BY <1>1, PassInvariant, PTL

(* A client's enumerator comes to every element of the set once, in the    *)
(* order in which they are found, also when others make the set grow while *)
(* the client holds it, and ends only when no more will be found, which is *)
(* the whole set if that is reliable (AndersenPass.h:60-71).               *)
THEOREM EnumeratorsAreExact == Spec => []EnumeratorsExact
<1>1. ASSUME PassInv, NEW c \in Clients, enumerators[c] # Nobody
      PROVE  /\ IsInjective(got[c])
             /\ got[c] = SubSeq(Set[enumerators[c].AR], 1, enumerators[c].i)
             /\ ended[c] => /\ got[c] = Set[enumerators[c].AR]
                            /\ enumerators[c].AR \in done /\ MayEnd(enumerators[c].AR)
  <2> DEFINE a == enumerators[c].AR
             i == enumerators[c].i
  <2>1. /\ a \in ARs /\ i \in Nat /\ i <= Len(Set[a])
        /\ got[c] = SubSeq(Set[a], 1, i)
        /\ ended[c] => a \in done /\ i = Len(Set[a])
    BY <1>1 DEF PassInv, ReadersOK, ReaderOK, PassTypes, Enumerators
  <2>2. /\ Set[a] \in Seq(VIs) /\ IsInjective(Set[a]) /\ Len(Set[a]) \in Nat
        /\ a \in done => MayEnd(a)
    BY <1>1, <2>1, LenOfSet DEF PassInv, PassTypes, SetsOK
  <2> HIDE DEF a, i
  <2>3. i \in 0 .. Len(Set[a])
    BY <2>1, <2>2
  <2>4. IsInjective(got[c])
    BY <2>1, <2>2, <2>3, PrefixInjective
  <2>5. ended[c] => got[c] = Set[a]
    BY <2>1, <2>2, SubSeqFull
  <2> QED  BY <2>1, <2>2, <2>4, <2>5 DEF a, i
<1>2. PassInv => EnumeratorsExact
  BY <1>1 DEF EnumeratorsExact
<1> QED  BY <1>2, PassInvariant, PTL

(* After a non-lazy run (AndersenPass.cpp:129) every set that a value has  *)
(* a handle to is done, and stays so.                                      *)
THEOREM NonLazyComputesAll == Spec => []NonLazyIsWhole
<1>1. ASSUME PassInv
      PROVE  NonLazyIsWhole
  BY <1>1 DEF PassInv, NonLazyOK, NonLazyIsWhole, Free, NoCall, Call
<1> QED  BY <1>1, PassInvariant, PTL

-----------------------------------------------------------------------------
(* The inductive invariant of AndersenAliasAnalysis. *)

Ops    == {"none", "alias", "pointsToConstantMemory"}
Places == {"", "start", "A is empty?", "B is empty?", "A is computed", "enumerate"}

Frames == [op : Ops, at : Places, P : Values \cup {NoValue}, Q : Values \cup {NoValue},
           orLocal : BOOLEAN, E : Enumerators]

(* What a value may point to is the whole set of its handle, as it was     *)
(* when instruction analysis ended.                                        *)
MeaningOK ==
    IF Data = NoData
    THEN meaning = <<>> /\ frame = NoFrame /\ told = NotTold
    ELSE meaning = [P \in Values \ NewValues |-> Whole(getHandleToPointsToSet(P))]

(* The query fn of the handle AH runs, or has returned. *)
Waits(fn, AH) == IF call = NoCall THEN ret.fn = fn /\ ret.AH = AH
                 ELSE call.fn = fn /\ call.AH = AH

(* The memory that the caller of pointsToConstantMemory accepts. *)
Accepted == ConstantGV \cup IF frame.orLocal THEN Local ELSE {}

(* What is known at each place of alias ... *)
AliasOK ==
    /\ {frame.P, frame.Q} \subseteq DOMAIN meaning
    /\ \/ frame.at = "start" /\ call = NoCall
       \/ frame.at = "A is empty?" /\ Waits("isPointsToSetEmpty", A)
       \/ frame.at = "B is empty?" /\ Waits("isPointsToSetEmpty", B) /\ Filled(A)
       \/ frame.at = "A is computed" /\ Waits("getPointsToSet", A) /\ Filled(A) /\ Filled(B)
       \/ /\ frame.at = "enumerate"
          /\ frame.E.AR = B
          /\ A \in done
          /\ \A k \in 1 .. frame.E.i : Set[frame.E.AR][k] \notin ToSet(Set[A])

(* ... and of pointsToConstantMemory. *)
ConstantOK ==
    /\ frame.P \in DOMAIN meaning
    /\ frame.at = "enumerate"
    /\ frame.E.AR = OrEmpty(A)
    /\ \A k \in 1 .. frame.E.i : Set[frame.E.AR][k] \in Accepted

FrameOK ==
    /\ frame.op = "none" => frame = NoFrame
    /\ frame.op # "none" => toCompute = {}
    /\ frame.op = "alias" => AliasOK
    /\ frame.op = "pointsToConstantMemory" => ConstantOK
    /\ frame.at = "enumerate" => /\ frame.E.AR \in ARs
                                 /\ frame.E.i <= Len(Set[frame.E.AR])
                                 /\ call \in {NoCall, Call("enumerate", frame.E.AR, frame.E, NoClient)}

ToldOK ==
    /\ told.answer \in {"none", "NoAlias", "forward", "constant"}
    /\ told.op = "alias" =>
          /\ Disjoint(told.P, told.Q) => told.answer = "NoAlias"
          /\ told.answer = "NoAlias" /\ Relied(told.P) /\ Relied(told.Q) => Disjoint(told.P, told.Q)
    /\ ConstantMemoryIsExact

AAInv == PassInv /\ frame \in Frames /\ MeaningOK /\ FrameOK /\ ToldOK


-----------------------------------------------------------------------------
(* What AndersenPass keeps, whatever the alias analysis does. *)

(* A frame starts. *)
LEMMA StartKeepsPass ==
    ASSUME PassInv, UNCHANGED <<lazyVars, pass, toCompute, clientVars, call>>, ret' = NoReturn
    PROVE  PassInv'
<1>1. UNCHANGED <<solution, reliable, Set, done, query, answer>>
  BY DEF lazyVars, sets
<1>2. PassTypes' /\ LifeOK' /\ CallOK' /\ QueryOK'
  BY <1>1 DEF PassInv, PassTypes, LifeOK, CallOK, QueryOK, pass, clientVars
<1>3. SetsOK' /\ ReadersOK'
  BY <1>1, SameSets, GrowthKeepsReaders DEF PassInv
<1>4. NonLazyOK'
  BY <1>1, StillNonLazy DEF PassInv
<1>5. ReturnOK'
  BY NothingReturned
<1> QED  BY <1>2, <1>3, <1>4, <1>5 DEF PassInv

(* A frame's Enumerator has come to one more element, or to the end. *)
LEMMA EnumeratedKeepsPass ==
    ASSUME PassInv, NEW op, Enumerated(op)
    PROVE  PassInv'
<1>1. /\ call.fn = "enumerate" /\ call' = NoCall
      /\ UNCHANGED <<pass, toCompute, clientVars, ret>>
      /\ Take
  BY DEF Enumerated
<1>2. query' = Nobody /\ answer' = NoAnswer /\ UNCHANGED <<solution, reliable, Set, done>> /\ call # NoCall
  BY <1>1, TakenAnswer DEF PassInv
<1>3. PassTypes'
  <2>1. Nobody \in Enumerators
    BY DEF Nobody, Enumerator, Enumerators
  <2> QED  BY <1>1, <1>2, <2>1, NoCallType DEF PassInv, PassTypes, pass, clientVars
<1>4. SetsOK' /\ ReadersOK'
  BY <1>1, <1>2, SameSets, GrowthKeepsReaders DEF PassInv
<1>5. LifeOK' /\ CallOK' /\ QueryOK'
  BY <1>1, <1>2, FreeAgain DEF PassInv, LifeOK, pass, clientVars
<1>6. NonLazyOK'
  BY <1>1, <1>2, StillNonLazy DEF PassInv
<1>7. ReturnOK'
  BY <1>1, <1>2, NothingReturned DEF PassInv, LifeOK
<1> QED  BY <1>3, <1>4, <1>5, <1>6, <1>7 DEF PassInv

(* Queries leave the sets' meaning and the handles alone. *)
LEMMA RunningKeepsMeaning ==
    ASSUME PassInv, Running
    PROVE  UNCHANGED <<solution, reliable, Data>> /\ \A a \in ARs : Grows(a)
<1>1. CASE Compute
  BY <1>1, ServeSteps DEF Compute, PassInv, pass, sets
<1>2. CASE ~Compute
  <2>1. UNCHANGED <<solution, reliable, Set, done, Data>>
    BY <1>2 DEF Running, Enumerate, Ask, EmptyAnswered, GetMore, GetAnswered, EnumerateAnswered,
                Take, NonLazyLoop, getPointsToSet, lazyVars, sets, pass
  <2> QED  BY <2>1, SameSets DEF PassInv
<1> QED  BY <1>1, <1>2

LEMMA RequestsKeepMeaning ==
    ASSUME Requests
    PROVE  UNCHANGED <<solution, reliable, Data>>
BY DEF Requests, Query, isPointsToSetEmpty, getPointsToSet, Advance, Hold,
       enumeratePointsToSet, enumeratePointsToSetContentsRemaining, lazyVars, sets, pass

-----------------------------------------------------------------------------
(* Values, their handles and their meanings. *)

LEMMA MeaningIsWhole ==
    ASSUME AAInv, NEW P \in DOMAIN meaning
    PROVE  /\ Data # NoData
           /\ P \in Values
           /\ meaning[P] = Whole(getHandleToPointsToSet(P))
           /\ getHandleToPointsToSet(P) \in ARs \cup {NoAR}
           /\ OrEmpty(getHandleToPointsToSet(P)) \in ARs
<1>1. Data # NoData
  BY DEF AAInv, MeaningOK
<1> QED  BY <1>1, HandleType DEF AAInv, MeaningOK, PassInv

(* A frame that runs. *)
LEMMA FrameHandles ==
    ASSUME AAInv, frame.op # "none"
    PROVE  /\ Data # NoData /\ toCompute = {}
           /\ frame.P \in DOMAIN meaning /\ meaning[frame.P] = Whole(A)
           /\ A \in ARs \cup {NoAR} /\ OrEmpty(A) \in ARs
           /\ frame.op = "alias" => /\ frame.Q \in DOMAIN meaning /\ meaning[frame.Q] = Whole(B)
                                    /\ B \in ARs \cup {NoAR}
<1>1. frame.op \in {"alias", "pointsToConstantMemory"} /\ toCompute = {}
  BY DEF AAInv, FrameOK, Frames, Ops
<1>2. frame.P \in DOMAIN meaning /\ (frame.op = "alias" => frame.Q \in DOMAIN meaning)
  BY <1>1 DEF AAInv, FrameOK, AliasOK, ConstantOK
<1> QED  BY <1>1, <1>2, MeaningIsWhole DEF A, B

LEMMA NoFrameOp == NoFrame.op = "none" /\ NoFrame.at = "" /\ NoFrame \in Frames
BY DEF NoFrame, Frame, Frames, Ops, Places, Nobody, Enumerator, Enumerators

LEMMA NoFrameOK ==
    ASSUME frame' = NoFrame
    PROVE  frame' \in Frames /\ FrameOK'
BY NoFrameOp DEF FrameOK

LEMMA SameMeaning ==
    ASSUME MeaningOK, UNCHANGED <<solution, reliable, Data, meaning>>, Data # NoData
    PROVE  MeaningOK'
BY DEF MeaningOK, Whole, getHandleToPointsToSet

LEMMA NothingTold ==
    ASSUME told' = NotTold
    PROVE  ToldOK'
BY DEF ToldOK, NotTold, ConstantMemoryIsExact

LEMMA SameTold ==
    ASSUME ToldOK, UNCHANGED <<told, meaning, reliable, Data>>
    PROVE  ToldOK'
BY DEF ToldOK, ConstantMemoryIsExact, Disjoint, Relied, Reliable, getHandleToPointsToSet

-----------------------------------------------------------------------------
(* A query of AndersenPass runs; the frame waits. *)

(* The query goes on as the query it is, until it returns. *)
LEMMA RunningCalls ==
    ASSUME Running, toCompute = {}
    PROVE  /\ toCompute' = {}
           /\ \/ UNCHANGED <<call, ret>>
              \/ /\ call # NoCall /\ call.fn \in {"isPointsToSetEmpty", "getPointsToSet"}
                 /\ \/ call' # NoCall /\ call'.fn = call.fn /\ call'.AH = call.AH
                    \/ call' = NoCall /\ ret'.fn = call.fn /\ ret'.AH = call.AH
              \/ call # NoCall /\ call.fn = "enumerate" /\ call.who \in Clients
<1>1. NoCall.fn = "none"
  BY DEF NoCall, Call
<1>2. CASE Enumerate \/ Compute
  BY <1>2 DEF Enumerate, Compute
<1>3. CASE EmptyAnswered \/ GetAnswered
  BY <1>1, <1>3 DEF EmptyAnswered, GetAnswered, Return
<1>4. CASE GetMore
  <2>1. /\ call.fn = "getPointsToSet" /\ toCompute' = {}
        /\ call'.fn = call.fn /\ call'.AH = call.AH
    BY <1>4 DEF GetMore
  <2> QED  BY <1>1, <2>1
<1>5. CASE EnumerateAnswered
  BY <1>1, <1>5 DEF EnumerateAnswered
<1>6. ~NonLazyLoop
  BY DEF NonLazyLoop
<1> QED  BY <1>2, <1>3, <1>4, <1>5, <1>6 DEF Running

LEMMA WaitsOn ==
    ASSUME Running, toCompute = {}, NEW fn \in {"isPointsToSetEmpty", "getPointsToSet"}, NEW AH,
           Waits(fn, AH)
    PROVE  IF call' = NoCall THEN ret'.fn = fn /\ ret'.AH = AH
           ELSE call'.fn = fn /\ call'.AH = AH
BY RunningCalls DEF Waits

(* The elements that the frame has come to stay what they were, and a set  *)
(* that is whole does too.                                                 *)
LEMMA ReadStays ==
    ASSUME AAInv, frame.at = "enumerate", frame.op # "none", \A a \in ARs : Grows(a)
    PROVE  /\ frame.E.i <= Len(Set'[frame.E.AR])
           /\ \A k \in 1 .. frame.E.i : Set'[frame.E.AR][k] = Set[frame.E.AR][k]
           /\ \A h \in done : h \in done' /\ Set'[h] = Set[h]
<1>1. frame.E.AR \in ARs /\ frame.E.i \in Nat /\ frame.E.i <= Len(Set[frame.E.AR])
  BY DEF AAInv, FrameOK, Frames, Enumerators
<1>2. Grows(frame.E.AR) /\ done \subseteq ARs
  BY <1>1 DEF AAInv, PassInv, PassTypes
<1>3. 1 .. frame.E.i \subseteq 1 .. Len(Set[frame.E.AR]) /\ frame.E.i <= Len(Set'[frame.E.AR])
  BY <1>1, <1>2 DEF Grows
<1> QED  BY <1>2, <1>3 DEF Grows

LEMMA StaysFilled ==
    ASSUME PassInv, \A a \in ARs : Grows(a), NEW h \in ARs \cup {NoAR}, Filled(h)
    PROVE  h # NoAR /\ Set'[h] # <<>>
<1>1. h \in ARs /\ Set[h] \in Seq(VIs) /\ Set[h] # <<>>
  BY DEF Filled, PassInv, PassTypes
<1>2. Len(Set[h]) \in Nat /\ Len(Set'[h]) \in Nat /\ Len(Set[h]) <= Len(Set'[h])
  BY <1>1 DEF Grows
<1>3. Len(Set[h]) # 0
  BY <1>1, EmptySeq
<1>4. Len(Set'[h]) # 0
  BY <1>2, <1>3
<1> QED  BY <1>1, <1>4, EmptySeq DEF Filled

LEMMA RunningKeepsAA ==
    ASSUME AAInv, Running, UNCHANGED <<meaning, frame, told>>
    PROVE  AAInv'
<1>1. PassInv' /\ UNCHANGED sets /\ Data' = Data /\ (\A a \in ARs : Grows(a))
  BY RunningKeepsInv, RunningKeepsMeaning DEF AAInv, sets
<1>2. MeaningOK'
  BY <1>1 DEF AAInv, MeaningOK, Whole, getHandleToPointsToSet, sets
<1>3. ToldOK' /\ frame' \in Frames
  BY <1>1, SameTold DEF AAInv, sets
<1>4. CASE frame.op = "none"
  <2>1. frame' = NoFrame
    BY <1>4 DEF AAInv, FrameOK
  <2> QED  BY <1>1, <1>2, <1>3, <2>1, NoFrameOK DEF AAInv
<1>5. CASE frame.op # "none"
  <2>1. toCompute = {}
    BY <1>5, FrameHandles
  <2>2. toCompute' = {} /\ A' = A /\ B' = B
    BY <1>1, <2>1, RunningCalls DEF A, B, getHandleToPointsToSet
  <2>3. ASSUME frame.at = "enumerate"
        PROVE  call \in {NoCall, Call("enumerate", frame.E.AR, frame.E, NoClient)} => call' = call
    BY <2>1, RunningCalls, PassAssumption DEF Call, NoCall
  <2>4. ASSUME frame.at = "enumerate"
        PROVE  /\ frame.E.i <= Len(Set'[frame.E.AR])
               /\ \A k \in 1 .. frame.E.i : Set'[frame.E.AR][k] = Set[frame.E.AR][k]
               /\ \A h \in done : h \in done' /\ Set'[h] = Set[h]
    BY <1>1, <1>5, <2>4, ReadStays
  <2>5. ASSUME frame.op = "alias"
        PROVE  AliasOK'
    <3>1. AliasOK
      BY <2>5 DEF AAInv, FrameOK
    <3>2. PICK a, b : a = A /\ b = B
      OBVIOUS
    <3>3. /\ {frame.P, frame.Q} \subseteq DOMAIN meaning /\ a = A' /\ b = B'
          /\ a \in ARs \cup {NoAR} /\ b \in ARs \cup {NoAR}
          /\ Filled(a) => Filled(A)'
          /\ Filled(b) => Filled(B)'
      <4>1. {frame.P, frame.Q} \subseteq DOMAIN meaning
        BY <3>1 DEF AliasOK
      <4>2. a = A' /\ b = B'
        BY <2>2, <3>2
      <4>3. a \in ARs \cup {NoAR} /\ b \in ARs \cup {NoAR}
        BY <1>5, <2>5, <3>2, FrameHandles
      <4>4. (Filled(a) => Set'[a] # <<>>) /\ (Filled(b) => Set'[b] # <<>>)
        BY <1>1, <4>3, StaysFilled DEF AAInv
      <4> QED  BY <4>1, <4>2, <4>3, <4>4 DEF Filled
    <3>4. ASSUME NEW fn \in {"isPointsToSetEmpty", "getPointsToSet"}, NEW h, Waits(fn, h)
          PROVE  Waits(fn, h)'
      BY <2>1, <3>4, WaitsOn DEF Waits
    <3>5. CASE frame.at = "start" /\ call = NoCall
      <4>1. call' = NoCall
        BY <2>1, <3>5, RunningCalls DEF NoCall, Call
      <4> QED  BY <3>3, <3>5, <4>1 DEF AliasOK
    <3>6. CASE frame.at = "A is empty?" /\ Waits("isPointsToSetEmpty", a)
      <4>1. Waits("isPointsToSetEmpty", A)'
        BY <3>3, <3>4, <3>6 DEF Waits
      <4> QED  BY <3>3, <3>6, <4>1 DEF AliasOK
    <3>7. CASE frame.at = "B is empty?" /\ Waits("isPointsToSetEmpty", b) /\ Filled(a)
      <4>1. Waits("isPointsToSetEmpty", B)'
        BY <3>3, <3>4, <3>7 DEF Waits
      <4> QED  BY <3>3, <3>7, <4>1 DEF AliasOK
    <3>8. CASE frame.at = "A is computed" /\ Waits("getPointsToSet", a) /\ Filled(a) /\ Filled(b)
      <4>1. Waits("getPointsToSet", A)'
        BY <3>3, <3>4, <3>8 DEF Waits
      <4> QED  BY <3>3, <3>8, <4>1 DEF AliasOK
    <3>9. CASE /\ frame.at = "enumerate" /\ frame.E.AR = b /\ a \in done
               /\ \A k \in 1 .. frame.E.i : Set[frame.E.AR][k] \notin ToSet(Set[a])
      BY <2>4, <3>3, <3>9 DEF AliasOK
    <3> QED  BY <3>1, <3>2, <3>5, <3>6, <3>7, <3>8, <3>9 DEF AliasOK
  <2>6. ASSUME frame.op = "pointsToConstantMemory"
        PROVE  ConstantOK'
    BY <2>2, <2>4, <2>6 DEF AAInv, FrameOK, ConstantOK, Accepted
  <2>7. FrameOK'
    BY <1>5, <2>2, <2>3, <2>4, <2>5, <2>6 DEF AAInv, FrameOK
  <2> QED  BY <1>1, <1>2, <1>3, <2>7 DEF AAInv
<1> QED  BY <1>4, <1>5

-----------------------------------------------------------------------------
(* Queries of the alias analysis begin. *)

LEMMA AliasKeepsAA ==
    ASSUME AAInv, NEW P \in DOMAIN meaning, NEW Q \in DOMAIN meaning, alias(P, Q)
    PROVE  AAInv'
<1>1. /\ Data # NoData /\ call = NoCall /\ toCompute = {}
      /\ frame' = Frame("alias", "start", P, Q, FALSE) /\ told' = NotTold /\ ret' = NoReturn
      /\ UNCHANGED <<lazyVars, pass, toCompute, clientVars, call, meaning>>
  BY DEF alias, Resting, Free, Start
<1>2. PassInv'
  BY <1>1, StartKeepsPass DEF AAInv
<1>3. MeaningOK' /\ ToldOK'
  BY <1>1, SameMeaning, NothingTold DEF AAInv, lazyVars, sets, pass
<1>4. /\ frame' \in Frames /\ frame'.op = "alias" /\ frame'.at = "start"
      /\ frame'.P = P /\ frame'.Q = Q
  <2>1. P \in Values /\ Q \in Values
    BY MeaningIsWhole
  <2> QED  BY <1>1, <2>1 DEF Frame, Frames, Ops, Places, Nobody, Enumerator, Enumerators
<1>5. AliasOK'
  BY <1>1, <1>4 DEF AliasOK
<1>6. FrameOK'
  BY <1>1, <1>4, <1>5 DEF FrameOK
<1> QED  BY <1>2, <1>3, <1>4, <1>6 DEF AAInv

LEMMA ConstantMemoryKeepsAA ==
    ASSUME AAInv, NEW P \in DOMAIN meaning, NEW orLocal \in BOOLEAN, pointsToConstantMemory(P, orLocal)
    PROVE  AAInv'
<1> DEFINE a == OrEmpty(getHandleToPointsToSet(P))
<1>1. /\ Data # NoData /\ call = NoCall /\ toCompute = {}
      /\ frame' = [Frame("pointsToConstantMemory", "enumerate", P, NoValue, orLocal)
                       EXCEPT !.E = Enumerator(a, 0)]
      /\ told' = NotTold /\ ret' = NoReturn
      /\ UNCHANGED <<lazyVars, pass, toCompute, clientVars, call, meaning>>
  BY DEF pointsToConstantMemory, Resting, Free, Start
<1>2. PassInv'
  BY <1>1, StartKeepsPass DEF AAInv
<1>3. MeaningOK' /\ ToldOK'
  BY <1>1, SameMeaning, NothingTold DEF AAInv, lazyVars, sets, pass
<1>4. P \in Values /\ a \in ARs /\ Len(Set[a]) \in Nat
  BY MeaningIsWhole, LenOfSet DEF AAInv, PassInv
<1>5. /\ frame' \in Frames /\ frame'.op = "pointsToConstantMemory" /\ frame'.at = "enumerate"
      /\ frame'.P = P /\ frame'.E.AR = a /\ frame'.E.i = 0
  BY <1>1, <1>4 DEF Frame, Frames, Ops, Places, Enumerator, Enumerators
<1>6. UNCHANGED <<Data, Set>>
  BY <1>1 DEF lazyVars, pass
<1>7. ConstantOK'
  BY <1>1, <1>5, <1>6 DEF ConstantOK, A, OrEmpty, getHandleToPointsToSet
<1>8. FrameOK'
  BY <1>1, <1>4, <1>5, <1>6, <1>7 DEF FrameOK
<1> QED  BY <1>2, <1>3, <1>5, <1>8 DEF AAInv

-----------------------------------------------------------------------------
(* alias asks AndersenPass. *)

LEMMA EmptyQueryWaits ==
    ASSUME NEW AH, isPointsToSetEmpty(AH)
    PROVE  /\ UNCHANGED <<solution, reliable, Set, Data>>
           /\ Waits("isPointsToSetEmpty", AH)'
BY DEF isPointsToSetEmpty, Return, Begin, Waits, NoCall, Call, lazyVars, sets, pass

LEMMA GetQueryWaits ==
    ASSUME NEW AH, getPointsToSet(AH)
    PROVE  /\ UNCHANGED <<solution, reliable, Set, Data>>
           /\ Waits("getPointsToSet", AH)'
BY DEF getPointsToSet, Return, Begin, Waits, NoCall, Call, lazyVars, sets, pass

(* The frame is at its next place, which is one where it waits. *)
LEMMA GoOn ==
    ASSUME AAInv, PassInv', frame.op = "alias", NEW at \in {"A is empty?", "B is empty?", "A is computed"},
           Goto(at), UNCHANGED <<solution, reliable, Set, Data, toCompute, meaning>>,
           \/ at = "A is empty?" /\ Waits("isPointsToSetEmpty", A)'
           \/ at = "B is empty?" /\ Waits("isPointsToSetEmpty", B)' /\ Filled(A)
           \/ at = "A is computed" /\ Waits("getPointsToSet", A)' /\ Filled(A) /\ Filled(B)
    PROVE  AAInv'
<1>1. frame' = [frame EXCEPT !.at = at] /\ UNCHANGED told
  BY DEF Goto
<1>2. /\ frame' \in Frames /\ frame'.op = "alias" /\ frame'.at = at
      /\ frame'.P = frame.P /\ frame'.Q = frame.Q
  BY <1>1 DEF AAInv, Frames, Places
<1>3. MeaningOK' /\ ToldOK' /\ toCompute' = {}
  BY <1>1, FrameHandles, SameMeaning, SameTold DEF AAInv
<1>4. Filled(A)' = Filled(A) /\ Filled(B)' = Filled(B)
  BY <1>2 DEF A, B, Filled, getHandleToPointsToSet
<1>5. AliasOK'
  BY <1>2, <1>4, FrameHandles DEF AliasOK
<1>6. FrameOK'
  BY <1>2, <1>3, <1>5 DEF FrameOK
<1> QED  BY <1>2, <1>3, <1>6 DEF AAInv

(* What the answer to a query of A or B says, when the frame has control. *)
LEMMA AliasKnows ==
    ASSUME AAInv, call = NoCall, frame.op = "alias"
    PROVE  /\ frame.at = "A is empty?" => IF ret.value THEN Whole(A) = {} \/ ~Reliable(A) ELSE Filled(A)
           /\ frame.at = "B is empty?" => /\ IF ret.value THEN Whole(B) = {} \/ ~Reliable(B) ELSE Filled(B)
                                          /\ Filled(A)
           /\ frame.at = "A is computed" => A \in done /\ Filled(A) /\ Filled(B) /\ ret.value = A
<1>1. AliasOK /\ ReturnOK /\ QueriesAnswerTruly
  BY AnswersAreTrue DEF AAInv, FrameOK, PassInv
<1> QED  BY <1>1 DEF AliasOK, Waits, ReturnOK, QueriesAnswerTruly, Filled, SetOrNull

LEMMA GotoKeepsHandles ==
    ASSUME AAInv, NEW at, Goto(at), Data' = Data
    PROVE  A' = A /\ B' = B
BY DEF Goto, A, B, getHandleToPointsToSet, AAInv, Frames

LEMMA AliasBeginsKeepsAA ==
    ASSUME AAInv, AliasBegins
    PROVE  AAInv'
<1>1. /\ frame.op = "alias" /\ call = NoCall
      /\ isPointsToSetEmpty(A) /\ Goto("A is empty?") /\ UNCHANGED <<toCompute, meaning>>
  BY DEF AliasBegins, At
<1>2. PICK a \in ARs \cup {NoAR} : a = A
  BY <1>1, FrameHandles
<1>3. PassInv'
  BY <1>1, <1>2, FrameHandles, EmptyQueryKeepsInv DEF AAInv
<1>4. UNCHANGED <<solution, reliable, Set, Data>> /\ Waits("isPointsToSetEmpty", a)'
  BY <1>1, <1>2, EmptyQueryWaits
<1>5. Waits("isPointsToSetEmpty", A)'
  BY <1>1, <1>2, <1>4, GotoKeepsHandles DEF Waits
<1> QED  BY <1>1, <1>3, <1>4, <1>5, GoOn

LEMMA AliasLooksAtBKeepsAA ==
    ASSUME AAInv, AliasLooksAtB
    PROVE  AAInv'
<1>1. /\ frame.op = "alias" /\ frame.at = "A is empty?" /\ call = NoCall /\ ~ret.value
      /\ isPointsToSetEmpty(B) /\ Goto("B is empty?") /\ UNCHANGED <<toCompute, meaning>>
  BY DEF AliasLooksAtB, At
<1>2. PICK b \in ARs \cup {NoAR} : b = B
  BY <1>1, FrameHandles
<1>3. PassInv'
  BY <1>1, <1>2, FrameHandles, EmptyQueryKeepsInv DEF AAInv
<1>4. UNCHANGED <<solution, reliable, Set, Data>> /\ Waits("isPointsToSetEmpty", b)'
  BY <1>1, <1>2, EmptyQueryWaits
<1>5. Waits("isPointsToSetEmpty", B)'
  BY <1>1, <1>2, <1>4, GotoKeepsHandles DEF Waits
<1>6. Filled(A)
  BY <1>1, AliasKnows
<1> QED  BY <1>1, <1>3, <1>4, <1>5, <1>6, GoOn

LEMMA AliasComputesAKeepsAA ==
    ASSUME AAInv, AliasComputesA
    PROVE  AAInv'
<1>1. /\ frame.op = "alias" /\ frame.at = "B is empty?" /\ call = NoCall /\ ~ret.value
      /\ getPointsToSet(A) /\ Goto("A is computed") /\ UNCHANGED <<toCompute, meaning>>
  BY DEF AliasComputesA, At
<1>2. PICK a \in ARs \cup {NoAR} : a = A
  BY <1>1, FrameHandles
<1>3. PassInv'
  BY <1>1, <1>2, FrameHandles, GetQueryKeepsInv DEF AAInv
<1>4. UNCHANGED <<solution, reliable, Set, Data>> /\ Waits("getPointsToSet", a)'
  BY <1>1, <1>2, GetQueryWaits
<1>5. Waits("getPointsToSet", A)'
  BY <1>1, <1>2, <1>4, GotoKeepsHandles DEF Waits
<1>6. Filled(A) /\ Filled(B)
  BY <1>1, AliasKnows
<1> QED  BY <1>1, <1>3, <1>4, <1>5, <1>6, GoOn

(* A is whole; B is come to element by element. *)
LEMMA AliasEnumeratesBKeepsAA ==
    ASSUME AAInv, AliasEnumeratesB
    PROVE  AAInv'
<1>1. /\ frame.op = "alias" /\ frame.at = "A is computed" /\ call = NoCall
      /\ frame' = [frame EXCEPT !.at = "enumerate", !.E = Enumerator(B, 0)]
      /\ UNCHANGED <<passVars, meaning, told>>
  BY DEF AliasEnumeratesB, At
<1>2. /\ A \in done /\ B \in ARs /\ Data # NoData /\ toCompute = {}
      /\ {frame.P, frame.Q} \subseteq DOMAIN meaning
  BY <1>1, AliasKnows, FrameHandles DEF Filled
<1>3. UNCHANGED <<Set, done, Data, solution, reliable, toCompute, call>>
  BY <1>1 DEF passVars, lazyVars, sets, pass
<1>4. PassInv'
  BY <1>1, SameVarsKeepInv DEF AAInv
<1>5. MeaningOK' /\ ToldOK'
  BY <1>1, <1>2, <1>3, SameMeaning, SameTold DEF AAInv
<1>6. /\ frame' \in Frames /\ frame'.op = "alias" /\ frame'.at = "enumerate"
      /\ frame'.P = frame.P /\ frame'.Q = frame.Q /\ frame'.E.AR = B /\ frame'.E.i = 0
  BY <1>1, <1>2 DEF AAInv, Frames, Places, Enumerator, Enumerators
<1>7. A' = A /\ B' = B
  BY <1>3, <1>6 DEF A, B, getHandleToPointsToSet
<1>8. A' \in done' /\ frame'.E.AR = B' /\ {frame'.P, frame'.Q} \subseteq DOMAIN meaning'
  BY <1>1, <1>2, <1>3, <1>6, <1>7
<1>9. AliasOK'
  <2>1. \A k \in 1 .. frame'.E.i : FALSE
    BY <1>6
  <2> QED  BY <1>6, <1>8, <2>1 DEF AliasOK
<1>10. FrameOK'
  <2>1. PICK b \in ARs : b = B
    BY <1>2
  <2>2. 0 <= Len(Set'[b])
    BY <1>3, LenOfSet DEF AAInv, PassInv
  <2> QED  BY <1>1, <1>2, <1>3, <1>6, <1>9, <2>1, <2>2 DEF FrameOK
<1> QED  BY <1>4, <1>5, <1>6, <1>10 DEF AAInv

(* The frame ends with its answer. *)
LEMMA TellKeepsAA ==
    ASSUME AAInv, PassInv', frame.op # "none", NEW answered \in {"NoAlias", "forward", "constant"},
           Tell(answered), UNCHANGED <<solution, reliable, Data, meaning>>,
           frame.op = "alias" =>
               /\ Whole(A) \cap Whole(B) = {} => answered = "NoAlias"
               /\ answered = "NoAlias" /\ Reliable(A) /\ Reliable(B) => Whole(A) \cap Whole(B) = {},
           frame.op = "pointsToConstantMemory" =>
               /\ Whole(A) \subseteq Accepted => answered = "constant"
               /\ answered = "constant" /\ Reliable(A) => Whole(A) \subseteq Accepted
    PROVE  AAInv'
<1>1. /\ told' = [op |-> frame.op, P |-> frame.P, Q |-> frame.Q, orLocal |-> frame.orLocal, answer |-> answered]
      /\ frame' = NoFrame
  BY DEF Tell
<1>2. Data # NoData /\ meaning[frame.P] = Whole(A) /\ (frame.op = "alias" => meaning[frame.Q] = Whole(B))
  BY FrameHandles
<1>3. MeaningOK'
  BY <1>2, SameMeaning DEF AAInv
<1>4. ToldOK'
  <2>1. A = getHandleToPointsToSet(frame.P) /\ B = getHandleToPointsToSet(frame.Q)
    BY DEF A, B
  <2>2. \A v : Relied(v)' = Reliable(getHandleToPointsToSet(v))
    BY DEF Relied, Reliable, getHandleToPointsToSet
  <2> QED  BY <1>1, <1>2, <2>1, <2>2 DEF ToldOK, Disjoint, ConstantMemoryIsExact, Accepted
<1> QED  BY <1>1, <1>3, <1>4, NoFrameOK DEF AAInv

LEMMA AliasOfNothingKeepsAA ==
    ASSUME AAInv, AliasOfNothing
    PROVE  AAInv'
<1>1. /\ frame.op = "alias" /\ frame.at \in {"A is empty?", "B is empty?"} /\ call = NoCall /\ ret.value
      /\ Tell("NoAlias") /\ UNCHANGED <<passVars, meaning>>
  BY DEF AliasOfNothing, At
<1>2. Reliable(A) /\ Reliable(B) => Whole(A) \cap Whole(B) = {}
  BY <1>1, AliasKnows
<1>3. PassInv' /\ UNCHANGED <<solution, reliable, Data>>
  BY <1>1, SameVarsKeepInv DEF AAInv, passVars, lazyVars, sets, pass
<1> QED  BY <1>1, <1>2, <1>3, TellKeepsAA

-----------------------------------------------------------------------------
(* The loops of both queries. *)

LEMMA EnumerateNextKeepsAA ==
    ASSUME AAInv, EnumerateNext
    PROVE  AAInv'
<1>1. /\ frame.at = "enumerate" /\ call = NoCall /\ ret' = NoReturn
      /\ call' = Call("enumerate", frame.E.AR, frame.E, NoClient)
      /\ UNCHANGED <<lazyVars, pass, toCompute, clientVars, meaning, frame, told>>
  BY DEF EnumerateNext
<1>2. frame.op # "none"
  BY <1>1, NoFrameOp DEF AAInv, FrameOK
<1>3. Data # NoData /\ toCompute = {}
  BY <1>2, FrameHandles
<1>4. PICK E \in Enumerators : E = frame.E
  BY DEF AAInv, Frames
<1>5. E.AR \in ARs /\ E.i <= Len(Set[E.AR])
  BY <1>1, <1>4 DEF AAInv, FrameOK
<1>6. PassInv'
  BY <1>1, <1>3, <1>4, <1>5, CallEnumerateKeepsInv, PassAssumption DEF AAInv
<1>7. UNCHANGED <<solution, reliable, Set, done, Data>>
  BY <1>1 DEF lazyVars, sets, pass
<1>8. MeaningOK' /\ ToldOK'
  BY <1>1, <1>3, <1>7, SameMeaning, SameTold DEF AAInv
<1>9. AliasOK => AliasOK'
  BY <1>1, <1>7 DEF AliasOK, A, B, getHandleToPointsToSet
<1>10. ConstantOK => ConstantOK'
  BY <1>1, <1>7 DEF ConstantOK, Accepted, A, getHandleToPointsToSet
<1>11. FrameOK'
  BY <1>1, <1>2, <1>7, <1>9, <1>10 DEF AAInv, FrameOK
<1> QED  BY <1>1, <1>6, <1>8, <1>11 DEF AAInv

(* What enumerate() has come to: an element, and the Enumerator query is   *)
(* behind it, or the end of a set that is whole.                           *)
LEMMA Met ==
    ASSUME AAInv, NEW op \in {"alias", "pointsToConstantMemory"}, Enumerated(op)
    PROVE  /\ frame.op = op /\ frame.at = "enumerate"
           /\ PassInv' /\ call' = NoCall
           /\ UNCHANGED <<solution, reliable, Set, done, Data, toCompute, meaning>>
           /\ query \in Enumerators /\ query.AR = frame.E.AR /\ query.AR \in ARs
           /\ frame.E.i \in Nat
           /\ query.i <= Len(Set[query.AR])
           /\ \/ /\ answer \in VIs
                 /\ query.i = frame.E.i + 1
                 /\ answer = Set[query.AR][query.i]
                 /\ answer \in solution[query.AR]
              \/ /\ answer = NoVI
                 /\ query.i = frame.E.i /\ query.i = Len(Set[query.AR])
                 /\ query.AR \in done
<1>1. /\ frame.op = op /\ frame.at = "enumerate" /\ call.fn = "enumerate" /\ Take /\ call' = NoCall
      /\ UNCHANGED <<pass, toCompute, meaning>>
  BY DEF Enumerated
<1>2. PassInv' /\ frame.E \in Enumerators
  BY EnumeratedKeepsPass DEF AAInv, Frames
<1>3. call.E = frame.E
  BY <1>1 DEF AAInv, FrameOK, NoCall, Call
<1>4. /\ UNCHANGED <<solution, reliable, Set, done>>
      /\ query.AR = frame.E.AR /\ query.AR \in ARs /\ query \in Enumerators
      /\ Len(Set[query.AR]) \in Nat /\ query.i <= Len(Set[query.AR])
      /\ \/ answer \in VIs /\ query.i = frame.E.i + 1 /\ answer = Set[query.AR][query.i]
         \/ answer = NoVI /\ query = frame.E /\ query.i = Len(Set[query.AR]) /\ query.AR \in done
  BY <1>1, <1>3, TakenAnswer DEF AAInv, PassInv
<1>5. frame.E.i \in Nat /\ query.i \in Nat
  BY <1>2, <1>4 DEF Enumerators
<1>6. ASSUME answer \in VIs, query.i = frame.E.i + 1, answer = Set[query.AR][query.i]
      PROVE  answer \in solution[query.AR]
  <2>1. Set[query.AR] \in Seq(VIs) /\ ToSet(Set[query.AR]) \subseteq solution[query.AR]
    BY <1>4 DEF AAInv, PassInv, PassTypes, SetsOK
  <2>2. query.i \in 1 .. Len(Set[query.AR])
    BY <1>4, <1>5, <1>6
  <2> QED  BY <1>6, <2>1, <2>2 DEF ToSet
<1> QED  BY <1>1, <1>2, <1>4, <1>5, <1>6 DEF pass

(* The frame has accepted the element, and goes on. *)
LEMMA ContinueKeepsAA ==
    ASSUME AAInv, NEW op \in {"alias", "pointsToConstantMemory"}, Enumerated(op), Continue, answer # NoVI,
           op = "alias" => answer \notin ToSet(Set[A]),
           op = "pointsToConstantMemory" => answer \in Accepted
    PROVE  AAInv'
<1>1. /\ frame.op = op /\ frame.at = "enumerate"
      /\ PassInv' /\ call' = NoCall
      /\ UNCHANGED <<solution, reliable, Set, done, Data, toCompute, meaning>>
      /\ query \in Enumerators /\ query.AR = frame.E.AR /\ query.AR \in ARs
      /\ frame.E.i \in Nat
      /\ query.i <= Len(Set[query.AR])
      /\ query.i = frame.E.i + 1
      /\ answer = Set[query.AR][query.i]
  BY Met
<1>2. frame' = [frame EXCEPT !.E = query] /\ UNCHANGED told
  BY DEF Continue
<1>3. /\ frame' \in Frames /\ frame'.op = op /\ frame'.at = "enumerate" /\ frame'.E = query
      /\ frame'.P = frame.P /\ frame'.Q = frame.Q /\ frame'.orLocal = frame.orLocal
  BY <1>1, <1>2 DEF AAInv, Frames
<1>4. Data # NoData /\ toCompute' = {}
  BY <1>1, FrameHandles
<1>5. MeaningOK' /\ ToldOK'
  BY <1>1, <1>2, <1>4, SameMeaning, SameTold DEF AAInv
<1>6. A' = A /\ B' = B
  BY <1>1, <1>3 DEF A, B, getHandleToPointsToSet
<1>7. \A k \in 1 .. query.i : k \in 1 .. frame.E.i \/ k = query.i
  BY <1>1
<1>8. ASSUME op = "alias"
      PROVE  AliasOK'
  <2>1. /\ {frame.P, frame.Q} \subseteq DOMAIN meaning /\ frame.E.AR = B /\ A \in done
        /\ \A k \in 1 .. frame.E.i : Set[frame.E.AR][k] \notin ToSet(Set[A])
    BY <1>1, <1>8 DEF AAInv, FrameOK, AliasOK
  <2>2. \A k \in 1 .. query.i : Set[query.AR][k] \notin ToSet(Set[A])
    BY <1>1, <1>7, <1>8, <2>1
  <2> QED  BY <1>1, <1>3, <1>6, <2>1, <2>2 DEF AliasOK
<1>9. ASSUME op = "pointsToConstantMemory"
      PROVE  ConstantOK'
  <2>1. /\ frame.P \in DOMAIN meaning /\ frame.E.AR = OrEmpty(A) /\ Accepted' = Accepted
        /\ \A k \in 1 .. frame.E.i : Set[frame.E.AR][k] \in Accepted
    BY <1>1, <1>3, <1>9 DEF AAInv, FrameOK, ConstantOK, Accepted
  <2>2. \A k \in 1 .. query.i : Set[query.AR][k] \in Accepted
    BY <1>1, <1>7, <1>9, <2>1
  <2> QED  BY <1>1, <1>3, <1>6, <2>1, <2>2 DEF ConstantOK, OrEmpty
<1>10. FrameOK'
  BY <1>1, <1>3, <1>4, <1>8, <1>9 DEF FrameOK
<1> QED  BY <1>1, <1>3, <1>5, <1>10 DEF AAInv

LEMMA WholeWhenDone ==
    ASSUME PassInv, NEW a \in ARs, a \in done
    PROVE  /\ ToSet(Set[a]) \subseteq Whole(a)
           /\ Reliable(a) => Whole(a) = ToSet(Set[a])
BY DoneIsWhole, NullsAssumption DEF Whole, Reliable

LEMMA AliasMeetsKeepsAA ==
    ASSUME AAInv, AliasMeets
    PROVE  AAInv'
<1>1. /\ Enumerated("alias") /\ frame.op = "alias" /\ frame.at = "enumerate"
      /\ PassInv' /\ UNCHANGED <<solution, reliable, Data, meaning>>
      /\ query.AR = frame.E.AR /\ query.AR \in ARs
      /\ answer \in VIs => answer \in solution[query.AR]
      /\ answer = NoVI \/ answer \in VIs
      /\ answer = NoVI => query.i = frame.E.i /\ query.i = Len(Set[query.AR]) /\ query.AR \in done
  BY Met, NullsAssumption DEF AliasMeets
<1>2. /\ A \in done /\ query.AR = B
      /\ \A k \in 1 .. frame.E.i : Set[frame.E.AR][k] \notin ToSet(Set[A])
  BY <1>1 DEF AAInv, FrameOK, AliasOK
<1>3. /\ A \in ARs /\ ToSet(Set[A]) \subseteq Whole(A) /\ Whole(B) = solution[B]
      /\ Reliable(A) => Whole(A) = ToSet(Set[A])
  BY <1>1, <1>2, WholeWhenDone, NullsAssumption DEF AAInv, PassInv, PassTypes, Whole
<1>4. CASE answer = NoVI
  <2>1. Reliable(B) => Whole(B) = ToSet(Set[B])
    BY <1>1, <1>2, <1>4, WholeWhenDone DEF AAInv
  <2>2. ASSUME NEW v \in ToSet(Set[B])
        PROVE  v \notin ToSet(Set[A])
    <3>1. PICK k \in 1 .. Len(Set[B]) : v = Set[B][k]
      BY <2>2 DEF ToSet
    <3> QED  BY <1>1, <1>2, <1>4, <3>1
  <2>3. Reliable(A) /\ Reliable(B) => Whole(A) \cap Whole(B) = {}
    BY <1>3, <2>1, <2>2
  <2> QED  BY <1>1, <1>4, <2>3, TellKeepsAA DEF AliasMeets
<1>5. CASE answer # NoVI /\ answer \in ToSet(Set[A])
  <2>1. Whole(A) \cap Whole(B) # {}
    BY <1>1, <1>2, <1>3, <1>5
  <2> QED  BY <1>1, <1>5, <2>1, TellKeepsAA DEF AliasMeets
<1>6. CASE answer # NoVI /\ answer \notin ToSet(Set[A])
  BY <1>1, <1>6, ContinueKeepsAA DEF AliasMeets
<1> QED  BY <1>4, <1>5, <1>6

LEMMA ConstantMeetsKeepsAA ==
    ASSUME AAInv, ConstantMeets
    PROVE  AAInv'
<1>1. /\ Enumerated("pointsToConstantMemory") /\ frame.op = "pointsToConstantMemory"
      /\ frame.at = "enumerate"
      /\ PassInv' /\ UNCHANGED <<solution, reliable, Data, meaning>>
      /\ query.AR = frame.E.AR /\ query.AR \in ARs
      /\ answer \in VIs => answer \in solution[query.AR]
      /\ answer = NoVI \/ answer \in VIs
      /\ answer = NoVI => query.i = frame.E.i /\ query.i = Len(Set[query.AR]) /\ query.AR \in done
  BY Met, NullsAssumption DEF ConstantMeets
<1>2. /\ query.AR = OrEmpty(A)
      /\ \A k \in 1 .. frame.E.i : Set[frame.E.AR][k] \in Accepted
  BY <1>1 DEF AAInv, FrameOK, ConstantOK
<1>3. Whole(A) = solution[query.AR]
  BY <1>2, NullsAssumption DEF OrEmpty, Whole, AAInv, PassInv, SetsOK
<1>7. Reliable(A) => solution[query.AR] = {} \/ query.AR \in reliable
  BY <1>2, NullsAssumption DEF OrEmpty, Reliable, AAInv, PassInv, SetsOK
<1>4. CASE answer = NoVI
  <2>1. Reliable(A) => solution[query.AR] = ToSet(Set[query.AR])
    BY <1>1, <1>4, <1>7, DoneIsWhole DEF AAInv
  <2>2. Reliable(A) => Whole(A) \subseteq Accepted
    <3> SUFFICES ASSUME NEW v \in ToSet(Set[query.AR])
                 PROVE  v \in Accepted
      BY <1>3, <2>1
    <3>1. PICK k \in 1 .. Len(Set[query.AR]) : v = Set[query.AR][k]
      BY DEF ToSet
    <3> QED  BY <1>1, <1>2, <1>4, <3>1
  <2> QED  BY <1>1, <1>4, <2>2, TellKeepsAA DEF ConstantMeets
<1>5. CASE answer # NoVI /\ answer \in Accepted
  <2>1. answer \notin External /\ (answer \in ConstantGV \/ (frame.orLocal /\ answer \in Local))
    BY <1>5, RegionsAssumption DEF Accepted
  <2> QED  BY <1>1, <1>5, <2>1, ContinueKeepsAA DEF ConstantMeets
<1>6. CASE answer # NoVI /\ answer \notin Accepted
  <2>1. ~(answer \in ConstantGV \/ (frame.orLocal /\ answer \in Local))
    BY <1>6 DEF Accepted
  <2>2. Tell("forward")
    BY <1>6, <2>1 DEF ConstantMeets
  <2>3. ~(Whole(A) \subseteq Accepted)
    BY <1>1, <1>3, <1>6
  <2> QED  BY <1>1, <2>2, <2>3, TellKeepsAA
<1> QED  BY <1>4, <1>5, <1>6

-----------------------------------------------------------------------------
(* Other users of the pass, and its run. *)

LEMMA OthersKeepAA ==
    ASSUME AAInv, Others
    PROVE  AAInv'
<1>1. /\ Requests /\ frame' = NoFrame /\ told' = NotTold
      /\ UNCHANGED <<meaning, solution, reliable, Data>> /\ Data # NoData
  BY RequestsKeepMeaning DEF Others, Requests
<1>2. PassInv' /\ MeaningOK' /\ ToldOK'
  BY <1>1, RequestsKeepInv, SameMeaning, NothingTold DEF AAInv
<1> QED  BY <1>1, <1>2, NoFrameOK DEF AAInv

LEMMA AnalyzeKeepsAA ==
    ASSUME AAInv, AnalyzeProgram
    PROVE  AAInv'
<1>1. /\ Data = NoData /\ Data' # NoData
      /\ meaning' = [P \in Values \ NewValues |->
                       IF P \in DOMAIN Data' /\ Data'[P] # NoAR THEN solution'[Data'[P]] ELSE {}]
      /\ frame' = NoFrame /\ told' = NotTold
  BY PassAssumption DEF AnalyzeProgram, runOnModule, AAInv, MeaningOK
<1>2. PassInv'
  BY RunKeepsInv DEF AnalyzeProgram, AAInv
<1>3. MeaningOK'
  BY <1>1 DEF MeaningOK, Whole, getHandleToPointsToSet
<1> QED  BY <1>1, <1>2, <1>3, NothingTold, NoFrameOK DEF AAInv

LEMMA StutterKeepsAA ==
    ASSUME AAInv, UNCHANGED aaVars
    PROVE  AAInv'
<1>1. UNCHANGED <<passVars, meaning, frame, told, solution, reliable, Set, done, Data, toCompute, call, ret>>
  BY DEF aaVars, passVars, lazyVars, sets, pass
<1>2. PassInv' /\ ToldOK'
  BY <1>1, SameVarsKeepInv, SameTold DEF AAInv
<1>3. MeaningOK'
  BY <1>1 DEF AAInv, MeaningOK, Whole, getHandleToPointsToSet
<1>4. AliasOK => AliasOK'
  BY <1>1 DEF AliasOK, A, B, Waits, Filled, getHandleToPointsToSet
<1>5. ConstantOK => ConstantOK'
  BY <1>1 DEF ConstantOK, Accepted, A, getHandleToPointsToSet
<1>6. FrameOK'
  BY <1>1, <1>4, <1>5 DEF AAInv, FrameOK
<1> QED  BY <1>1, <1>2, <1>3, <1>6 DEF AAInv

LEMMA AAInitInv ==
    ASSUME AAInit
    PROVE  AAInv
<1>1. PassInv /\ Data = NoData
  BY InitInv DEF AAInit, Init
<1>2. ToldOK
  BY DEF AAInit, ToldOK, NotTold, ConstantMemoryIsExact
<1>3. frame \in Frames /\ FrameOK
  BY NoFrameOp DEF AAInit, FrameOK
<1> QED  BY <1>1, <1>2, <1>3 DEF AAInit, AAInv, MeaningOK

LEMMA AANextKeepsInv ==
    ASSUME AAInv, [AANext]_aaVars
    PROVE  AAInv'
<1>1. CASE Proceed
  BY <1>1, RunningKeepsAA, AliasBeginsKeepsAA, AliasOfNothingKeepsAA, AliasLooksAtBKeepsAA,
     AliasComputesAKeepsAA, AliasEnumeratesBKeepsAA, AliasMeetsKeepsAA, EnumerateNextKeepsAA,
     ConstantMeetsKeepsAA DEF Proceed
<1>2. CASE Asked
  BY <1>2, AliasKeepsAA, ConstantMemoryKeepsAA DEF Asked
<1>3. CASE Others
  BY <1>3, OthersKeepAA
<1>4. CASE AnalyzeProgram
  BY <1>4, AnalyzeKeepsAA
<1>5. CASE UNCHANGED aaVars
  BY <1>5, StutterKeepsAA
<1> QED  BY <1>1, <1>2, <1>3, <1>4, <1>5 DEF AANext

LEMMA AAInvariant == AASpec => []AAInv
<1>1. AAInit => AAInv
  BY AAInitInv
<1>2. AAInv /\ [AANext]_aaVars => AAInv'
  BY AANextKeepsInv
<1> QED  BY <1>1, <1>2, PTL DEF AASpec

-----------------------------------------------------------------------------
(* Theorems. *)

(* The variables have the types they are given. *)
THEOREM AATypeCorrect == AASpec => []AATypeOK
<1>1. ASSUME AAInv
      PROVE  AATypeOK
  <2>1. TypeOK
    BY <1>1, PassTypeCorrect DEF AAInv
  <2>2. \A P \in DOMAIN meaning : P \in Values /\ meaning[P] \subseteq VIs
    BY <1>1, MeaningIsWhole DEF AAInv, PassInv, PassTypes, Whole
  <2> QED  BY <1>1, <2>1, <2>2 DEF AAInv, FrameOK, Frames, Ops, ToldOK, AATypeOK
<1> QED  BY <1>1, AAInvariant, PTL

(* alias() answers NoAlias when what the two pointers may point to has     *)
(* nothing in common, and only then if both sets are reliable, although it *)
(* computes only one of the two sets and looks at the other while it       *)
(* grows; it never finds the assert at AndersenAliasAnalysis.cpp:93 false. *)
THEOREM AliasAnswersExactly == AASpec => []AliasIsExact
<1>1. ASSUME AAInv
      PROVE  AliasIsExact
  <2>1. told.op = "alias" =>
          /\ Disjoint(told.P, told.Q) => told.answer = "NoAlias"
          /\ told.answer = "NoAlias" /\ Relied(told.P) /\ Relied(told.Q) => Disjoint(told.P, told.Q)
    BY <1>1 DEF AAInv, ToldOK
  <2>2. ASSUME At("alias", "A is computed")
        PROVE  ret.value # NoSet
    <3>1. A \in done /\ ret.value = A
      BY <1>1, <2>2, AliasKnows DEF At
    <3> QED  BY <1>1, <3>1, PassAssumption DEF AAInv, PassInv, PassTypes
  <2> QED  BY <2>1, <2>2 DEF AliasIsExact
<1> QED  BY <1>1, AAInvariant, PTL

(* pointsToConstantMemory answers true when everything the pointer may     *)
(* point to is constant or, if that will do, local, and only then if the   *)
(* set is reliable, although it stops at the first element that is not.    *)
THEOREM ConstantMemoryAnswersExactly == AASpec => []ConstantMemoryIsExact
<1>1. AAInv => ConstantMemoryIsExact
  BY DEF AAInv, ToldOK
<1> QED  BY <1>1, AAInvariant, PTL
===============================================================================
