----------------------------- MODULE AndersenPass -----------------------------
(***************************************************************************)
(* AndersenPass: its queries, as clients of lazily found sets, and the     *)
(* AndersenEnumerators that its clients hold.                              *)
(*                                                                         *)
(* Queries run to their end one after the other, but a client may keep an  *)
(* enumerator, and advance it, between queries of others. call is the      *)
(* query that is running, E the AndersenEnumerator it advances; ret is     *)
(* what the last one returned.                                             *)
(***************************************************************************)
EXTENDS LazySets

CONSTANTS Values,              \* what clients ask about
          EmptyAnalysisResult, \* Data::EmptyAnalysisResult
          ValueInfoMaps,       \* Data::ValueInfos as instruction analysis may
                               \* leave them, with the handle for each ValueInfo
          NonLazyOptions,      \* values of -andersen-non-lazy
          ReliableSets,        \* which sets may be reliable together
          Clients, NoClient,
          NoData, NoSet

ASSUME PassAssumption ==
    /\ EmptyAnalysisResult \in ARs /\ NoSet \notin ARs /\ NoClient \notin Clients
    /\ NonLazyOptions \subseteq BOOLEAN /\ NoData \notin ValueInfoMaps
    /\ \A m \in ValueInfoMaps : DOMAIN m \subseteq Values /\ \A v \in DOMAIN m : m[v] \in ARs \cup {NoAR}

VARIABLES
    NonLazy,      \* -andersen-non-lazy
    Data,         \* Data::ValueInfos, or the null Data *
    toCompute,    \* what the non-lazy loop has still to come to
    enumerators,  \* the clients' AndersenEnumerators
    got,          \* history: what each client has read of its set, in order
    ended,        \* history: whether it was told the end
    call, ret

clientVars == <<enumerators, got, ended>>
pass       == <<NonLazy, Data>>
passVars   == <<lazyVars, pass, toCompute, clientVars, call, ret>>

Call(fn, AH, E, who) == [fn |-> fn, AH |-> AH, E |-> E, who |-> who]
NoCall == Call("none", NoAR, Nobody, NoClient)

(* Calls of the pass that have returned: what about, and the answer. *)
NoReturn == [fn |-> "none", AH |-> NoAR, value |-> NoSet]
Return(fn, AH, value) == call' = NoCall /\ ret' = [fn |-> fn, AH |-> AH, value |-> value]

(* No query is running. *)
Free == call = NoCall /\ Data # NoData /\ toCompute = {}

-----------------------------------------------------------------------------
(* Queries. *)

getHandleToPointsToSet(V) == IF V \in DOMAIN Data THEN Data[V] ELSE NoAR

enumerateRemaining(AR) == Enumerator(AR, Len(Set[AR]))

Handles == {getHandleToPointsToSet(V) : V \in Values}

(* Set if it has elements; null stands for a set without. *)
SetOrNull(S, AR) == IF S[AR] = <<>> THEN NoSet ELSE AR

(* An enumerator is set up to compute what is missing. *)
Begin(fn, AH, E) ==
    /\ call' = Call(fn, AH, E, NoClient)
    /\ ret' = NoReturn

(* Bug: only the contents so far are looked at. *)
isPointsToSetEmpty_SoFar(AH) ==
    /\ Return("isPointsToSetEmpty", AH, AH = NoAR \/ Set[AH] = <<>>)
    /\ UNCHANGED <<lazyVars, pass, clientVars>>

isPointsToSetEmpty(AH) ==
    /\ IF AH = NoAR
       THEN Return("isPointsToSetEmpty", AH, TRUE)
       ELSE Begin("isPointsToSetEmpty", AH, Enumerator(AH, 0))
    /\ UNCHANGED <<lazyVars, pass, clientVars>>

getPointsToSet(AH) ==
    /\ IF AH = NoAR
       THEN Return("getPointsToSet", AH, NoSet)
       ELSE IF AH \in done
            THEN Return("getPointsToSet", AH, SetOrNull(Set, AH))
            ELSE Begin("getPointsToSet", AH, enumerateRemaining(AH))
    /\ UNCHANGED <<lazyVars, pass, clientVars>>

(* A call of enumerate(), by a query or by a client. *)
Enumerate ==
    /\ call # NoCall
    /\ Ask(call.E)
    /\ UNCHANGED <<pass, toCompute, clientVars, call, ret>>

Compute == Serve /\ UNCHANGED <<pass, toCompute, clientVars, call, ret>>

EmptyAnswered ==
    /\ call.fn = "isPointsToSetEmpty" /\ Take
    /\ Return(call.fn, call.AH, answer = NoVI)
    /\ UNCHANGED <<pass, toCompute, clientVars>>

(* The loop of getPointsToSet. *)
GetMore ==
    /\ call.fn = "getPointsToSet" /\ Take
    /\ answer # NoVI
    /\ call' = [call EXCEPT !.E = query]
    /\ UNCHANGED <<pass, toCompute, clientVars, ret>>

GetAnswered ==
    /\ call.fn = "getPointsToSet" /\ Take
    /\ answer = NoVI
    /\ Return(call.fn, call.AH, SetOrNull(Set, call.AH))
    /\ UNCHANGED <<pass, toCompute, clientVars>>

-----------------------------------------------------------------------------
(* Clients that hold enumerators. *)

(* Bug: the null handle is used like any other. *)
OrEmpty_Null(AH) == AH

OrEmpty(AH) == IF AH = NoAR THEN EmptyAnalysisResult ELSE AH

Hold(c, E, read) ==
    /\ enumerators' = [enumerators EXCEPT ![c] = E]
    /\ got' = [got EXCEPT ![c] = read]
    /\ ended' = [ended EXCEPT ![c] = FALSE]
    /\ ret' = NoReturn
    /\ UNCHANGED <<lazyVars, pass, toCompute, call>>

enumeratePointsToSet(c, AH) == Free /\ Hold(c, Enumerator(OrEmpty(AH), 0), <<>>)

getPointsToSetContentsSoFar(AH) == IF AH = NoAR THEN <<>> ELSE Set[AH]

(* Bug: the position is taken from a set that is still empty. *)
enumeratePointsToSetContentsRemaining_FromStart(c, AH) ==
    Free /\ Hold(c, Enumerator(OrEmpty(AH), 0), getPointsToSetContentsSoFar(AH))

(* The client has looked at the contents so far. *)
enumeratePointsToSetContentsRemaining(c, AH) ==
    Free /\ Hold(c, enumerateRemaining(OrEmpty(AH)), getPointsToSetContentsSoFar(AH))

Advance(c) ==
    /\ Free /\ enumerators[c] # Nobody
    /\ call' = Call("enumerate", enumerators[c].AR, enumerators[c], c)
    /\ ret' = NoReturn
    /\ UNCHANGED <<lazyVars, pass, toCompute, clientVars>>

EnumerateAnswered ==
    /\ call.fn = "enumerate" /\ call.who \in Clients /\ Take
    /\ enumerators' = [enumerators EXCEPT ![call.who] = query]
    /\ IF answer = NoVI
       THEN ended' = [ended EXCEPT ![call.who] = TRUE] /\ UNCHANGED got
       ELSE got' = [got EXCEPT ![call.who] = Append(@, answer)] /\ UNCHANGED ended
    /\ call' = NoCall
    /\ UNCHANGED <<pass, toCompute, ret>>

-----------------------------------------------------------------------------
(* The life of the pass. *)

Nothing ==
    /\ solution = [a \in ARs |-> {}] /\ reliable = ARs /\ Set = [a \in ARs |-> <<>>] /\ done = ARs
    /\ query = Nobody /\ answer = NoAnswer

Cleared ==
    /\ solution' = [a \in ARs |-> {}] /\ reliable' = ARs /\ Set' = [a \in ARs |-> <<>>] /\ done' = ARs
    /\ UNCHANGED <<query, answer>>

NoClients ==
    /\ enumerators = [c \in Clients |-> Nobody]
    /\ got = [c \in Clients |-> <<>>]
    /\ ended = [c \in Clients |-> FALSE]

(* The sets that instruction analysis has set up. *)
runOnModule ==
    /\ Data = NoData
    /\ \E m \in ValueInfoMaps :
          /\ Data' = m
          /\ toCompute' = IF NonLazy THEN {m[v] : v \in DOMAIN m} ELSE {}
    /\ \E fresh \in FreshSets :
          /\ fresh.solution[EmptyAnalysisResult] = {} /\ EmptyAnalysisResult \in fresh.done
          /\ solution' = fresh.solution /\ Set' = fresh.Set /\ done' = fresh.done
          /\ reliable' = fresh.reliable /\ reliable' \in ReliableSets
    /\ UNCHANGED <<NonLazy, query, answer, clientVars, call, ret>>

(* Bug: the non-lazy loop only looks at the first element. *)
NonLazyLoop_First ==
    \E AH \in toCompute :
        /\ call = NoCall
        /\ toCompute' = toCompute \ {AH}
        /\ isPointsToSetEmpty(AH)

(* The loop of runOnModule, in the order of a hash table. *)
NonLazyLoop ==
    \E AH \in toCompute :
        /\ call = NoCall
        /\ toCompute' = toCompute \ {AH}
        /\ getPointsToSet(AH)

(* The pass manager has dropped the clients that held enumerators. *)
releaseMemory ==
    /\ Free
    /\ Data' = NoData
    /\ Cleared
    /\ enumerators' = [c \in Clients |-> Nobody]
    /\ got' = [c \in Clients |-> <<>>]
    /\ ended' = [c \in Clients |-> FALSE]
    /\ ret' = NoReturn
    /\ UNCHANGED <<NonLazy, toCompute, call>>

-----------------------------------------------------------------------------
Init ==
    /\ Nothing /\ NoClients
    /\ NonLazy \in NonLazyOptions
    /\ Data = NoData /\ toCompute = {} /\ call = NoCall /\ ret = NoReturn

Running == Enumerate \/ Compute \/ EmptyAnswered \/ GetMore \/ GetAnswered \/ EnumerateAnswered \/ NonLazyLoop

Query(AH) == /\ Free
             /\ isPointsToSetEmpty(AH) \/ getPointsToSet(AH)
             /\ UNCHANGED toCompute

Requests ==
    /\ Data # NoData
    /\ \/ \E AH \in Handles : Query(AH)
       \/ \E c \in Clients :
             \/ Advance(c)
             \/ \E AH \in Handles : \/ enumeratePointsToSet(c, AH)
                                   \/ enumeratePointsToSetContentsRemaining(c, AH)

Next == Running \/ Requests \/ runOnModule \/ releaseMemory

Spec == Init /\ [][Next]_passVars

-----------------------------------------------------------------------------
(* Properties. *)

(* The types of the variables.                                             *)
TypeOK ==
    /\ solution \in [ARs -> SUBSET VIs] /\ reliable \subseteq ARs
    /\ Set \in [ARs -> Seq(VIs)] /\ done \subseteq ARs
    /\ query.AR \in ARs \cup {NoAR} /\ answer \in VIs \cup {NoVI, NoAnswer}
    /\ NonLazy \in BOOLEAN /\ Data \in ValueInfoMaps \cup {NoData}
    /\ toCompute \subseteq ARs \cup {NoAR}
    /\ \A c \in Clients : enumerators[c].AR \in ARs \cup {NoAR} /\ got[c] \in Seq(VIs)
    /\ call.fn \in {"none", "isPointsToSetEmpty", "getPointsToSet", "enumerate"}
    /\ call # NoCall => call.E.AR \in ARs

Whole(AH) == IF AH = NoAR THEN {} ELSE solution[AH]

Reliable(AH) == AH = NoAR \/ AH \in reliable

(* AndersenPass.h:49-58: isPointsToSetEmpty and getPointsToSet tell the    *)
(* truth, whatever part of the set other queries have computed; a set that *)
(* is returned is whole, done (AndersenPass.cpp:83) and not empty. What is *)
(* said of a set that is not reliable errs on one side only.               *)
QueriesAnswerTruly ==
    /\ ret.fn = "isPointsToSetEmpty" =>
          /\ Whole(ret.AH) = {} => ret.value
          /\ ret.value => Whole(ret.AH) = {} \/ ~Reliable(ret.AH)
    /\ ret.fn = "getPointsToSet" =>
          /\ Whole(ret.AH) = {} => ret.value = NoSet
          /\ ret.value = NoSet => Whole(ret.AH) = {} \/ ~Reliable(ret.AH)
          /\ ret.value # NoSet => ret.value = ret.AH /\ MayEnd(ret.AH) /\ ret.AH \in done

(* AndersenPass.h:60-71: an enumerator, with the contents there were when  *)
(* it was made, comes to every element once, also while other enumerators  *)
(* and queries make the set grow; and it ends only when it has come to all *)
(* there will be, which is the whole set if that is reliable.              *)
EnumeratorsExact ==
    \A c \in Clients : enumerators[c] # Nobody =>
        LET AR == enumerators[c].AR
        IN  /\ IsInjective(got[c])
            /\ got[c] = SubSeq(Set[AR], 1, enumerators[c].i)
            /\ ended[c] => got[c] = Set[AR] /\ AR \in done /\ MayEnd(AR)

(* AndersenPass.cpp:129: a non-lazy run leaves nothing to compute.         *)
NonLazyIsWhole == NonLazy /\ Free => Handles \ {NoAR} \subseteq done
===============================================================================
