------------------------- MODULE AndersenAliasAnalysis -------------------------
(***************************************************************************)
(* AndersenAliasAnalysis: alias and pointsToConstantMemory, as sequences   *)
(* of queries of AndersenPass, and the callbacks by which passes tell      *)
(* alias analyses that they change the program.                            *)
(*                                                                         *)
(* frame is the query that is running: at says which call of AndersenPass  *)
(* it makes next or waits for, E is its own AndersenEnumerator.            *)
(***************************************************************************)
EXTENDS AndersenPass

CONSTANTS External,   \* the ValueInfos without a Value
          ConstantGV, \* regions of constant variables
          Local,      \* regions of allocas
          NewValues,  \* values that passes may create
          NoValue

ASSUME RegionsAssumption ==
    /\ External \cup ConstantGV \cup Local \subseteq VIs
    /\ External \cap (ConstantGV \cup Local) = {} /\ ConstantGV \cap Local = {}
    /\ NewValues \subseteq Values

VARIABLES
    meaning,  \* what each value of the program may point to, now
    frame,
    told      \* the last answer and what it was about

aaVars == <<passVars, meaning, frame, told>>

Frame(op, at, P, Q, orLocal) ==
    [op |-> op, at |-> at, P |-> P, Q |-> Q, orLocal |-> orLocal, E |-> Nobody]
NoFrame == Frame("none", "", NoValue, NoValue, FALSE)

(* The handles of the two pointers. *)
A == getHandleToPointsToSet(frame.P)
B == getHandleToPointsToSet(frame.Q)

NotTold == [op |-> "none", P |-> NoValue, Q |-> NoValue, orLocal |-> FALSE, answer |-> "none"]

(* The frame ends; "forward" is whatever the next alias analysis says.     *)
Tell(answered) ==
    /\ told' = [op |-> frame.op, P |-> frame.P, Q |-> frame.Q, orLocal |-> frame.orLocal, answer |-> answered]
    /\ frame' = NoFrame

Goto(at) == frame' = [frame EXCEPT !.at = at] /\ UNCHANGED told

(* The frame has control: AndersenPass has returned to it. *)
At(op, at) == frame.op = op /\ frame.at = at /\ call = NoCall

Resting == Data # NoData /\ Free /\ frame = NoFrame

Start(frm) ==
    /\ frame' = frm
    /\ told' = NotTold /\ ret' = NoReturn
    /\ UNCHANGED <<lazyVars, pass, toCompute, clientVars, call, meaning>>

-----------------------------------------------------------------------------
(* alias *)

alias(P, Q) == Resting /\ Start(Frame("alias", "start", P, Q, FALSE))

AliasBegins ==
    /\ At("alias", "start")
    /\ isPointsToSetEmpty(A) /\ Goto("A is empty?")
    /\ UNCHANGED <<toCompute, meaning>>

(* One of the two points to nothing. *)
AliasOfNothing ==
    /\ At("alias", "A is empty?") \/ At("alias", "B is empty?")
    /\ ret.value
    /\ Tell("NoAlias")
    /\ UNCHANGED <<passVars, meaning>>

AliasLooksAtB ==
    /\ At("alias", "A is empty?") /\ ~ret.value
    /\ isPointsToSetEmpty(B) /\ Goto("B is empty?")
    /\ UNCHANGED <<toCompute, meaning>>

AliasComputesA ==
    /\ At("alias", "B is empty?") /\ ~ret.value
    /\ getPointsToSet(A) /\ Goto("A is computed")
    /\ UNCHANGED <<toCompute, meaning>>

AliasEnumeratesB ==
    /\ At("alias", "A is computed")
    /\ frame' = [frame EXCEPT !.at = "enumerate", !.E = Enumerator(B, 0)]
    /\ UNCHANGED <<passVars, meaning, told>>

(* The loops of both queries call enumerate(). *)
EnumerateNext ==
    /\ frame.at = "enumerate" /\ call = NoCall
    /\ call' = Call("enumerate", frame.E.AR, frame.E, NoClient)
    /\ ret' = NoReturn
    /\ UNCHANGED <<lazyVars, pass, toCompute, clientVars, meaning, frame, told>>

Enumerated(op) ==
    /\ frame.op = op /\ frame.at = "enumerate"
    /\ call.fn = "enumerate" /\ Take
    /\ call' = NoCall
    /\ UNCHANGED <<pass, toCompute, clientVars, ret, meaning>>

(* Bug: the enumerator stays where it was. *)
Continue_Rereads == UNCHANGED <<frame, told>>

Continue == frame' = [frame EXCEPT !.E = query] /\ UNCHANGED told

(* Bug: what A is found to hold last is left out. *)
AliasMeets_FirstOnly ==
    /\ Enumerated("alias")
    /\ IF answer = NoVI THEN Tell("NoAlias")
       ELSE IF answer = Set[A][1] THEN Tell("forward")
       ELSE Continue

AliasMeets ==
    /\ Enumerated("alias")
    /\ IF answer = NoVI THEN Tell("NoAlias")
       ELSE IF answer \in ToSet(Set[A]) THEN Tell("forward")
       ELSE Continue

-----------------------------------------------------------------------------
(* pointsToConstantMemory *)

pointsToConstantMemory(P, orLocal) ==
    Resting /\ Start([Frame("pointsToConstantMemory", "enumerate", P, NoValue, orLocal) EXCEPT
                         !.E = Enumerator(OrEmpty(getHandleToPointsToSet(P)), 0)])

(* Bug: local memory is always good enough. *)
ConstantMeets_LocalToo ==
    /\ Enumerated("pointsToConstantMemory")
    /\ IF answer = NoVI THEN Tell("constant")
       ELSE IF answer \in ConstantGV \cup Local THEN Continue
       ELSE Tell("forward")

ConstantMeets ==
    /\ Enumerated("pointsToConstantMemory")
    /\ IF answer = NoVI THEN Tell("constant")
       ELSE IF answer \in External THEN Tell("forward")
       ELSE IF answer \in ConstantGV \/ (frame.orLocal /\ answer \in Local) THEN Continue
       ELSE Tell("forward")

-----------------------------------------------------------------------------
(* The program, and passes that change it. *)

AnalyzeProgram ==
    /\ runOnModule
    /\ meaning' = [P \in Values \ NewValues |->
                     IF P \in DOMAIN Data' /\ Data'[P] # NoAR THEN solution'[Data'[P]] ELSE {}]
    /\ UNCHANGED <<frame, told>>

(* A value is copied, perhaps to where a deleted one was.                  *)
copyValue(From, To) ==
    /\ Resting
    /\ From \in DOMAIN meaning /\ To \in Values \ DOMAIN meaning
    /\ meaning' = [P \in DOMAIN meaning \cup {To} |-> IF P = To THEN meaning[From] ELSE meaning[P]]
    /\ told' = NotTold
    /\ UNCHANGED <<passVars, frame>>

deleteValue(P) ==
    /\ Resting
    /\ P \in DOMAIN meaning
    /\ meaning' = [Q \in DOMAIN meaning \ {P} |-> meaning[Q]]
    /\ told' = NotTold
    /\ UNCHANGED <<passVars, frame>>

(* A use of P is added by which Q may come to hold it as well, for example *)
(* a store of P to memory that Q is loaded from.                           *)
addEscapingUse(P, Q) ==
    /\ Resting
    /\ {P, Q} \subseteq DOMAIN meaning
    /\ meaning' = [meaning EXCEPT ![Q] = @ \cup meaning[P]]
    /\ told' = NotTold
    /\ UNCHANGED <<passVars, frame>>

-----------------------------------------------------------------------------
AAInit == Init /\ meaning = <<>> /\ frame = NoFrame /\ told = NotTold

Proceed ==
    \/ Running /\ UNCHANGED <<meaning, frame, told>>
    \/ AliasBegins \/ AliasOfNothing \/ AliasLooksAtB \/ AliasComputesA \/ AliasEnumeratesB
    \/ AliasMeets \/ EnumerateNext \/ ConstantMeets

Asked == \/ \E P, Q \in DOMAIN meaning : alias(P, Q)
         \/ \E P \in DOMAIN meaning, orLocal \in BOOLEAN : pointsToConstantMemory(P, orLocal)

(* Other users of AndersenPass, between the queries. *)
Others == frame = NoFrame /\ Requests /\ told' = NotTold /\ UNCHANGED <<meaning, frame>>

AANext == Proceed \/ Asked \/ Others \/ AnalyzeProgram

AASpec == AAInit /\ [][AANext]_aaVars /\ WF_aaVars(Proceed)

(* A transformation pass runs that preserves alias analysis.               *)
Transform == \/ \E From, To \in Values : copyValue(From, To)
             \/ \E P \in Values : deleteValue(P)
             \/ \E P, Q \in Values : addEscapingUse(P, Q)

TransformingSpec == AAInit /\ [][AANext \/ Transform]_aaVars

-----------------------------------------------------------------------------
(* Properties. *)

(* The types of the variables.                                             *)
AATypeOK ==
    /\ TypeOK
    /\ \A P \in DOMAIN meaning : P \in Values /\ meaning[P] \subseteq VIs
    /\ frame.op \in {"none", "alias", "pointsToConstantMemory"}
    /\ frame.at = "enumerate" => frame.E.AR \in ARs
    /\ told.answer \in {"none", "NoAlias", "forward", "constant"}

Disjoint(P, Q) == meaning[P] \cap meaning[Q] = {}

Relied(P) == Reliable(getHandleToPointsToSet(P))

(* alias() answers NoAlias when the two points-to sets have no element in  *)
(* common, and only then if both are reliable, although it sees them grow  *)
(* while it works; it never finds the assert at                            *)
(* AndersenAliasAnalysis.cpp:93 false.                                     *)
AliasIsExact ==
    /\ told.op = "alias" =>
          /\ Disjoint(told.P, told.Q) => told.answer = "NoAlias"
          /\ told.answer = "NoAlias" /\ Relied(told.P) /\ Relied(told.Q) => Disjoint(told.P, told.Q)
    /\ At("alias", "A is computed") => ret.value # NoSet

(* pointsToConstantMemory answers true when everything the pointer may     *)
(* point to is constant or, if that will do, local, and only then if the   *)
(* set is reliable.                                                        *)
ConstantMemoryIsExact ==
    told.op = "pointsToConstantMemory" =>
        LET only == meaning[told.P] \subseteq ConstantGV \cup IF told.orLocal THEN Local ELSE {}
        IN  /\ only => told.answer = "constant"
            /\ told.answer = "constant" /\ Relied(told.P) => only

(* Every query is answered.                                                *)
QueryIsAnswered == frame # NoFrame ~> frame = NoFrame

(* NoAlias is never answered for pointers that may be equal, whatever      *)
(* copies and uses passes have told the analysis of                        *)
(* (AliasAnalysis.h:530, :537).                                            *)
NoAliasIsDisjoint ==
    told.op = "alias" /\ told.answer = "NoAlias" => Disjoint(told.P, told.Q)
===============================================================================
