------------------------- MODULE AnalysisResultProofs -------------------------
(***************************************************************************)
(* Theorems about AnalysisResult, for every set of ARs, values and         *)
(* algorithms and every family of equation systems, cyclic ones included:  *)
(* first its recursion, then its results, then what works and sets hold.   *)
(* Every result of the recursion reaches an activation that can handle it, *)
(* the asserts about retries hold, an AR that is done never changes again, *)
(* no value enters a set that the equations do not force into it, and no   *)
(* enumerator is ahead of its set.                                         *)
(***************************************************************************)
EXTENDS AnalysisResult, DataLemmas

-----------------------------------------------------------------------------
(* The recursion: the stack, the depths and the iterators of suspended     *)
(* activations.                                                            *)

(* Where control is, and what a result carries. *)
ControlOK ==
    /\ pc = "idle" => stack = <<>>
    /\ pc \in {"run", "rewrite"} => stack # <<>>
    /\ pc # "idle" => cursor.AR \in ARs
    /\ pc = "rewrite" => result.type = "REWRITE"
    /\ result.type = "NEXT_VALUE" => result.VI \in VIs
    /\ result.type \in {"INLINE", "RETRY", "REWRITE"} => result.AR \in ARs

Recursion == TypeOK /\ ControlOK /\ IteratorsValid /\ DepthsMirrorStack

(* A step keeps what the invariants say of the work that a suspended       *)
(* activation runs.                                                        *)
RunningKept(k) ==
    /\ stack[k].Pos \in DOMAIN Work'[stack[k].AR]
    /\ Work'[stack[k].AR][stack[k].Pos].AR = Running(k).AR
    /\ Work'[stack[k].AR][stack[k].Pos].kind = Running(k).kind

SuspendedKept == \A k \in 1 .. Len(stack) - 1 : RunningKept(k)

LEMMA StackLen ==
    ASSUME TypeOK
    PROVE  \E n \in Nat : /\ Len(stack) = n
                          /\ stack = <<>> <=> n = 0
                          /\ \A k \in 1 .. n : stack[k] \in Contexts
<1>1. stack \in Seq(Contexts)
  BY DEF TypeOK
<1>2. Len(stack) \in Nat /\ \A k \in 1 .. Len(stack) : stack[k] \in Contexts
  BY <1>1, LenProperties, ElementOfSeq
<1>3. stack = <<>> => Len(stack) = 0
  BY EmptySeq
<1>4. stack # <<>> => Len(stack) # 0
  BY <1>1, EmptySeq
<1> QED  BY <1>2, <1>3, <1>4

(* Frames that differ in nothing but the Pos and Retry of the last one     *)
(* mirror the depths as before.                                            *)
LEMMA SameFrames ==
    ASSUME TypeOK, DepthsMirrorStack, IteratorsValid, SuspendedKept,
           NEW n \in Nat, Len(stack) = n, n >= 1, Len(stack') = n,
           \A k \in 1 .. n - 1 : stack'[k] = stack[k],
           stack'[n].AR = stack[n].AR, stack'[n].LTD = stack[n].LTD,
           EnumerationDepth' = EnumerationDepth
    PROVE  /\ DepthsMirrorStack'
           /\ \A k \in 1 .. n - 1 : /\ stack'[k].Pos \in DOMAIN Work'[stack'[k].AR]
                                    /\ Running(k)'.AR = stack'[k + 1].AR
<1>1. \A k \in 1 .. n : stack'[k].AR = stack[k].AR /\ stack'[k].LTD = stack[k].LTD
  OBVIOUS
<1>2. \A k \in 1 .. n - 1 : /\ stack'[k].Pos \in DOMAIN Work'[stack'[k].AR]
                            /\ Running(k)'.AR = Running(k).AR
                            /\ Running(k)'.kind = Running(k).kind
  BY DEF SuspendedKept, RunningKept, Running
<1>3. \A k \in 1 .. n - 1 : Running(k)'.AR = stack'[k + 1].AR
  <2> TAKE k \in 1 .. n - 1
  <2>1. Running(k).AR = stack[k + 1].AR
    BY DEF IteratorsValid
  <2>2. k + 1 \in 1 .. n
    OBVIOUS
  <2> QED  BY <1>1, <1>2, <2>1, <2>2
<1>4. ASSUME NEW k \in 1 .. n
      PROVE  /\ EnumerationDepth'[stack'[k].AR] = k - 1
             /\ stack'[k].LTD = IF k = 1 THEN -1
                               ELSE IF IsTransform(Running(k - 1)') THEN k - 2
                               ELSE stack'[k - 1].LTD
  <2>1. /\ EnumerationDepth[stack[k].AR] = k - 1
        /\ stack[k].LTD = IF k = 1 THEN -1
                          ELSE IF IsTransform(Running(k - 1)) THEN k - 2
                          ELSE stack[k - 1].LTD
    BY DEF DepthsMirrorStack
  <2>2. CASE k = 1
    BY <1>1, <2>1, <2>2
  <2>3. CASE k # 1
    <3>1. k - 1 \in 1 .. n - 1 /\ k - 1 \in 1 .. n
      BY <2>3
    <3>2. IsTransform(Running(k - 1)') <=> IsTransform(Running(k - 1))
      BY <1>2, <3>1 DEF IsTransform
    <3> QED  BY <1>1, <2>1, <2>3, <3>1, <3>2
  <2> QED  BY <2>2, <2>3
<1>5. ASSUME NEW a \in ARs, EnumerationDepth'[a] # -1
      PROVE  /\ EnumerationDepth'[a] < Len(stack')
             /\ stack'[EnumerationDepth'[a] + 1].AR = a
  <2>1. EnumerationDepth[a] < n /\ stack[EnumerationDepth[a] + 1].AR = a
    BY <1>5 DEF DepthsMirrorStack
  <2>2. EnumerationDepth[a] + 1 \in 1 .. n
    BY <1>5, <2>1 DEF TypeOK
  <2> QED  BY <1>1, <2>1, <2>2
<1> QED  BY <1>2, <1>3, <1>4, <1>5 DEF DepthsMirrorStack

(* The innermost activation returns. *)
LEMMA PopFrame ==
    ASSUME TypeOK, DepthsMirrorStack, IteratorsValid, SuspendedKept,
           NEW n \in Nat, Len(stack) = n, n >= 1,
           stack' = Front(stack),
           EnumerationDepth' = [EnumerationDepth EXCEPT ![This] = -1]
    PROVE  /\ stack' \in Seq(Contexts)
           /\ Len(stack') = n - 1
           /\ EnumerationDepth' \in [ARs -> Nat \cup {-1}]
           /\ DepthsMirrorStack'
           /\ IteratorsValid'
<1>1. stack \in Seq(Contexts) /\ EnumerationDepth \in [ARs -> Nat \cup {-1}]
  BY DEF TypeOK
<1>2. /\ stack' \in Seq(Contexts)
      /\ Len(stack') = n - 1
      /\ \A k \in 1 .. n - 1 : stack'[k] = stack[k]
  BY <1>1, FrontProperties
<1>3. /\ \A k \in 1 .. n : stack[k] \in Contexts
      /\ This = stack[n].AR
      /\ This \in ARs
  <2>1. \A k \in 1 .. n : stack[k] \in Contexts
    BY <1>1, ElementOfSeq
  <2>2. stack[n] \in Contexts
    BY <2>1
  <2>3. This = stack[n].AR
    BY DEF This, Ctx
  <2> QED  BY <2>1, <2>2, <2>3 DEF Contexts
<1>4. EnumerationDepth' \in [ARs -> Nat \cup {-1}]
  BY <1>1
<1>5. \A k \in 1 .. n - 1 : /\ stack'[k].Pos \in DOMAIN Work'[stack'[k].AR]
                            /\ Running(k)'.AR = Running(k).AR
                            /\ Running(k)'.kind = Running(k).kind
  BY <1>2 DEF SuspendedKept, RunningKept, Running
<1>6. EnumerationDepth[This] = n - 1
  BY <1>3 DEF DepthsMirrorStack
<1>7. ASSUME NEW k \in 1 .. n - 1
      PROVE  /\ EnumerationDepth'[stack'[k].AR] = k - 1
             /\ stack'[k].LTD = IF k = 1 THEN -1
                               ELSE IF IsTransform(Running(k - 1)') THEN k - 2
                               ELSE stack'[k - 1].LTD
  <2>1. /\ EnumerationDepth[stack[k].AR] = k - 1
        /\ stack[k].LTD = IF k = 1 THEN -1
                          ELSE IF IsTransform(Running(k - 1)) THEN k - 2
                          ELSE stack[k - 1].LTD
    BY DEF DepthsMirrorStack
  <2>2. stack[k].AR \in ARs /\ stack[k].AR # This
    BY <1>3, <1>6, <2>1 DEF Contexts
  <2>3. EnumerationDepth'[stack'[k].AR] = k - 1
    BY <1>1, <1>2, <2>1, <2>2
  <2>4. CASE k = 1
    BY <1>2, <2>1, <2>3, <2>4
  <2>5. CASE k # 1
    <3>1. k - 1 \in 1 .. n - 1
      BY <2>5
    <3>2. IsTransform(Running(k - 1)') <=> IsTransform(Running(k - 1))
      BY <1>5, <3>1 DEF IsTransform
    <3> QED  BY <1>2, <2>1, <2>3, <2>5, <3>1, <3>2
  <2> QED  BY <2>4, <2>5
<1>8. ASSUME NEW a \in ARs, EnumerationDepth'[a] # -1
      PROVE  /\ EnumerationDepth'[a] < Len(stack')
             /\ stack'[EnumerationDepth'[a] + 1].AR = a
  <2>1. a # This /\ EnumerationDepth'[a] = EnumerationDepth[a]
    BY <1>1, <1>3, <1>8
  <2>2. EnumerationDepth[a] < n /\ stack[EnumerationDepth[a] + 1].AR = a
    BY <1>8, <2>1 DEF DepthsMirrorStack
  <2>3. EnumerationDepth[a] \in Nat
    BY <1>1, <1>8, <2>1
  <2>4. EnumerationDepth[a] # n - 1
    BY <1>3, <2>1, <2>2, <2>3
  <2>5. EnumerationDepth[a] + 1 \in 1 .. n - 1
    BY <2>2, <2>3, <2>4
  <2> QED  BY <1>2, <2>1, <2>2, <2>3, <2>5
<1>9. DepthsMirrorStack'
  BY <1>2, <1>7, <1>8 DEF DepthsMirrorStack
<1>10. IteratorsValid'
  <2> SUFFICES ASSUME NEW k \in 1 .. n - 1
               PROVE  /\ stack'[k].Pos \in DOMAIN Work'[stack'[k].AR]
                      /\ k < n - 1 => Running(k)'.AR = stack'[k + 1].AR
    BY <1>2 DEF IteratorsValid
  <2>1. k < n /\ Running(k).AR = stack[k + 1].AR
    BY DEF IteratorsValid
  <2>2. k < n - 1 => k + 1 \in 1 .. n - 1
    OBVIOUS
  <2> QED  BY <1>2, <1>5, <2>1, <2>2
<1> QED  BY <1>2, <1>4, <1>9, <1>10

(* The Enumerator that is entered is the client's or that of a work item. *)
LEMMA CalleeType ==
    ASSUME Recursion, pc = "call"
    PROVE  /\ Callee.AR \in ARs
           /\ Callee.i \in Nat
           /\ stack # <<>> => /\ Ctx \in Contexts
                              /\ Ctx.Pos \in DOMAIN Work[This]
                              /\ Cur \in Works
                              /\ Callee.AR = Cur.AR
<1>1. PICK n \in Nat : /\ Len(stack) = n
                       /\ stack = <<>> <=> n = 0
                       /\ \A k \in 1 .. n : stack[k] \in Contexts
  BY StackLen DEF Recursion
<1>2. CASE n = 0
  <2>1. Callee = cursor
    BY <1>1, <1>2 DEF Callee
  <2>2. cursor \in Enumerators /\ cursor.AR \in ARs
    BY DEF Recursion, TypeOK, ControlOK
  <2> QED  BY <1>1, <1>2, <2>1, <2>2 DEF Enumerators
<1>3. CASE n # 0
  <2>1. n \in 1 .. n /\ Ctx = stack[n]
    BY <1>1, <1>3 DEF Ctx
  <2>2. Ctx \in Contexts /\ This \in ARs
    BY <1>1, <2>1 DEF This, Contexts
  <2>3. Ctx.Pos \in DOMAIN Work[This]
    BY <1>1, <2>1 DEF Recursion, IteratorsValid, This
  <2>4. Work[This] \in Seq(Works)
    BY <2>2 DEF Recursion, TypeOK
  <2>5. Cur \in Works
    BY <2>3, <2>4, LenProperties, ElementOfSeq DEF Cur
  <2>6. Callee = [AR |-> Cur.AR, i |-> Cur.i]
    BY <1>1, <1>3 DEF Callee
  <2> QED  BY <1>1, <1>3, <2>2, <2>3, <2>5, <2>6 DEF Works, SubsetWorks, TransformWorks
<1> QED  BY <1>2, <1>3

(* AnalysisResult::enumerate starts to run. *)
LEMMA PushFrame ==
    ASSUME Recursion, EnterRun
    PROVE  /\ stack' \in Seq(Contexts)
           /\ EnumerationDepth' \in [ARs -> Nat \cup {-1}]
           /\ stack' # <<>>
           /\ DepthsMirrorStack'
           /\ IteratorsValid'
<1>1. PICK n \in Nat : /\ Len(stack) = n
                       /\ stack = <<>> <=> n = 0
                       /\ \A k \in 1 .. n : stack[k] \in Contexts
  BY StackLen DEF Recursion
<1>2. /\ Callee.AR \in ARs
      /\ stack # <<>> => /\ Ctx \in Contexts
                         /\ Ctx.Pos \in DOMAIN Work[This]
                         /\ Callee.AR = Cur.AR
  BY CalleeType DEF EnterRun
<1> DEFINE new == [AR |-> Callee.AR, LTD |-> CalleeLTD, Pos |-> 1, Retry |-> NoAR]
<1>3. n # 0 => n \in 1 .. n /\ Ctx = stack[n] /\ Depth = n - 1 /\ Cur = Running(n)
  BY <1>1 DEF Ctx, Depth, Cur, This, Running
<1>4. CalleeLTD = IF n = 0 THEN -1 ELSE IF IsTransform(Running(n)) THEN n - 1 ELSE stack[n].LTD
  BY <1>1, <1>3 DEF CalleeLTD
<1>5. new \in Contexts
  <2>1. CalleeLTD \in Nat \cup {-1}
    BY <1>1, <1>3, <1>4 DEF Contexts
  <2> QED  BY <1>2, <2>1 DEF Contexts
<1>6. /\ stack' = Append(stack, new)
      /\ EnumerationDepth' = [EnumerationDepth EXCEPT ![Callee.AR] = n]
      /\ Work' = Work
      /\ EnumerationDepth[Callee.AR] = -1
      /\ pc = "call"
      /\ pc' = "run"
  BY <1>1, <1>2 DEF EnterRun, isEnumerating, Recursion, TypeOK, Goto
<1> HIDE DEF new
<1>7. stack \in Seq(Contexts) /\ EnumerationDepth \in [ARs -> Nat \cup {-1}]
  BY DEF Recursion, TypeOK
<1>8. /\ stack' \in Seq(Contexts)
      /\ stack' # <<>>
      /\ Len(stack') = n + 1
      /\ \A k \in 1 .. n : stack'[k] = stack[k]
      /\ stack'[n + 1] = new
  BY <1>1, <1>5, <1>6, <1>7, AppendProperties
<1>9. EnumerationDepth' \in [ARs -> Nat \cup {-1}]
  BY <1>6, <1>7
<1>10. \A k \in 1 .. n : Running(k)' = Running(k)
  BY <1>6, <1>8 DEF Running
<1>11. new.AR = Callee.AR /\ new.LTD = CalleeLTD
  BY DEF new
<1>12. ASSUME NEW k \in 1 .. n + 1
       PROVE  /\ EnumerationDepth'[stack'[k].AR] = k - 1
              /\ stack'[k].LTD = IF k = 1 THEN -1
                                ELSE IF IsTransform(Running(k - 1)') THEN k - 2
                                ELSE stack'[k - 1].LTD
  <2>1. CASE k \in 1 .. n
    <3>1. /\ EnumerationDepth[stack[k].AR] = k - 1
          /\ stack[k].LTD = IF k = 1 THEN -1
                            ELSE IF IsTransform(Running(k - 1)) THEN k - 2
                            ELSE stack[k - 1].LTD
      BY <1>1, <2>1 DEF Recursion, DepthsMirrorStack
    <3>2. stack[k].AR \in ARs /\ stack[k].AR # Callee.AR
      BY <1>1, <1>6, <2>1, <3>1 DEF Contexts
    <3>3. k # 1 => k - 1 \in 1 .. n
      BY <2>1
    <3> QED  BY <1>6, <1>7, <1>8, <1>10, <2>1, <3>1, <3>2, <3>3
  <2>2. CASE k = n + 1
    <3>1. EnumerationDepth'[stack'[k].AR] = k - 1
      BY <1>2, <1>6, <1>7, <1>8, <1>11, <2>2
    <3>2. n # 0 => n \in 1 .. n /\ k - 1 = n /\ k - 2 = n - 1 /\ k # 1
      BY <2>2
    <3>3. stack'[k].LTD = CalleeLTD
      BY <1>8, <1>11, <2>2
    <3>4. CASE n = 0
      BY <1>4, <2>2, <3>1, <3>3, <3>4
    <3>5. CASE n # 0
      BY <1>4, <1>8, <1>10, <3>1, <3>2, <3>3, <3>5
    <3> QED  BY <3>4, <3>5
  <2> QED  BY <2>1, <2>2
<1>13. ASSUME NEW a \in ARs, EnumerationDepth'[a] # -1
       PROVE  /\ EnumerationDepth'[a] < Len(stack')
              /\ stack'[EnumerationDepth'[a] + 1].AR = a
  <2>1. CASE a = Callee.AR
    BY <1>2, <1>6, <1>7, <1>8, <1>11, <2>1
  <2>2. CASE a # Callee.AR
    <3>1. EnumerationDepth'[a] = EnumerationDepth[a] /\ EnumerationDepth[a] \in Nat
      BY <1>6, <1>7, <1>13, <2>2
    <3>2. EnumerationDepth[a] < n /\ stack[EnumerationDepth[a] + 1].AR = a
      BY <1>1, <1>13, <3>1 DEF Recursion, DepthsMirrorStack
    <3>3. EnumerationDepth[a] + 1 \in 1 .. n
      BY <3>1, <3>2
    <3> QED  BY <1>8, <3>1, <3>2, <3>3
  <2> QED  BY <2>1, <2>2
<1>14. DepthsMirrorStack'
  BY <1>8, <1>12, <1>13 DEF DepthsMirrorStack
<1>15. IteratorsValid'
  <2> SUFFICES ASSUME NEW k \in 1 .. n
               PROVE  /\ stack[k].Pos \in DOMAIN Work[stack[k].AR]
                      /\ Running(k).AR = stack'[k + 1].AR
    BY <1>6, <1>8, <1>10 DEF IteratorsValid
  <2>1. stack[k].Pos \in DOMAIN Work[stack[k].AR]
    BY <1>1, <1>6 DEF Recursion, IteratorsValid
  <2>2. CASE k = n
    BY <1>1, <1>2, <1>3, <1>8, <1>11, <2>1, <2>2
  <2>3. CASE k < n
    <3>1. k + 1 \in 1 .. n /\ Running(k).AR = stack[k + 1].AR
      BY <1>1, <2>3 DEF Recursion, IteratorsValid
    <3> QED  BY <1>8, <2>1, <3>1
  <2> QED  BY <2>2, <2>3
<1> QED  BY <1>8, <1>9, <1>14, <1>15

(* The innermost activation and the suspended ones below it. *)
LEMMA TopFrame ==
    ASSUME Recursion, stack # <<>>
    PROVE  \E n \in Nat : /\ n >= 1
                          /\ Len(stack) = n
                          /\ Ctx = stack[n]
                          /\ Ctx \in Contexts
                          /\ This = Ctx.AR
                          /\ This \in ARs
                          /\ Depth = n - 1
                          /\ EnumerationDepth[This] = n - 1
                          /\ Work[This] \in Seq(Works)
                          /\ \A k \in 1 .. n - 1 : /\ stack[k] \in Contexts
                                                   /\ stack[k].AR \in ARs
                                                   /\ stack[k].AR # This
                                                   /\ stack[k].Pos \in DOMAIN Work[stack[k].AR]
<1>1. PICK n \in Nat : /\ Len(stack) = n
                       /\ stack = <<>> <=> n = 0
                       /\ \A k \in 1 .. n : stack[k] \in Contexts
  BY StackLen DEF Recursion
<1>2. n >= 1 /\ n \in 1 .. n
  BY <1>1
<1>3. Ctx = stack[n] /\ This = Ctx.AR /\ Depth = n - 1
  BY <1>1 DEF Ctx, This, Depth
<1>4. Ctx \in Contexts /\ This \in ARs
  BY <1>1, <1>2, <1>3 DEF Contexts
<1>5. EnumerationDepth[This] = n - 1
  BY <1>1, <1>2, <1>3 DEF Recursion, DepthsMirrorStack
<1>6. Work[This] \in Seq(Works)
  BY <1>4 DEF Recursion, TypeOK
<1>7. ASSUME NEW k \in 1 .. n - 1
      PROVE  /\ stack[k] \in Contexts
             /\ stack[k].AR \in ARs
             /\ stack[k].AR # This
             /\ stack[k].Pos \in DOMAIN Work[stack[k].AR]
  <2>1. k \in 1 .. n /\ k < n
    OBVIOUS
  <2>2. stack[k] \in Contexts /\ stack[k].AR \in ARs
    BY <1>1, <2>1 DEF Contexts
  <2>3. EnumerationDepth[stack[k].AR] = k - 1
    BY <1>1, <2>1 DEF Recursion, DepthsMirrorStack
  <2>4. stack[k].Pos \in DOMAIN Work[stack[k].AR]
    BY <1>1, <2>1 DEF Recursion, IteratorsValid
  <2> QED  BY <1>5, <2>1, <2>2, <2>3, <2>4
<1> QED  BY <1>1, <1>2, <1>3, <1>4, <1>5, <1>6, <1>7

LEMMA CurType ==
    ASSUME Recursion, stack # <<>>, pc = "run" \/ pc = "rewrite" => ~AtEnd
    PROVE  /\ Ctx.Pos \in 1 .. Len(Work[This])
           /\ Ctx.Pos \in DOMAIN Work[This]
           /\ Cur \in Works
           /\ Cur.AR \in ARs
           /\ Cur.i \in Nat
<1>1. PICK n \in Nat : /\ n >= 1
                       /\ Len(stack) = n
                       /\ Ctx = stack[n]
                       /\ Ctx \in Contexts
                       /\ This = Ctx.AR
                       /\ This \in ARs
                       /\ Work[This] \in Seq(Works)
  BY TopFrame
<1>2. PICK m \in Nat : Len(Work[This]) = m /\ DOMAIN Work[This] = 1 .. m
  BY <1>1, LenProperties
<1>3. Ctx.Pos \in 1 .. m
  <2>1. CASE pc \in {"run", "rewrite"}
    <3>1. ~(Ctx.Pos > m)
      BY <1>2, <2>1 DEF AtEnd
    <3> QED  BY <1>1, <3>1 DEF Contexts
  <2>2. CASE pc \in {"call", "return"}
    <3>1. n \in 1 .. n
      BY <1>1
    <3> QED  BY <1>1, <1>2, <2>2, <3>1 DEF Recursion, IteratorsValid
  <2>3. pc # "idle"
    BY DEF Recursion, ControlOK
  <2> QED  BY <2>1, <2>2, <2>3 DEF Recursion, TypeOK
<1>4. Cur \in Works
  BY <1>1, <1>2, <1>3, ElementOfSeq DEF Cur
<1> QED  BY <1>2, <1>3, <1>4 DEF Works, SubsetWorks, TransformWorks

(* What the operations on work lists leave of suspended activations. *)
LEMMA SameWorkKept ==
    ASSUME Recursion, stack # <<>>, Work' = Work
    PROVE  SuspendedKept
<1>1. PICK n \in Nat : /\ Len(stack) = n
                       /\ \A k \in 1 .. n - 1 : stack[k].Pos \in DOMAIN Work[stack[k].AR]
  BY TopFrame
<1> QED  BY <1>1 DEF SuspendedKept, RunningKept, Running

LEMMA SetWorkKept ==
    ASSUME Recursion, stack # <<>>, NEW w \in Seq(Works), SetWork(w)
    PROVE  /\ SuspendedKept
           /\ Work' \in [ARs -> Seq(Works)]
           /\ Work'[This] = w
<1>1. PICK n \in Nat : /\ Len(stack) = n
                       /\ This \in ARs
                       /\ \A k \in 1 .. n - 1 : /\ stack[k].AR \in ARs
                                                /\ stack[k].AR # This
                                                /\ stack[k].Pos \in DOMAIN Work[stack[k].AR]
  BY TopFrame
<1>2. Work \in [ARs -> Seq(Works)] /\ Work' = [Work EXCEPT ![This] = w]
  BY DEF Recursion, TypeOK, SetWork
<1>3. \A k \in 1 .. n - 1 : Work'[stack[k].AR] = Work[stack[k].AR]
  BY <1>1, <1>2
<1> QED  BY <1>1, <1>2, <1>3 DEF SuspendedKept, RunningKept, Running

LEMMA EraseCurKept ==
    ASSUME Recursion, stack # <<>>, Ctx.Pos \in 1 .. Len(Work[This]), EraseCur
    PROVE  SuspendedKept /\ Work' \in [ARs -> Seq(Works)]
<1>1. Work[This] \in Seq(Works)
  BY TopFrame
<1>2. RemoveAt(Work[This], Ctx.Pos) \in Seq(Works)
  BY <1>1, RemoveAtProperties
<1> QED  BY <1>2, SetWorkKept DEF EraseCur

(* ++i on the Enumerator of the last activation of stk: all of stack, or   *)
(* all but its last.                                                       *)
LEMMA AdvanceKept ==
    ASSUME Recursion, NEW m \in Nat, NEW stk \in Seq(Contexts), Len(stk) = m,
           \A k \in 1 .. m : /\ stk[k] = stack[k]
                            /\ stack[k].AR \in ARs
                            /\ stack[k].Pos \in DOMAIN Work[stack[k].AR],
           Advance(stk)
    PROVE  /\ \A k \in 1 .. m : RunningKept(k)
           /\ Work' \in [ARs -> Seq(Works)]
           /\ cursor' \in Enumerators
           /\ cursor'.AR = cursor.AR
<1>1. Work \in [ARs -> Seq(Works)] /\ cursor \in Enumerators
  BY DEF Recursion, TypeOK
<1>2. CASE stk = <<>>
  <2>1. cursor' = [cursor EXCEPT !.i = @ + 1] /\ Work' = Work
    BY <1>2 DEF Advance
  <2>2. cursor \in [AR : ARs \cup {NoAR}, i : Nat]
    BY <1>1 DEF Enumerators
  <2>3. cursor' \in [AR : ARs \cup {NoAR}, i : Nat] /\ cursor'.AR = cursor.AR
    BY <2>1, <2>2
  <2> QED  BY <1>1, <2>1, <2>3 DEF Enumerators, RunningKept, Running
<1>3. CASE stk # <<>>
  <2> DEFINE b == stack[m].AR
             q == stack[m].Pos
  <2>1. m \in 1 .. m
    <3>1. m # 0
      BY <1>3, EmptySeq
    <3> QED  BY <3>1
  <2>2. Last(stk) = stack[m]
    BY <2>1 DEF Last
  <2>3. Work' = [Work EXCEPT ![b][q].i = @ + 1] /\ cursor' = cursor
    BY <1>3, <2>2 DEF Advance
  <2>4. b \in ARs /\ q \in DOMAIN Work[b] /\ Work[b] \in Seq(Works)
    BY <1>1, <2>1
  <2> HIDE DEF b, q
  <2>5. Len(Work[b]) \in Nat /\ DOMAIN Work[b] = 1 .. Len(Work[b]) /\ Work[b][q] \in Works
    BY <2>4, LenProperties, ElementOfSeq
  <2> DEFINE u == [Work[b][q] EXCEPT !.i = @ + 1]
             l == [Work[b] EXCEPT ![q] = u]
  <2>6. u \in Works /\ u.AR = Work[b][q].AR /\ u.kind = Work[b][q].kind
    BY <2>5 DEF Works, SubsetWorks, TransformWorks
  <2>7. Work' = [Work EXCEPT ![b] = l]
    BY <2>3
  <2> HIDE DEF u
  <2>8. /\ l \in Seq(Works)
        /\ Len(l) = Len(Work[b])
        /\ \A j \in 1 .. Len(Work[b]) : l[j] = IF j = q THEN u ELSE Work[b][j]
    BY <2>4, <2>5, <2>6, ExceptSeq
  <2> HIDE DEF l
  <2>9. DOMAIN l = DOMAIN Work[b]
    BY <2>5, <2>8, LenProperties
  <2>10. Work' \in [ARs -> Seq(Works)]
    BY <1>1, <2>7, <2>8
  <2>11. ASSUME NEW k \in 1 .. m
         PROVE  RunningKept(k)
    <3>1. CASE stack[k].AR = b
      <4>1. Work'[stack[k].AR] = l
        BY <1>1, <2>4, <2>7, <3>1
      <4>2. stack[k].Pos \in DOMAIN Work[b]
        BY <3>1
      <4>3. /\ l[stack[k].Pos].AR = Work[b][stack[k].Pos].AR
            /\ l[stack[k].Pos].kind = Work[b][stack[k].Pos].kind
        BY <2>5, <2>6, <2>8, <4>2
      <4> QED  BY <2>9, <3>1, <4>1, <4>2, <4>3 DEF RunningKept, Running
    <3>2. CASE stack[k].AR # b
      <4>1. Work'[stack[k].AR] = Work[stack[k].AR]
        BY <1>1, <2>7, <3>2
      <4> QED  BY <4>1 DEF RunningKept, Running
    <3> QED  BY <3>1, <3>2
  <2> QED  BY <1>1, <2>3, <2>10, <2>11
<1> QED  BY <1>2, <1>3

(* Steps that touch neither the stack nor the work lists. *)
LEMMA FramesUnchanged ==
    ASSUME DepthsMirrorStack, UNCHANGED <<Work, EnumerationDepth, stack>>
    PROVE  DepthsMirrorStack'
BY DEF DepthsMirrorStack, Running

(* IteratorsValid asks most of a step that ends in "call" or "return". *)
LEMMA IteratorsUnchanged ==
    ASSUME IteratorsValid, UNCHANGED <<Work, stack>>,
           pc' \in {"call", "return"} => pc \in {"call", "return"}
    PROVE  IteratorsValid'
BY DEF IteratorsValid, Running

LEMMA QueryRecursion ==
    ASSUME Recursion, NEW a \in ARs, NEW i \in 0 .. Len(Set[a]), Query(a, i)
    PROVE  Recursion'
<1>1. i \in Nat /\ stack = <<>> /\ Len(stack) = 0
  <2>1. Len(Set[a]) \in Nat
    BY LenProperties DEF Recursion, TypeOK
  <2> QED  BY <2>1, EmptySeq DEF Query, Recursion, ControlOK
<1>2. TypeOK'
  BY <1>1 DEF Recursion, TypeOK, Query, Goto, Enumerators, NoResult, EnumerationResults, ResultTypes
<1>3. ControlOK'
  BY <1>1 DEF Query, Goto, NoResult, ControlOK
<1>4. DepthsMirrorStack'
  BY FramesUnchanged DEF Query, Recursion
<1>5. IteratorsValid'
  BY <1>1 DEF IteratorsValid, Query
<1> QED  BY <1>2, <1>3, <1>4, <1>5 DEF Recursion

LEMMA AnswerRecursion ==
    ASSUME Recursion, Answer
    PROVE  Recursion'
<1>1. TypeOK'
  BY DEF Recursion, TypeOK, Answer, Goto, Enumerators, Nobody, NoResult, EnumerationResults, ResultTypes
<1>2. ControlOK'
  BY DEF Answer, Goto, NoResult, ControlOK
<1>3. DepthsMirrorStack'
  BY FramesUnchanged DEF Answer, Recursion
<1>4. IteratorsValid'
  BY IteratorsUnchanged DEF Answer, Goto, Recursion
<1> QED  BY <1>1, <1>2, <1>3, <1>4 DEF Recursion

LEMMA EnterRewriteRecursion ==
    ASSUME Recursion, EnterRewrite
    PROVE  Recursion'
<1>1. Callee.AR \in ARs
  BY CalleeType DEF EnterRewrite
<1>2. TypeOK'
  BY <1>1 DEF Recursion, TypeOK, EnterRewrite, Return, Rewrite, EnumerationResults, ResultTypes
<1>3. ControlOK'
  BY <1>1 DEF Recursion, ControlOK, EnterRewrite, Return, Rewrite
<1>4. DepthsMirrorStack'
  BY FramesUnchanged DEF EnterRewrite, Recursion
<1>5. IteratorsValid'
  BY IteratorsUnchanged DEF EnterRewrite, Recursion
<1> QED  BY <1>2, <1>3, <1>4, <1>5 DEF Recursion

LEMMA EnterRetryRecursion ==
    ASSUME Recursion, EnterRetry
    PROVE  Recursion'
<1>1. Callee.AR \in ARs
  BY CalleeType DEF EnterRetry
<1>2. TypeOK'
  BY <1>1 DEF Recursion, TypeOK, EnterRetry, Return, Retry, EnumerationResults, ResultTypes
<1>3. ControlOK'
  BY <1>1 DEF Recursion, ControlOK, EnterRetry, Return, Retry
<1>4. DepthsMirrorStack'
  BY FramesUnchanged DEF EnterRetry, Recursion
<1>5. IteratorsValid'
  BY IteratorsUnchanged DEF EnterRetry, Recursion
<1> QED  BY <1>2, <1>3, <1>4, <1>5 DEF Recursion

LEMMA EnterCachedRecursion ==
    ASSUME Recursion, EnterCached
    PROVE  Recursion'
<1>1. PICK n \in Nat : /\ Len(stack) = n
                       /\ stack = <<>> <=> n = 0
                       /\ \A k \in 1 .. n : stack[k] \in Contexts
  BY StackLen DEF Recursion
<1>2. \A k \in 1 .. n : stack[k].AR \in ARs /\ stack[k].Pos \in DOMAIN Work[stack[k].AR]
  BY <1>1 DEF Recursion, IteratorsValid, EnterCached, Contexts
<1>3. stack \in Seq(Contexts) /\ Advance(stack)
  BY DEF Recursion, TypeOK, EnterCached
<1>4. /\ \A k \in 1 .. n : RunningKept(k)
      /\ Work' \in [ARs -> Seq(Works)]
      /\ cursor' \in Enumerators
      /\ cursor'.AR = cursor.AR
  BY <1>1, <1>2, <1>3, AdvanceKept
<1>5. result'.VI \in VIs /\ result' \in EnumerationResults /\ result'.type = "NEXT_VALUE"
  <2> DEFINE v == Set[Callee.AR][Callee.i + 1]
  <2>1. Callee.AR \in ARs /\ Callee.i \in Nat /\ Callee.i < Len(Set[Callee.AR])
    BY CalleeType DEF EnterCached, IsCached
  <2>2. Set[Callee.AR] \in Seq(VIs)
    BY <2>1 DEF Recursion, TypeOK
  <2>3. Len(Set[Callee.AR]) \in Nat
    BY <2>2, LenProperties
  <2>4. v \in VIs
    BY <2>1, <2>2, <2>3, ElementOfSeq
  <2>5. result' = NextValue(v)
    BY DEF EnterCached, Return
  <2> QED  BY <2>4, <2>5 DEF NextValue, EnumerationResults, ResultTypes
<1>6. pc = "call" /\ pc' = "return" /\ UNCHANGED <<sys, Set, Subsets, EnumerationDepth, stack>>
  BY DEF EnterCached, Return
<1>7. TypeOK'
  BY <1>4, <1>5, <1>6 DEF Recursion, TypeOK
<1>8. ControlOK'
  BY <1>4, <1>5, <1>6 DEF Recursion, ControlOK
<1>9. \A k \in 1 .. n : /\ stack'[k].Pos \in DOMAIN Work'[stack'[k].AR]
                        /\ Running(k)'.AR = Running(k).AR
                        /\ Running(k)'.kind = Running(k).kind
  BY <1>4, <1>6 DEF RunningKept, Running
<1>10. IteratorsValid'
  <2> SUFFICES ASSUME NEW k \in 1 .. n, k < n
               PROVE  Running(k)'.AR = stack'[k + 1].AR
    BY <1>1, <1>6, <1>9 DEF IteratorsValid
  <2>1. Running(k).AR = stack[k + 1].AR
    BY <1>1 DEF Recursion, IteratorsValid
  <2> QED  BY <1>6, <1>9, <2>1
<1>11. DepthsMirrorStack'
  <2>1. CASE n = 0
    BY <1>1, <1>6, <2>1 DEF Recursion, DepthsMirrorStack
  <2>2. CASE n # 0
    <3>1. n >= 1 /\ SuspendedKept
      BY <1>1, <1>4, <2>2 DEF SuspendedKept
    <3> QED  BY <1>1, <1>6, <3>1, SameFrames DEF Recursion
  <2> QED  BY <2>1, <2>2
<1> QED  BY <1>7, <1>8, <1>10, <1>11 DEF Recursion

LEMMA EnterRunRecursion ==
    ASSUME Recursion, EnterRun
    PROVE  Recursion'
<1>1. /\ stack' \in Seq(Contexts)
      /\ EnumerationDepth' \in [ARs -> Nat \cup {-1}]
      /\ stack' # <<>>
      /\ DepthsMirrorStack'
      /\ IteratorsValid'
  BY PushFrame
<1>2. TypeOK'
  BY <1>1 DEF Recursion, TypeOK, EnterRun, Goto, NoResult, EnumerationResults, ResultTypes
<1>3. ControlOK'
  BY <1>1 DEF Recursion, ControlOK, EnterRun, Goto, NoResult
<1> QED  BY <1>1, <1>2, <1>3 DEF Recursion

LEMMA RunRecurseRecursion ==
    ASSUME Recursion, RunRecurse
    PROVE  Recursion'
<1>1. stack # <<>> /\ Ctx.Pos \in DOMAIN Work[This]
  BY CurType DEF Recursion, ControlOK, RunRecurse
<1>2. TypeOK'
  BY DEF Recursion, TypeOK, RunRecurse, Goto, NoResult, EnumerationResults, ResultTypes
<1>3. ControlOK'
  BY DEF Recursion, ControlOK, RunRecurse, Goto, NoResult
<1>4. DepthsMirrorStack'
  BY FramesUnchanged DEF RunRecurse, Recursion
<1>5. IteratorsValid'
  BY <1>1 DEF RunRecurse, Recursion, IteratorsValid, Running, This, Ctx
<1> QED  BY <1>2, <1>3, <1>4, <1>5 DEF Recursion

(* Steps that return from the innermost activation. *)
LEMMA LeaveRecursion ==
    ASSUME Recursion, stack # <<>>, pc # "idle", SuspendedKept,
           NEW er \in EnumerationResults, Leave(er),
           er.type = "NEXT_VALUE" => er.VI \in VIs,
           er.type \in {"INLINE", "RETRY", "REWRITE"} => er.AR \in ARs,
           sys' = sys,
           Set' \in [ARs -> Seq(VIs)],
           Work' \in [ARs -> Seq(Works)],
           Subsets' = Subsets,
           cursor' \in Enumerators, cursor'.AR = cursor.AR
    PROVE  Recursion'
<1>1. PICK n \in Nat : n >= 1 /\ Len(stack) = n
  BY TopFrame
<1>2. /\ stack' = Front(stack)
      /\ EnumerationDepth' = [EnumerationDepth EXCEPT ![This] = -1]
      /\ pc' = "return"
      /\ result' = er
  BY DEF Leave, Return
<1>3. /\ stack' \in Seq(Contexts)
      /\ EnumerationDepth' \in [ARs -> Nat \cup {-1}]
      /\ DepthsMirrorStack'
      /\ IteratorsValid'
  BY <1>1, <1>2, PopFrame DEF Recursion
<1>4. TypeOK'
  BY <1>2, <1>3 DEF Recursion, TypeOK
<1>5. ControlOK'
  BY <1>2 DEF Recursion, ControlOK
<1> QED  BY <1>3, <1>4, <1>5 DEF Recursion

LEMMA RunInlineRecursion ==
    ASSUME Recursion, RunInline
    PROVE  Recursion'
<1>1. stack # <<>> /\ Cur.AR \in ARs /\ Cur.i \in Nat
  BY CurType DEF Recursion, ControlOK, RunInline
<1>2. Inline(Cur) \in EnumerationResults /\ Inline(Cur).type = "INLINE" /\ Inline(Cur).AR \in ARs
  BY <1>1 DEF Inline, EnumerationResults, ResultTypes
<1>3. SuspendedKept
  BY <1>1, SameWorkKept DEF RunInline
<1> QED  BY <1>1, <1>2, <1>3, LeaveRecursion DEF RunInline, Recursion, TypeOK

LEMMA CompleteType ==
    Complete \in EnumerationResults /\ Complete.type = "COMPLETE"
BY DEF Complete, EnumerationResults, ResultTypes

LEMMA EndCompleteRecursion ==
    ASSUME Recursion, EndComplete
    PROVE  Recursion'
<1>1. stack # <<>>
  BY DEF Recursion, ControlOK, EndComplete
<1>2. SuspendedKept
  BY <1>1, SameWorkKept DEF EndComplete
<1> QED  BY <1>1, <1>2, CompleteType, LeaveRecursion DEF EndComplete, Recursion, TypeOK

LEMMA EndCancelRetryRecursion ==
    ASSUME Recursion, EndCancelRetry
    PROVE  Recursion'
<1>1. stack # <<>>
  BY DEF Recursion, ControlOK, EndCancelRetry
<1>2. SuspendedKept /\ Work' \in [ARs -> Seq(Works)]
  <2>1. <<>> \in Seq(Works)
    BY EmptySeq
  <2>2. SetWork(<<>>)
    BY DEF EndCancelRetry
  <2> QED  BY <1>1, <2>1, <2>2, SetWorkKept
<1> QED  BY <1>1, <1>2, CompleteType, LeaveRecursion DEF EndCancelRetry, Recursion, TypeOK

LEMMA EndRetryRecursion ==
    ASSUME Recursion, EndRetry
    PROVE  Recursion'
<1>1. stack # <<>>
  BY DEF Recursion, ControlOK, EndRetry
<1>2. Ctx.Retry \in ARs
  BY <1>1, TopFrame DEF EndRetry, Contexts
<1>3. /\ Retry(Ctx.Retry) \in EnumerationResults
      /\ Retry(Ctx.Retry).type = "RETRY"
      /\ Retry(Ctx.Retry).AR \in ARs
  BY <1>2 DEF Retry, EnumerationResults, ResultTypes
<1>4. SuspendedKept
  BY <1>1, SameWorkKept DEF EndRetry
<1> QED  BY <1>1, <1>3, <1>4, LeaveRecursion DEF EndRetry, Recursion, TypeOK

LEMMA AddNewValueKept ==
    ASSUME Recursion, AddNewValue
    PROVE  /\ stack # <<>>
           /\ SuspendedKept
           /\ Work' \in [ARs -> Seq(Works)]
           /\ cursor' \in Enumerators
           /\ cursor'.AR = cursor.AR
<1>1. stack # <<>>
  BY DEF AddNewValue, Returned
<1>2. PICK n \in Nat : /\ n >= 1
                       /\ Len(stack) = n
                       /\ \A k \in 1 .. n - 1 : /\ stack[k].AR \in ARs
                                                /\ stack[k].Pos \in DOMAIN Work[stack[k].AR]
  BY <1>1, TopFrame
<1>3. /\ Front(stack) \in Seq(Contexts)
      /\ Len(Front(stack)) = n - 1
      /\ \A k \in 1 .. n - 1 : Front(stack)[k] = stack[k]
  BY <1>2, FrontProperties DEF Recursion, TypeOK
<1>4. n - 1 \in Nat /\ Advance(Front(stack))
  BY <1>2 DEF AddNewValue
<1>5. /\ \A k \in 1 .. n - 1 : RunningKept(k)
      /\ Work' \in [ARs -> Seq(Works)]
      /\ cursor' \in Enumerators
      /\ cursor'.AR = cursor.AR
  BY <1>2, <1>3, <1>4, AdvanceKept
<1> QED  BY <1>1, <1>2, <1>5 DEF SuspendedKept

LEMMA AddNewValueRecursion ==
    ASSUME Recursion, AddNewValue
    PROVE  Recursion'
<1>1. stack # <<>> /\ pc = "return" /\ result.VI \in VIs /\ result.type = "NEXT_VALUE"
  BY DEF Recursion, ControlOK, AddNewValue, Returned
<1>2. /\ SuspendedKept
      /\ Work' \in [ARs -> Seq(Works)]
      /\ cursor' \in Enumerators
      /\ cursor'.AR = cursor.AR
  BY AddNewValueKept
<1>3. Set' \in [ARs -> Seq(VIs)]
  <2>1. Set \in [ARs -> Seq(VIs)] /\ Set[This] \in Seq(VIs)
    BY <1>1, TopFrame DEF Recursion, TypeOK
  <2>2. Append(Set[This], result.VI) \in Seq(VIs)
    BY <1>1, <2>1, AppendProperties
  <2> QED  BY <2>1, <2>2 DEF AddNewValue
<1> QED  BY <1>1, <1>2, <1>3, LeaveRecursion DEF AddNewValue, Recursion, TypeOK

(* Steps within an activation: its Pos, Retry and work lists may change.   *)
LEMMA EditRecursion ==
    ASSUME Recursion, stack # <<>>, SuspendedKept,
           NEW c \in Contexts, c.AR = Ctx.AR, c.LTD = Ctx.LTD,
           stack' = [stack EXCEPT ![Len(stack)] = c],
           pc' \in {"call", "run", "rewrite"},
           pc' = "call" => c.Pos \in DOMAIN Work'[This],
           result' \in {NoResult, result},
           pc' = "rewrite" => result'.type = "REWRITE",
           Work' \in [ARs -> Seq(Works)],
           Subsets' \in [ARs -> SUBSET ARs],
           UNCHANGED <<sys, Set, EnumerationDepth, cursor>>
    PROVE  Recursion'
<1>1. PICK n \in Nat : n >= 1 /\ Len(stack) = n /\ Ctx = stack[n] /\ This = Ctx.AR
  BY TopFrame
<1>2. stack \in Seq(Contexts) /\ n \in 1 .. n
  BY <1>1 DEF Recursion, TypeOK
<1>3. /\ stack' \in Seq(Contexts)
      /\ Len(stack') = n
      /\ \A k \in 1 .. n : stack'[k] = IF k = n THEN c ELSE stack[k]
  BY <1>1, <1>2, ExceptSeq
<1>4. /\ \A k \in 1 .. n - 1 : stack'[k] = stack[k]
      /\ stack'[n] = c
      /\ stack' # <<>>
  <2>1. stack' # <<>>
    BY <1>1, <1>3, EmptySeq
  <2> QED  BY <1>1, <1>3, <2>1
<1>5. /\ DepthsMirrorStack'
      /\ \A k \in 1 .. n - 1 : /\ stack'[k].Pos \in DOMAIN Work'[stack'[k].AR]
                               /\ Running(k)'.AR = stack'[k + 1].AR
  BY <1>1, <1>3, <1>4, SameFrames DEF Recursion
<1>6. IteratorsValid'
  BY <1>1, <1>3, <1>4, <1>5 DEF IteratorsValid
<1>7. NoResult \in EnumerationResults /\ NoResult.type = "NONE"
  BY DEF NoResult, EnumerationResults, ResultTypes
<1>8. TypeOK'
  BY <1>3, <1>7 DEF Recursion, TypeOK
<1>9. pc # "idle"
  BY DEF Recursion, ControlOK
<1>10. ControlOK'
  BY <1>4, <1>7, <1>9 DEF Recursion, ControlOK
<1> QED  BY <1>5, <1>6, <1>8, <1>10 DEF Recursion

(* The same for the steps that leave the stack alone. *)
LEMMA KeepStackRecursion ==
    ASSUME Recursion, stack # <<>>, SuspendedKept, stack' = stack,
           pc' \in {"call", "run", "rewrite"},
           pc' = "call" => Ctx.Pos \in DOMAIN Work'[This],
           result' \in {NoResult, result},
           pc' = "rewrite" => result'.type = "REWRITE",
           Work' \in [ARs -> Seq(Works)],
           Subsets' \in [ARs -> SUBSET ARs],
           UNCHANGED <<sys, Set, EnumerationDepth, cursor>>
    PROVE  Recursion'
<1>1. PICK n \in Nat : /\ n >= 1
                       /\ Len(stack) = n
                       /\ Ctx = stack[n]
                       /\ Ctx \in Contexts
  BY TopFrame
<1>2. stack' = [stack EXCEPT ![Len(stack)] = Ctx]
  <2>1. stack \in Seq(Contexts) /\ n \in 1 .. n
    BY <1>1 DEF Recursion, TypeOK
  <2>2. [stack EXCEPT ![n] = Ctx] = stack
    BY <1>1, <2>1
  <2> QED  BY <1>1, <2>2
<1> QED  BY <1>1, <1>2, EditRecursion

LEMMA NoteSubsetType ==
    ASSUME Recursion, NEW a \in ARs, NEW s \in ARs, NoteSubset(a, s)
    PROVE  Subsets' \in [ARs -> SUBSET ARs]
BY DEF Recursion, TypeOK, NoteSubset

LEMMA SkipKnownValueRecursion ==
    ASSUME Recursion, SkipKnownValue
    PROVE  Recursion'
<1>1. stack # <<>> /\ SuspendedKept
  BY SameWorkKept DEF SkipKnownValue, Returned
<1> QED  BY <1>1, KeepStackRecursion DEF SkipKnownValue, Goto, Recursion, TypeOK

LEMMA TransformToNothingRecursion ==
    ASSUME Recursion, TransformToNothing
    PROVE  Recursion'
<1>1. stack # <<>> /\ SuspendedKept
  BY SameWorkKept DEF TransformToNothing, Returned
<1>2. Ctx.Pos \in DOMAIN Work[This]
  BY <1>1, CurType DEF TransformToNothing, Returned
<1> QED  BY <1>1, <1>2, KeepStackRecursion DEF TransformToNothing, Goto, Recursion, TypeOK

(* An algorithm's result for a value, if it is not null, is a subset. *)
LEMMA TransformedType ==
    ASSUME Recursion, Returned("NEXT_VALUE"), IsTransform(Cur), Analyzed # NoAR
    PROVE  Analyzed \in ARs /\ SubsetWork(Analyzed) \in Works
<1>1. stack # <<>> /\ pc = "return" /\ result.VI \in VIs
  BY DEF Recursion, ControlOK, Returned
<1>2. Cur \in Works
  BY <1>1, CurType
<1>3. Cur.alg \in Algs
  BY <1>2 DEF Works, SubsetWorks, TransformWorks, IsTransform
<1>4. sys.results \in [Algs -> [VIs -> ARs \cup {NoAR}]]
  BY DEF Recursion, TypeOK, EquationSystems
<1>5. sys.results[Cur.alg] \in [VIs -> ARs \cup {NoAR}]
  BY <1>3, <1>4
<1>6. sys.results[Cur.alg][result.VI] \in ARs \cup {NoAR}
  BY <1>1, <1>5
<1>7. Analyzed \in ARs
  BY <1>6 DEF Analyzed
<1> QED  BY <1>7 DEF SubsetWork, Works, SubsetWorks

LEMMA TransformToSubsetRecursion ==
    ASSUME Recursion, TransformToSubset
    PROVE  Recursion'
<1>1. stack # <<>> /\ pc = "return"
  BY DEF TransformToSubset, Returned
<1>2. Ctx.Pos \in 1 .. Len(Work[This])
  BY <1>1, CurType
<1>3. This \in ARs /\ Work[This] \in Seq(Works)
  BY <1>1, TopFrame
<1>4. Analyzed \in ARs /\ SubsetWork(Analyzed) \in Works
  BY TransformedType DEF TransformToSubset
<1> DEFINE w == InsertAt(Work[This], Ctx.Pos, SubsetWork(Analyzed))
<1>5. w \in Seq(Works)
  BY <1>2, <1>3, <1>4, InsertAtProperties
<1>6. SetWork(w)
  BY DEF TransformToSubset
<1> HIDE DEF w
<1>7. SuspendedKept /\ Work' \in [ARs -> Seq(Works)]
  BY <1>1, <1>5, <1>6, SetWorkKept
<1>8. Subsets' \in [ARs -> SUBSET ARs]
  BY <1>3, <1>4, NoteSubsetType DEF TransformToSubset
<1> QED  BY <1>1, <1>7, <1>8, KeepStackRecursion DEF TransformToSubset, Goto

LEMMA InlineSubsetRecursion ==
    ASSUME Recursion, InlineSubset
    PROVE  Recursion'
<1>1. stack # <<>> /\ result.AR \in ARs /\ pc = "return"
  BY DEF Recursion, ControlOK, InlineSubset, Returned
<1>2. Ctx.Pos \in 1 .. Len(Work[This]) /\ Ctx.Pos \in DOMAIN Work[This] /\ Cur \in Works
  BY <1>1, CurType
<1>3. This \in ARs /\ Work[This] \in Seq(Works)
  BY <1>1, TopFrame
<1> DEFINE u == [Cur EXCEPT !.AR = result.AR, !.i = result.i]
           w == [Work[This] EXCEPT ![Ctx.Pos] = u]
<1>4. u \in Works
  <2>1. result.i \in Nat
    BY DEF Recursion, TypeOK, EnumerationResults
  <2> QED  BY <1>1, <1>2, <2>1 DEF Works, SubsetWorks, TransformWorks
<1> HIDE DEF u
<1>5. w \in Seq(Works) /\ DOMAIN w = DOMAIN Work[This]
  BY <1>2, <1>3, <1>4, ExceptSeq
<1>6. SetWork(w)
  <2>1. w = [Work[This] EXCEPT ![Ctx.Pos].AR = result.AR, ![Ctx.Pos].i = result.i]
    BY <1>2, <1>3 DEF w, u, Cur
  <2> QED  BY <2>1 DEF InlineSubset
<1> HIDE DEF w
<1>7. SuspendedKept /\ Work' \in [ARs -> Seq(Works)] /\ Work'[This] = w
  BY <1>1, <1>5, <1>6, SetWorkKept
<1>8. Subsets' \in [ARs -> SUBSET ARs]
  BY <1>1, <1>3, NoteSubsetType DEF InlineSubset
<1>9. Ctx.Pos \in DOMAIN Work'[This]
  BY <1>2, <1>5, <1>7
<1> QED  BY <1>1, <1>7, <1>8, <1>9, KeepStackRecursion DEF InlineSubset, Goto

(* The work at Pos is erased and the next work is run. *)
LEMMA EraseRecursion ==
    ASSUME Recursion, Returned(result.type), EraseCur, Goto("run"),
           UNCHANGED <<sys, Set, Subsets, EnumerationDepth, stack, cursor>>
    PROVE  Recursion'
<1>1. stack # <<>> /\ pc = "return"
  BY DEF Returned
<1>2. Ctx.Pos \in 1 .. Len(Work[This])
  BY <1>1, CurType
<1>3. SuspendedKept /\ Work' \in [ARs -> Seq(Works)]
  BY <1>1, <1>2, EraseCurKept
<1> QED  BY <1>1, <1>3, KeepStackRecursion DEF Goto, Recursion, TypeOK

LEMMA SkipRetriedRecursion ==
    ASSUME Recursion, SkipRetried
    PROVE  Recursion'
<1>1. stack # <<>> /\ result.AR \in ARs /\ pc = "return" /\ SuspendedKept
  BY SameWorkKept DEF Recursion, ControlOK, SkipRetried, Returned
<1>2. Ctx \in Contexts
  BY <1>1, TopFrame
<1> DEFINE point == CancellationPoint(Ctx.Retry, result.AR)
           c == [Ctx EXCEPT !.Pos = @ + 1, !.Retry = point]
<1>3. point \in ARs \cup {NoAR}
  BY <1>1, <1>2 DEF CancellationPoint, Contexts
<1>4. c \in Contexts /\ c.AR = Ctx.AR /\ c.LTD = Ctx.LTD
  <2> HIDE DEF point
  <2>1. Ctx.Pos + 1 \in Nat \ {0}
    BY <1>2 DEF Contexts
  <2> QED  BY <1>2, <1>3, <2>1 DEF Contexts
<1>5. stack' = [stack EXCEPT ![Len(stack)] = c]
  <2>1. stack \in Seq(Contexts) /\ Len(stack) \in DOMAIN stack
    BY <1>1, TopFrame DEF Recursion, TypeOK
  <2> QED  BY <2>1 DEF SkipRetried, Ctx
<1> HIDE DEF c
<1> QED  BY <1>1, <1>4, <1>5, EditRecursion DEF SkipRetried, Goto, Recursion, TypeOK

(* The rewrite target is another AR that is being enumerated. *)
LEMMA SetPosRecursion ==
    ASSUME Recursion, stack # <<>>, SuspendedKept, NEW p \in Nat \ {0}, SetPos(p),
           pc' = "rewrite", result' = result, result.type = "REWRITE",
           Work' \in [ARs -> Seq(Works)],
           Subsets' \in [ARs -> SUBSET ARs],
           UNCHANGED <<sys, Set, EnumerationDepth, cursor>>
    PROVE  Recursion'
<1>1. Ctx \in Contexts
  BY TopFrame
<1> DEFINE c == [Ctx EXCEPT !.Pos = p]
<1>2. c \in Contexts /\ c.AR = Ctx.AR /\ c.LTD = Ctx.LTD
  BY <1>1 DEF Contexts
<1>3. stack' = [stack EXCEPT ![Len(stack)] = c]
  BY DEF SetPos, Ctx
<1> HIDE DEF c
<1> QED  BY <1>2, <1>3, EditRecursion

LEMMA RewriteBeginRecursion ==
    ASSUME Recursion, RewriteBegin
    PROVE  Recursion'
<1>1. stack # <<>> /\ pc = "return" /\ result.type = "REWRITE" /\ EraseCur
  BY DEF RewriteBegin, Returned
<1>2. Ctx.Pos \in 1 .. Len(Work[This])
  BY <1>1, CurType
<1>3. SuspendedKept /\ Work' \in [ARs -> Seq(Works)]
  BY <1>1, <1>2, EraseCurKept
<1>4. SetPos(1) /\ pc' = "rewrite" /\ UNCHANGED <<sys, Set, Subsets, EnumerationDepth, cursor, result>>
  BY DEF RewriteBegin
<1>5. 1 \in Nat \ {0} /\ Subsets' \in [ARs -> SUBSET ARs]
  BY <1>4 DEF Recursion, TypeOK
<1> QED  BY <1>1, <1>3, <1>4, <1>5, SetPosRecursion

LEMMA RewriteKeepRecursion ==
    ASSUME Recursion, RewriteKeep
    PROVE  Recursion'
<1>1. /\ stack # <<>>
      /\ pc = "rewrite"
      /\ result.type = "REWRITE"
      /\ result.AR \in ARs
      /\ SuspendedKept
  BY SameWorkKept DEF Recursion, ControlOK, RewriteKeep
<1>2. Cur.AR \in ARs
  BY <1>1, CurType DEF RewriteKeep
<1>3. Subsets' \in [ARs -> SUBSET ARs]
  <2>1. CASE IsSubset(Cur)
    BY <1>1, <1>2, <2>1, NoteSubsetType DEF RewriteKeep
  <2>2. CASE ~IsSubset(Cur)
    BY <2>2 DEF RewriteKeep, Recursion, TypeOK
  <2> QED  BY <2>1, <2>2
<1>4. Ctx.Pos + 1 \in Nat \ {0}
  <2>1. Ctx \in Contexts
    BY <1>1, TopFrame
  <2> QED  BY <2>1 DEF Contexts
<1> QED  BY <1>1, <1>3, <1>4, SetPosRecursion DEF RewriteKeep, Recursion, TypeOK

LEMMA RewriteDropRecursion ==
    ASSUME Recursion, RewriteDrop
    PROVE  Recursion'
<1>1. stack # <<>> /\ pc = "rewrite" /\ result.type = "REWRITE" /\ EraseCur
  BY DEF Recursion, ControlOK, RewriteDrop
<1>2. Ctx.Pos \in 1 .. Len(Work[This])
  BY <1>1, CurType DEF RewriteDrop
<1>3. SuspendedKept /\ Work' \in [ARs -> Seq(Works)]
  BY <1>1, <1>2, EraseCurKept
<1> QED  BY <1>1, <1>3, KeepStackRecursion DEF RewriteDrop, Recursion, TypeOK

(* The splice puts the work at the end of the target's list, so that every *)
(* position in that list stays what it was.                                *)
LEMMA RewriteSpliceKept ==
    ASSUME Recursion, RewriteSplice
    PROVE  /\ stack # <<>>
           /\ SuspendedKept
           /\ Work' \in [ARs -> Seq(Works)]
<1>1. /\ stack # <<>>
      /\ pc = "rewrite"
      /\ result.type = "REWRITE"
      /\ result.AR \in ARs
  BY DEF Recursion, TypeOK, ControlOK, RewriteSplice
<1>2. PICK n \in Nat : /\ n >= 1
                       /\ Len(stack) = n
                       /\ This \in ARs
                       /\ Work[This] \in Seq(Works)
                       /\ \A k \in 1 .. n - 1 : /\ stack[k].AR \in ARs
                                                /\ stack[k].AR # This
                                                /\ stack[k].Pos \in DOMAIN Work[stack[k].AR]
  BY <1>1, TopFrame
<1> DEFINE t == result.AR
           l == Work[t] \o Work[This]
           one == <<SubsetWork(t)>>
<1>3. Work \in [ARs -> Seq(Works)] /\ Work[t] \in Seq(Works)
  BY <1>1 DEF Recursion, TypeOK
<1>4. /\ l \in Seq(Works)
      /\ Len(l) = Len(Work[t]) + Len(Work[This])
      /\ \A j \in 1 .. Len(Work[t]) + Len(Work[This]) :
           l[j] = IF j <= Len(Work[t]) THEN Work[t][j] ELSE Work[This][j - Len(Work[t])]
  BY <1>2, <1>3, ConcatProperties
<1>5. one \in Seq(Works)
  BY <1>1 DEF SubsetWork, Works, SubsetWorks
<1>6. Work' = [Work EXCEPT ![t] = l, ![This] = one]
  BY DEF RewriteSplice
<1> HIDE DEF l, one
<1>7. Work' \in [ARs -> Seq(Works)]
  BY <1>1, <1>2, <1>3, <1>4, <1>5, <1>6
<1>8. PICK m \in Nat, r \in Nat : Len(Work[t]) = m /\ DOMAIN Work[t] = 1 .. m /\ Len(Work[This]) = r
  BY <1>2, <1>3, LenProperties
<1>9. DOMAIN l = 1 .. m + r /\ \A j \in 1 .. m : l[j] = Work[t][j]
  <2>1. DOMAIN l = 1 .. m + r
    BY <1>4, <1>8, LenProperties
  <2>2. ASSUME NEW j \in 1 .. m
        PROVE  l[j] = Work[t][j]
    <3>1. j \in 1 .. m + r /\ j <= m
      BY <1>8
    <3> QED  BY <1>4, <1>8, <3>1
  <2> QED  BY <2>1, <2>2
<1>10. SuspendedKept
  <2> SUFFICES ASSUME NEW k \in 1 .. n - 1
               PROVE  RunningKept(k)
    BY <1>2 DEF SuspendedKept
  <2>1. CASE stack[k].AR = t
    <3>1. Work'[stack[k].AR] = l
      BY <1>1, <1>2, <1>3, <1>6, <2>1
    <3>2. stack[k].Pos \in 1 .. m
      BY <1>2, <1>8, <2>1
    <3>3. stack[k].Pos \in DOMAIN l /\ l[stack[k].Pos] = Work[t][stack[k].Pos]
      BY <1>8, <1>9, <3>2
    <3> QED  BY <2>1, <3>1, <3>3 DEF RunningKept, Running
  <2>2. CASE stack[k].AR # t
    <3>1. Work'[stack[k].AR] = Work[stack[k].AR]
      BY <1>2, <1>3, <1>6, <2>2
    <3> QED  BY <1>2, <3>1 DEF RunningKept, Running
  <2> QED  BY <2>1, <2>2
<1> QED  BY <1>1, <1>7, <1>10

LEMMA RewriteSpliceRecursion ==
    ASSUME Recursion, RewriteSplice
    PROVE  Recursion'
<1>1. /\ pc = "rewrite"
      /\ result.type = "REWRITE"
      /\ result.AR \in ARs
      /\ result \in EnumerationResults
  BY DEF Recursion, TypeOK, ControlOK, RewriteSplice
<1> QED  BY <1>1, RewriteSpliceKept, LeaveRecursion DEF RewriteSplice, Recursion, TypeOK

-----------------------------------------------------------------------------
LEMMA InitRecursion ==
    ASSUME Init
    PROVE  Recursion
<1>1. sys \in EquationSystems
  BY SystemsAssumption DEF Init, StartsFrom
<1>2. stack = <<>> /\ Len(stack) = 0
  BY EmptySeq DEF Init, StartsFrom
<1>3. Subsets \in [ARs -> SUBSET ARs]
  <2>1. ASSUME NEW a \in ARs
        PROVE  {w.AR : w \in {u \in ToSet(sys.work[a]) : IsSubset(u)}} \in SUBSET ARs
    <3>1. sys.work[a] \in Seq(Works)
      BY <1>1 DEF EquationSystems
    <3>2. ToSet(sys.work[a]) \subseteq Works
      BY <3>1, LenProperties, ElementOfSeq DEF ToSet
    <3> QED  BY <3>2 DEF Works, SubsetWorks, TransformWorks
  <2> QED  BY <2>1 DEF Init, StartsFrom
<1>4. TypeOK
  <2>1. stack \in Seq(Contexts)
    BY <1>2, EmptySeq
  <2>2. cursor \in Enumerators /\ result \in EnumerationResults
    BY DEF Init, StartsFrom, Nobody, Enumerators, NoResult, EnumerationResults, ResultTypes
  <2> QED  BY <1>1, <1>3, <2>1, <2>2 DEF Init, StartsFrom, TypeOK, EquationSystems
<1>5. ControlOK
  BY DEF Init, StartsFrom, ControlOK, NoResult
<1>6. IteratorsValid
  BY <1>2 DEF IteratorsValid
<1>7. DepthsMirrorStack
  BY <1>2 DEF Init, StartsFrom, DepthsMirrorStack
<1> QED  BY <1>4, <1>5, <1>6, <1>7 DEF Recursion

LEMMA NextRecursion ==
    ASSUME Recursion, [Next]_vars
    PROVE  Recursion'
<1>1. CASE Enter
  BY <1>1, EnterRewriteRecursion, EnterCachedRecursion, EnterRetryRecursion, EnterRunRecursion
     DEF Enter
<1>2. CASE Run
  BY <1>2, RunInlineRecursion, RunRecurseRecursion, EndCompleteRecursion,
     EndCancelRetryRecursion, EndRetryRecursion
     DEF Run
<1>3. CASE Handle
  <2>1. CASE AddNewValue \/ SkipKnownValue
    BY <2>1, AddNewValueRecursion, SkipKnownValueRecursion
  <2>2. CASE TransformToNothing \/ TransformToSubset
    BY <2>2, TransformToNothingRecursion, TransformToSubsetRecursion
  <2>3. CASE InlineSubset
    BY <2>3, InlineSubsetRecursion
  <2>4. CASE DropInlined \/ EraseCompleted \/ RewriteHere
    BY <2>4, EraseRecursion DEF DropInlined, EraseCompleted, RewriteHere, Returned
  <2>5. CASE SkipRetried
    BY <2>5, SkipRetriedRecursion
  <2>6. CASE RewriteBegin \/ RewriteKeep \/ RewriteDrop \/ RewriteSplice
    BY <2>6, RewriteBeginRecursion, RewriteKeepRecursion, RewriteDropRecursion,
       RewriteSpliceRecursion
  <2> QED  BY <1>3, <2>1, <2>2, <2>3, <2>4, <2>5, <2>6 DEF Handle
<1>4. CASE Answer
  BY <1>4, AnswerRecursion
<1>5. CASE \E a \in ARs : \E i \in 0 .. Len(Set[a]) : Query(a, i)
  BY <1>5, QueryRecursion
<1>6. CASE UNCHANGED vars
  BY <1>6 DEF vars, Recursion, TypeOK, ControlOK, IteratorsValid, DepthsMirrorStack, Running
<1> QED  BY <1>1, <1>2, <1>3, <1>4, <1>5, <1>6 DEF Next, Step

LEMMA RecursionInvariant == Spec => []Recursion
<1>1. Init => Recursion
  BY InitRecursion
<1>2. Recursion /\ [Next]_vars => Recursion'
  BY NextRecursion
<1> QED  BY <1>1, <1>2, PTL DEF Spec

(* The variables keep their types: AnalysisResult::enumerate never hands   *)
(* on a null AR or a null value as if it were one.                         *)
THEOREM TypeCorrect == Spec => []TypeOK
<1>1. Recursion => TypeOK
  BY DEF Recursion
<1> QED  BY <1>1, RecursionInvariant, PTL

(* Whatever an activation of AnalysisResult::enumerate erases, inserts or  *)
(* splices, the std::list iterators that the suspended activations below   *)
(* it hold stay valid and keep denoting the work they run.                 *)
THEOREM IteratorsStayValid == Spec => []IteratorsValid
<1>1. Recursion => IteratorsValid
  BY DEF Recursion
<1> QED  BY <1>1, RecursionInvariant, PTL

(* EnumerationDepth and LastTransformDepth, which decide between running,  *)
(* retrying and rewriting, always describe the real recursion.             *)
THEOREM DepthsDescribeRecursion == Spec => []DepthsMirrorStack
<1>1. Recursion => DepthsMirrorStack
  BY DEF Recursion
<1> QED  BY <1>1, RecursionInvariant, PTL

-----------------------------------------------------------------------------
(* The inductive invariant. *)

(* The outermost activation works for the client's enumerator. *)
RootIsCursor == stack # <<>> => stack[1].AR = cursor.AR

(* What the depths that were passed to the activation that returned tell   *)
(* of its result: an INLINE goes to an activation below which there is     *)
(* another before the nearest transform, and a REWRITE to one with the     *)
(* target at or below it and no transform in between.                      *)
ResultRouted ==
    /\ pc = "return" =>
          /\ result.type # "NONE"
          /\ result.type = "INLINE" => CalleeLTD < Depth
          /\ result.type = "RETRY" => EnumerationDepth[result.AR] \in Nat
          /\ result.type = "REWRITE" => CalleeLTD < EnumerationDepth[result.AR]
    /\ pc = "rewrite" => result.AR # This /\ Ctx.LTD < EnumerationDepth[result.AR]

(* No activation has to retry at one above it. *)
RetriesBelow ==
    \A k \in 1 .. Len(stack) :
        stack[k].Retry # NoAR => EnumerationDepth[stack[k].Retry] \in 0 .. k - 1

(* An activation has passed over work exactly if it has work to retry. *)
RetriedPassed ==
    /\ \A k \in 1 .. Len(stack) :
          k < Len(stack) \/ pc # "rewrite" => (stack[k].Retry = NoAR <=> stack[k].Pos = 1)
    /\ pc = "run" => Ctx.Pos <= Len(Work[This]) + 1

Routing == RootIsCursor /\ ResultRouted /\ RetriesBelow /\ RetriedPassed

-----------------------------------------------------------------------------
(* Steps within the innermost activation. *)

(* The stack and the depths stay, and control goes on to work or a callee. *)
LEMMA StayRouting ==
    ASSUME Recursion, Routing, stack # <<>>, pc # "rewrite",
           pc' \in {"call", "run"},
           pc' = "run" => Ctx.Pos <= Len(Work'[This]) + 1,
           UNCHANGED <<stack, EnumerationDepth, cursor>>
    PROVE  Routing'
<1>1. RootIsCursor' /\ RetriesBelow'
  BY DEF Routing, RootIsCursor, RetriesBelow
<1>2. ResultRouted'
  BY DEF ResultRouted
<1>3. RetriedPassed'
  BY DEF Routing, RetriedPassed, Ctx, This
<1> QED  BY <1>1, <1>2, <1>3 DEF Routing

(* An activation that handles a result is not past the end of its list. *)
LEMMA PosInList ==
    ASSUME Recursion, stack # <<>>, pc = "run" \/ pc = "rewrite" => ~AtEnd
    PROVE  \E m \in Nat, p \in Nat : /\ Len(Work[This]) = m
                                     /\ Ctx.Pos = p
                                     /\ 1 <= p /\ p <= m
                                     /\ Work[This] # <<>>
<1>1. Ctx.Pos \in 1 .. Len(Work[This]) /\ Work[This] \in Seq(Works)
  BY CurType, TopFrame
<1>2. PICK m \in Nat : Len(Work[This]) = m
  BY <1>1, LenProperties
<1>3. Work[This] # <<>>
  BY <1>1, <1>2, EmptySeq
<1> QED  BY <1>1, <1>2, <1>3

LEMMA EraseRouting ==
    ASSUME Recursion, Routing, Returned(result.type), EraseCur, Goto("run"),
           UNCHANGED <<EnumerationDepth, stack, cursor>>
    PROVE  Routing'
<1>1. stack # <<>> /\ pc = "return"
  BY DEF Returned
<1>2. PICK m \in Nat, p \in Nat : Len(Work[This]) = m /\ Ctx.Pos = p /\ 1 <= p /\ p <= m
  BY <1>1, PosInList
<1>3. This \in ARs /\ Work[This] \in Seq(Works) /\ Work \in [ARs -> Seq(Works)]
  BY <1>1, TopFrame DEF Recursion, TypeOK
<1>4. Len(RemoveAt(Work[This], Ctx.Pos)) = m - 1
  BY <1>2, <1>3, RemoveAtProperties
<1>5. Len(Work'[This]) = m - 1
  BY <1>3, <1>4 DEF EraseCur, SetWork
<1> QED  BY <1>1, <1>2, <1>5, StayRouting DEF Goto

LEMMA HandleRouting ==
    ASSUME Recursion, Routing,
           \/ RunRecurse \/ SkipKnownValue \/ TransformToNothing \/ TransformToSubset
           \/ InlineSubset \/ DropInlined \/ EraseCompleted \/ RewriteHere
    PROVE  Routing'
<1>1. CASE RunRecurse
  <2>1. stack # <<>> /\ pc # "rewrite" /\ pc' = "call"
    BY <1>1 DEF RunRecurse, Goto, Recursion, ControlOK
  <2> QED  BY <1>1, <2>1, StayRouting DEF RunRecurse
<1>2. CASE SkipKnownValue
  <2>1. stack # <<>> /\ pc = "return" /\ pc' = "run"
    BY <1>2 DEF SkipKnownValue, Returned, Goto
  <2>2. PICK m \in Nat, p \in Nat : Len(Work[This]) = m /\ Ctx.Pos = p /\ 1 <= p /\ p <= m
    BY <2>1, PosInList
  <2>3. Ctx.Pos <= Len(Work'[This]) + 1
    BY <1>2, <2>2 DEF SkipKnownValue
  <2> QED  BY <1>2, <2>1, <2>3, StayRouting DEF SkipKnownValue
<1>3. CASE TransformToNothing \/ InlineSubset
  <2>1. stack # <<>> /\ pc # "rewrite" /\ pc' = "call" /\ UNCHANGED <<stack, EnumerationDepth, cursor>>
    BY <1>3 DEF TransformToNothing, InlineSubset, Returned, Goto
  <2> QED  BY <2>1, StayRouting
<1>4. CASE TransformToSubset
  <2>1. stack # <<>> /\ pc = "return" /\ pc' = "run"
    BY <1>4 DEF TransformToSubset, Returned, Goto
  <2>2. PICK m \in Nat, p \in Nat : Len(Work[This]) = m /\ Ctx.Pos = p /\ 1 <= p /\ p <= m
    BY <2>1, PosInList
  <2>3. This \in ARs /\ Work[This] \in Seq(Works) /\ Work \in [ARs -> Seq(Works)]
    BY <2>1, TopFrame DEF Recursion, TypeOK
  <2>4. SubsetWork(Analyzed) \in Works
    BY <1>4, TransformedType DEF TransformToSubset
  <2>5. Len(InsertAt(Work[This], Ctx.Pos, SubsetWork(Analyzed))) = m + 1
    <3>1. Ctx.Pos \in 1 .. Len(Work[This])
      BY <2>2
    <3> QED  BY <2>2, <2>3, <2>4, <3>1, InsertAtProperties
  <2>6. Len(Work'[This]) = m + 1
    BY <1>4, <2>3, <2>5 DEF TransformToSubset, SetWork
  <2> QED  BY <1>4, <2>1, <2>2, <2>6, StayRouting DEF TransformToSubset
<1>5. CASE DropInlined \/ EraseCompleted \/ RewriteHere
  BY <1>5, EraseRouting DEF DropInlined, EraseCompleted, RewriteHere, Returned
<1> QED  BY <1>1, <1>2, <1>3, <1>4, <1>5

-----------------------------------------------------------------------------
(* Steps that enter an activation, or answer for it. *)

(* The depths passed to a callee are those of the innermost activation. *)
LEMMA SameDepths ==
    ASSUME UNCHANGED <<stack, Work, cursor>>
    PROVE  CalleeLTD' = CalleeLTD /\ Callee' = Callee /\ Depth' = Depth
BY DEF CalleeLTD, Callee, Depth, Cur, This, Ctx, IsTransform

LEMMA EnterRouting ==
    ASSUME Recursion, Routing, EnterRewrite \/ EnterRetry \/ EnterCached
    PROVE  Routing'
<1>1. /\ pc = "call" /\ pc' = "return"
      /\ cursor'.AR = cursor.AR
      /\ UNCHANGED <<stack, EnumerationDepth>>
  <2>1. CASE EnterRewrite \/ EnterRetry
    BY <2>1 DEF EnterRewrite, EnterRetry, Return
  <2>2. CASE EnterCached
    <3>1. CASE stack = <<>>
      <4>1. cursor' = [cursor EXCEPT !.i = @ + 1] /\ cursor \in Enumerators
        BY <2>2, <3>1 DEF EnterCached, Advance, Recursion, TypeOK
      <4> QED  BY <2>2, <4>1 DEF EnterCached, Return, Enumerators
    <3>2. CASE stack # <<>>
      BY <2>2, <3>2 DEF EnterCached, Advance, Return
    <3> QED  BY <3>1, <3>2
  <2> QED  BY <2>1, <2>2
<1>2. RootIsCursor' /\ RetriesBelow'
  BY <1>1 DEF Routing, RootIsCursor, RetriesBelow
<1>3. RetriedPassed'
  BY <1>1 DEF Routing, RetriedPassed
<1>4. ResultRouted'
  <2>1. CASE EnterRewrite
    <3>1. CalleeLTD' = CalleeLTD /\ CalleeLTD < EnumerationDepth[Callee.AR]
      BY <2>1, SameDepths DEF EnterRewrite, IsRewrite
    <3>2. result' = Rewrite(Callee.AR)
      BY <2>1 DEF EnterRewrite, Return
    <3> QED  BY <1>1, <3>1, <3>2 DEF Rewrite, ResultRouted
  <2>2. CASE EnterRetry
    <3>1. Callee.AR \in ARs
      BY <2>2, CalleeType DEF EnterRetry
    <3>2. EnumerationDepth[Callee.AR] \in Nat
      BY <2>2, <3>1 DEF EnterRetry, isEnumerating, Recursion, TypeOK
    <3>3. result' = Retry(Callee.AR)
      BY <2>2 DEF EnterRetry, Return
    <3> QED  BY <1>1, <3>2, <3>3 DEF Retry, ResultRouted
  <2>3. CASE EnterCached
    <3>1. result'.type = "NEXT_VALUE"
      BY <2>3 DEF EnterCached, Return, NextValue
    <3> QED  BY <1>1, <3>1 DEF ResultRouted
  <2> QED  BY <2>1, <2>2, <2>3
<1> QED  BY <1>2, <1>3, <1>4 DEF Routing

LEMMA EnterRunRouting ==
    ASSUME Recursion, Routing, EnterRun
    PROVE  Routing'
<1>1. PICK n \in Nat : /\ Len(stack) = n
                       /\ stack = <<>> <=> n = 0
                       /\ \A k \in 1 .. n : stack[k] \in Contexts
  BY StackLen DEF Recursion
<1>2. Callee.AR \in ARs
  BY CalleeType DEF EnterRun
<1> DEFINE new == [AR |-> Callee.AR, LTD |-> CalleeLTD, Pos |-> 1, Retry |-> NoAR]
<1>3. /\ pc = "call" /\ pc' = "run"
      /\ EnumerationDepth' = [EnumerationDepth EXCEPT ![Callee.AR] = n]
      /\ ~(EnumerationDepth[Callee.AR] >= 0)
      /\ stack' = Append(stack, new)
      /\ UNCHANGED <<Work, cursor>>
  BY <1>1 DEF EnterRun, Goto, isEnumerating
<1>4. new.AR = Callee.AR /\ new.Pos = 1 /\ new.Retry = NoAR
  OBVIOUS
<1>5. new \in Contexts
  <2>1. CalleeLTD \in Nat \cup {-1}
    <3>1. stack # <<>> => Ctx \in Contexts /\ Depth \in Nat
      BY TopFrame
    <3> QED  BY <3>1 DEF CalleeLTD, Contexts
  <2> QED  BY <1>2, <2>1 DEF Contexts
<1> HIDE DEF new
<1>6. /\ Len(stack') = n + 1
      /\ \A k \in 1 .. n : stack'[k] = stack[k]
      /\ stack'[n + 1] = new
  BY <1>1, <1>3, <1>5, AppendProperties DEF Recursion, TypeOK
<1>7. RootIsCursor'
  <2>1. CASE n = 0
    BY <1>1, <1>3, <1>4, <1>6, <2>1 DEF RootIsCursor, Callee
  <2>2. CASE n # 0
    <3>1. 1 \in 1 .. n
      BY <2>2
    <3> QED  BY <1>1, <1>3, <1>6, <2>2, <3>1 DEF Routing, RootIsCursor
  <2> QED  BY <2>1, <2>2
<1>8. ResultRouted'
  BY <1>3 DEF ResultRouted
<1>9. RetriesBelow'
  <2> SUFFICES ASSUME NEW k \in 1 .. n + 1, stack'[k].Retry # NoAR
               PROVE  EnumerationDepth'[stack'[k].Retry] \in 0 .. k - 1
    BY <1>6 DEF RetriesBelow
  <2>1. k \in 1 .. n
    BY <1>4, <1>6
  <2>2. EnumerationDepth[stack[k].Retry] \in 0 .. k - 1 /\ stack[k].Retry \in ARs
    BY <1>1, <1>6, <2>1 DEF Routing, RetriesBelow, Contexts
  <2>3. stack[k].Retry # Callee.AR
    BY <1>3, <2>2
  <2> QED  BY <1>3, <1>6, <2>1, <2>2, <2>3 DEF Recursion, TypeOK
<1>10. RetriedPassed'
  <2>1. \A k \in 1 .. n + 1 : stack'[k].Retry = NoAR <=> stack'[k].Pos = 1
    <3> TAKE k \in 1 .. n + 1
    <3>1. CASE k \in 1 .. n
      BY <1>1, <1>3, <1>6, <3>1 DEF Routing, RetriedPassed
    <3>2. CASE k = n + 1
      BY <1>4, <1>6, <3>2
    <3> QED  BY <3>1, <3>2
  <2>2. Ctx'.Pos = 1 /\ This' = Callee.AR
    BY <1>4, <1>6 DEF Ctx, This
  <2>3. Len(Work'[Callee.AR]) \in Nat
    BY <1>2, <1>3, LenProperties DEF Recursion, TypeOK
  <2> QED  BY <1>6, <2>1, <2>2, <2>3 DEF RetriedPassed
<1> QED  BY <1>7, <1>8, <1>9, <1>10 DEF Routing

-----------------------------------------------------------------------------
(* Steps that return from the innermost activation. *)

LEMMA LeaveKept ==
    ASSUME Recursion,
           RunInline \/ EndComplete \/ EndCancelRetry \/ EndRetry \/ AddNewValue \/ RewriteSplice
    PROVE  stack # <<>> /\ SuspendedKept /\ cursor'.AR = cursor.AR
<1>1. CASE RunInline \/ EndComplete \/ EndRetry
  <2>1. stack # <<>> /\ Work' = Work /\ cursor' = cursor
    BY <1>1 DEF RunInline, EndComplete, EndRetry, Recursion, ControlOK
  <2> QED  BY <2>1, SameWorkKept
<1>2. CASE EndCancelRetry
  <2>1. stack # <<>> /\ SetWork(<<>>) /\ cursor' = cursor /\ <<>> \in Seq(Works)
    BY <1>2, EmptySeq DEF EndCancelRetry, Recursion, ControlOK
  <2> QED  BY <2>1, SetWorkKept
<1>3. CASE AddNewValue
  BY <1>3, AddNewValueKept
<1>4. CASE RewriteSplice
  BY <1>4, RewriteSpliceKept DEF RewriteSplice
<1> QED  BY <1>1, <1>2, <1>3, <1>4

(* The activation that gets the result called this one, with the depths    *)
(* that it had.                                                            *)
LEMMA AfterLeave ==
    ASSUME Recursion, RootIsCursor, stack # <<>>, SuspendedKept,
           stack' = Front(stack), cursor'.AR = cursor.AR
    PROVE  \E n \in Nat : /\ n >= 1
                          /\ Len(stack) = n
                          /\ Len(stack') = n - 1
                          /\ stack' = <<>> <=> n = 1
                          /\ \A k \in 1 .. n - 1 : stack'[k] = stack[k]
                          /\ Depth' = n - 2
                          /\ CalleeLTD' = Ctx.LTD
                          /\ Callee'.AR = This
<1>1. PICK n \in Nat : n >= 1 /\ Len(stack) = n /\ Ctx = stack[n] /\ This = stack[n].AR
  BY TopFrame
<1>2. /\ stack' \in Seq(Contexts)
      /\ Len(stack') = n - 1
      /\ \A k \in 1 .. n - 1 : stack'[k] = stack[k]
  BY <1>1, FrontProperties DEF Recursion, TypeOK
<1>3. stack' = <<>> <=> n = 1
  BY <1>1, <1>2, EmptySeq
<1>4. Depth' = n - 2
  BY <1>1, <1>2 DEF Depth
<1>5. stack[n].LTD = IF n = 1 THEN -1
                     ELSE IF IsTransform(Running(n - 1)) THEN n - 2
                     ELSE stack[n - 1].LTD
  BY <1>1 DEF Recursion, DepthsMirrorStack
<1>6. CASE n = 1
  <2>1. CalleeLTD' = -1 /\ Callee' = cursor'
    BY <1>3, <1>6 DEF CalleeLTD, Callee
  <2>2. This = cursor.AR
    BY <1>1, <1>6 DEF RootIsCursor
  <2> QED  BY <1>1, <1>2, <1>3, <1>4, <1>5, <1>6, <2>1, <2>2
<1>7. CASE n # 1
  <2>1. n - 1 \in 1 .. Len(stack) - 1 /\ n - 1 \in 1 .. Len(stack)
    BY <1>1, <1>7
  <2>2. Ctx' = stack[n - 1] /\ Cur' = Work'[stack[n - 1].AR][stack[n - 1].Pos]
    BY <1>1, <1>2, <2>1 DEF Ctx, Cur, This
  <2>3. Cur'.AR = Running(n - 1).AR /\ Cur'.kind = Running(n - 1).kind
    BY <2>1, <2>2 DEF SuspendedKept, RunningKept
  <2>4. Running(n - 1).AR = stack[n].AR
    BY <1>1, <2>1 DEF Recursion, IteratorsValid
  <2>5. Callee'.AR = This
    BY <1>1, <1>3, <1>7, <2>3, <2>4 DEF Callee
  <2>6. CalleeLTD' = IF IsTransform(Cur') THEN n - 2 ELSE stack[n - 1].LTD
    BY <1>3, <1>4, <1>7, <2>2 DEF CalleeLTD
  <2>7. IsTransform(Cur') <=> IsTransform(Running(n - 1))
    BY <2>3 DEF IsTransform
  <2> QED  BY <1>1, <1>2, <1>3, <1>4, <1>5, <1>7, <2>5, <2>6, <2>7
<1> QED  BY <1>6, <1>7

LEMMA LeaveRouting ==
    ASSUME Recursion, Routing, stack # <<>>, SuspendedKept, cursor'.AR = cursor.AR,
           NEW er, Leave(er), er.type # "NONE",
           er.type = "INLINE" => Ctx.LTD < Depth - 1,
           er.type = "RETRY" => er.AR \in ARs \ {This} /\ EnumerationDepth[er.AR] \in Nat,
           er.type = "REWRITE" => er.AR \in ARs \ {This} /\ Ctx.LTD < EnumerationDepth[er.AR]
    PROVE  Routing'
<1>1. /\ stack' = Front(stack)
      /\ EnumerationDepth' = [EnumerationDepth EXCEPT ![This] = -1]
      /\ pc' = "return" /\ result' = er
  BY DEF Leave, Return
<1>2. PICK n \in Nat : /\ n >= 1
                       /\ Len(stack) = n
                       /\ Len(stack') = n - 1
                       /\ stack' = <<>> <=> n = 1
                       /\ \A k \in 1 .. n - 1 : stack'[k] = stack[k]
                       /\ Depth' = n - 2
                       /\ CalleeLTD' = Ctx.LTD
  BY <1>1, AfterLeave DEF Routing
<1>3. Depth = n - 1 /\ EnumerationDepth[This] = n - 1 /\ EnumerationDepth \in [ARs -> Nat \cup {-1}]
  BY <1>2, TopFrame DEF Recursion, TypeOK
<1>4. \A a \in ARs \ {This} : EnumerationDepth'[a] = EnumerationDepth[a]
  BY <1>1, <1>3
<1>5. RootIsCursor'
  BY <1>2 DEF Routing, RootIsCursor
<1>6. ResultRouted'
  <2>1. er.type = "INLINE" => Ctx.LTD < n - 2
    BY <1>3
  <2> QED  BY <1>1, <1>2, <1>4, <2>1 DEF ResultRouted
<1>7. RetriesBelow'
  <2> SUFFICES ASSUME NEW k \in 1 .. n - 1, stack[k].Retry # NoAR
               PROVE  EnumerationDepth'[stack[k].Retry] \in 0 .. k - 1
    BY <1>2 DEF RetriesBelow
  <2>1. EnumerationDepth[stack[k].Retry] \in 0 .. k - 1
    BY <1>2 DEF Routing, RetriesBelow
  <2>2. stack[k].Retry \in ARs
    BY <1>2, TopFrame DEF Contexts
  <2>3. stack[k].Retry # This
    BY <1>3, <2>1
  <2> QED  BY <1>4, <2>1, <2>2, <2>3
<1>8. RetriedPassed'
  BY <1>1, <1>2 DEF Routing, RetriedPassed
<1> QED  BY <1>5, <1>6, <1>7, <1>8 DEF Routing

LEMMA ReturnRouting ==
    ASSUME Recursion, Routing,
           RunInline \/ EndComplete \/ EndCancelRetry \/ EndRetry \/ AddNewValue \/ RewriteSplice
    PROVE  Routing'
<1>1. stack # <<>> /\ SuspendedKept /\ cursor'.AR = cursor.AR
  BY LeaveKept
<1>2. PICK n \in Nat : /\ n >= 1
                       /\ Len(stack) = n
                       /\ Ctx = stack[n]
                       /\ Ctx \in Contexts
                       /\ Depth = n - 1
                       /\ EnumerationDepth[This] = n - 1
  BY <1>1, TopFrame
<1>3. CASE RunInline
  <2>1. Leave(Inline(Cur)) /\ Ctx.LTD < Depth - 1
    BY <1>2, <1>3 DEF RunInline, canInline, Contexts
  <2>2. Inline(Cur).type = "INLINE"
    BY DEF Inline
  <2> QED  BY <1>1, <2>1, <2>2, LeaveRouting
<1>4. CASE EndComplete \/ EndCancelRetry
  <2>1. Leave(Complete) /\ Complete.type = "COMPLETE"
    BY <1>4 DEF EndComplete, EndCancelRetry, Complete
  <2> QED  BY <1>1, <2>1, LeaveRouting
<1>5. CASE EndRetry
  <2>1. Leave(Retry(Ctx.Retry)) /\ Ctx.Retry \in ARs \ {This}
    BY <1>2, <1>5 DEF EndRetry, Contexts
  <2>2. EnumerationDepth[Ctx.Retry] \in Nat
    BY <1>2, <1>5 DEF EndRetry, Routing, RetriesBelow
  <2>3. Retry(Ctx.Retry).type = "RETRY" /\ Retry(Ctx.Retry).AR = Ctx.Retry
    BY DEF Retry
  <2> QED  BY <1>1, <2>1, <2>2, <2>3, LeaveRouting
<1>6. CASE AddNewValue
  <2>1. Leave(result) /\ result.type = "NEXT_VALUE"
    BY <1>6 DEF AddNewValue, Returned
  <2> QED  BY <1>1, <2>1, LeaveRouting
<1>7. CASE RewriteSplice
  <2>1. Leave(result) /\ result.type = "REWRITE" /\ result.AR \in ARs
    BY <1>7 DEF RewriteSplice, Recursion, ControlOK
  <2>2. result.AR # This /\ Ctx.LTD < EnumerationDepth[result.AR]
    BY <1>7 DEF RewriteSplice, Routing, ResultRouted
  <2> QED  BY <1>1, <2>1, <2>2, LeaveRouting
<1> QED  BY <1>3, <1>4, <1>5, <1>6, <1>7

-----------------------------------------------------------------------------
(* Steps that move the position or note a retry. *)

(* What RETRY and REWRITE say of the depths, as the asserts put it. *)
LEMMA TargetDepth ==
    ASSUME Recursion, Routing, pc = "return", result.type \in {"RETRY", "REWRITE"}
    PROVE  /\ stack # <<>>
           /\ result.AR \in ARs
           /\ EnumerationDepth[result.AR] \in 0 .. Depth
<1>1. result.AR \in ARs
  BY DEF Recursion, ControlOK
<1>2. EnumerationDepth[result.AR] \in Nat
  <2>1. EnumerationDepth[result.AR] \in Nat \cup {-1}
    BY <1>1 DEF Recursion, TypeOK
  <2>2. CASE result.type = "RETRY"
    BY <2>2 DEF Routing, ResultRouted
  <2>3. CASE result.type = "REWRITE"
    <3>1. CalleeLTD < EnumerationDepth[result.AR]
      BY <2>3 DEF Routing, ResultRouted
    <3>2. CalleeLTD \in Nat \cup {-1}
      <4>1. stack # <<>> => Ctx \in Contexts /\ Depth \in Nat
        BY TopFrame
      <4> QED  BY <4>1 DEF CalleeLTD, Contexts
    <3> QED  BY <2>1, <3>1, <3>2
  <2> QED  BY <2>2, <2>3
<1>3. PICK n \in Nat : Len(stack) = n /\ (stack = <<>> <=> n = 0)
  BY StackLen DEF Recursion
<1>4. EnumerationDepth[result.AR] < n
  BY <1>1, <1>2, <1>3 DEF Recursion, DepthsMirrorStack
<1> QED  BY <1>1, <1>2, <1>3, <1>4 DEF Depth

(* The target of a rewrite is suspended below the innermost activation. *)
LEMMA RewriteTarget ==
    ASSUME Recursion, Routing, pc = "rewrite"
    PROVE  /\ result.AR \in ARs
           /\ result.AR # This
           /\ EnumerationDepth[result.AR] \in 0 .. Depth - 1
<1>1. result.AR \in ARs /\ stack # <<>>
  BY DEF Recursion, ControlOK
<1>2. PICK n \in Nat : /\ n >= 1
                       /\ Len(stack) = n
                       /\ Ctx = stack[n]
                       /\ Ctx \in Contexts
                       /\ This = Ctx.AR
                       /\ Depth = n - 1
  BY <1>1, TopFrame
<1>3. result.AR # This /\ Ctx.LTD < EnumerationDepth[result.AR]
  BY DEF Routing, ResultRouted
<1>4. EnumerationDepth[result.AR] \in Nat
  BY <1>1, <1>2, <1>3 DEF Contexts, Recursion, TypeOK
<1>5. /\ EnumerationDepth[result.AR] < n
      /\ stack[EnumerationDepth[result.AR] + 1].AR = result.AR
  BY <1>1, <1>2, <1>4 DEF Recursion, DepthsMirrorStack
<1>6. EnumerationDepth[result.AR] # n - 1
  BY <1>2, <1>3, <1>5
<1> QED  BY <1>1, <1>2, <1>3, <1>4, <1>5, <1>6

(* Frames but for the last one's Pos and Retry. *)
LEMMA EditRouting ==
    ASSUME Recursion, Routing, stack # <<>>,
           NEW c \in Contexts, c.AR = Ctx.AR, c.LTD = Ctx.LTD,
           stack' = [stack EXCEPT ![Len(stack)] = c],
           c.Retry # NoAR => EnumerationDepth[c.Retry] \in 0 .. Depth,
           pc' \in {"run", "rewrite"},
           pc' = "run" => /\ c.Retry = NoAR <=> c.Pos = 1
                          /\ c.Pos <= Len(Work'[This]) + 1,
           pc' = "rewrite" => /\ result' = result
                              /\ result.AR # This
                              /\ Ctx.LTD < EnumerationDepth[result.AR],
           UNCHANGED <<EnumerationDepth, cursor>>
    PROVE  Routing'
<1>1. PICK n \in Nat : n >= 1 /\ Len(stack) = n /\ Depth = n - 1 /\ This = Ctx.AR /\ Ctx = stack[n]
  BY TopFrame
<1>2. /\ stack' \in Seq(Contexts)
      /\ Len(stack') = n
      /\ \A k \in 1 .. n : stack'[k] = IF k = n THEN c ELSE stack[k]
  <2>1. stack \in Seq(Contexts) /\ n \in 1 .. n
    BY <1>1 DEF Recursion, TypeOK
  <2> QED  BY <1>1, <2>1, ExceptSeq
<1>3. Ctx' = c /\ This' = This
  BY <1>1, <1>2 DEF Ctx, This
<1>4. RootIsCursor'
  <2>1. 1 \in 1 .. n /\ stack'[1].AR = stack[1].AR
    BY <1>1, <1>2
  <2> QED  BY <2>1 DEF Routing, RootIsCursor
<1>5. ResultRouted'
  BY <1>3 DEF ResultRouted
<1>6. RetriesBelow'
  <2> SUFFICES ASSUME NEW k \in 1 .. n, stack'[k].Retry # NoAR
               PROVE  EnumerationDepth[stack'[k].Retry] \in 0 .. k - 1
    BY <1>2 DEF RetriesBelow
  <2> QED  BY <1>1, <1>2 DEF Routing, RetriesBelow
<1>7. RetriedPassed'
  BY <1>1, <1>2, <1>3 DEF Routing, RetriedPassed
<1> QED  BY <1>4, <1>5, <1>6, <1>7 DEF Routing

LEMMA SkipRetriedRouting ==
    ASSUME Recursion, Routing, SkipRetried
    PROVE  Routing'
<1>1. stack # <<>> /\ pc = "return" /\ result.type = "RETRY"
  BY DEF SkipRetried, Returned
<1>2. result.AR \in ARs /\ EnumerationDepth[result.AR] \in 0 .. Depth
  BY <1>1, TargetDepth
<1>3. PICK m \in Nat, p \in Nat : Len(Work[This]) = m /\ Ctx.Pos = p /\ 1 <= p /\ p <= m
  BY <1>1, PosInList
<1>4. PICK n \in Nat : n >= 1 /\ Len(stack) = n /\ Ctx = stack[n] /\ Ctx \in Contexts /\ Depth = n - 1
  BY <1>1, TopFrame
<1> DEFINE point == CancellationPoint(Ctx.Retry, result.AR)
           c == [Ctx EXCEPT !.Pos = @ + 1, !.Retry = point]
<1>5. point \in ARs /\ EnumerationDepth[point] \in 0 .. Depth
  <2>1. Ctx.Retry # NoAR => Ctx.Retry \in ARs /\ EnumerationDepth[Ctx.Retry] \in 0 .. Depth
    BY <1>4 DEF Routing, RetriesBelow, Contexts
  <2> QED  BY <1>2, <2>1 DEF CancellationPoint
<1>6. /\ c \in Contexts /\ c.AR = Ctx.AR /\ c.LTD = Ctx.LTD
      /\ c.Pos = p + 1 /\ c.Retry = point /\ c.Retry # NoAR
  <2> HIDE DEF point
  <2>1. Ctx.Pos + 1 \in Nat \ {0} /\ point # NoAR
    BY <1>4, <1>5, NullsAssumption DEF Contexts
  <2> QED  BY <1>3, <1>4, <1>5, <2>1 DEF Contexts
<1>7. stack' = [stack EXCEPT ![Len(stack)] = c]
  <2>1. stack \in Seq(Contexts) /\ Len(stack) \in DOMAIN stack
    BY <1>1, TopFrame DEF Recursion, TypeOK
  <2> QED  BY <2>1 DEF SkipRetried, Ctx
<1> HIDE DEF c, point
<1>8. c.Pos # 1 /\ c.Pos <= Len(Work'[This]) + 1 /\ pc' = "run"
  BY <1>3, <1>6 DEF SkipRetried, Goto
<1> QED  BY <1>1, <1>5, <1>6, <1>7, <1>8, EditRouting DEF SkipRetried

LEMMA RewriteRouting ==
    ASSUME Recursion, Routing, RewriteBegin \/ RewriteKeep \/ RewriteDrop
    PROVE  Routing'
<1>1. /\ stack # <<>>
      /\ pc' = "rewrite"
      /\ UNCHANGED <<EnumerationDepth, cursor, result>>
  BY DEF Recursion, ControlOK, RewriteBegin, RewriteKeep, RewriteDrop, Returned
<1>2. PICK n \in Nat : n >= 1 /\ Len(stack) = n /\ Ctx = stack[n] /\ Ctx \in Contexts /\ Depth = n - 1
  BY <1>1, TopFrame
<1>3. result.AR # This /\ Ctx.LTD < EnumerationDepth[result.AR]
  <2>1. CASE RewriteBegin
    <3>1. CalleeLTD = Ctx.LTD
      BY <1>1, <2>1 DEF RewriteBegin, CalleeLTD, IsSubset, IsTransform
    <3> QED  BY <2>1, <3>1 DEF RewriteBegin, Returned, Routing, ResultRouted
  <2>2. CASE RewriteKeep \/ RewriteDrop
    BY <2>2 DEF RewriteKeep, RewriteDrop, Routing, ResultRouted
  <2> QED  BY <2>1, <2>2
<1>4. \E p \in Nat \ {0} : stack' = [stack EXCEPT ![Len(stack)].Pos = p]
  <2>1. CASE RewriteBegin
    <3>1. 1 \in Nat \ {0} /\ SetPos(1)
      BY <2>1 DEF RewriteBegin
    <3> QED  BY <3>1 DEF SetPos
  <2>2. CASE RewriteKeep
    <3>1. Ctx.Pos + 1 \in Nat \ {0} /\ SetPos(Ctx.Pos + 1)
      BY <1>2, <2>2 DEF RewriteKeep, Contexts
    <3> QED  BY <3>1 DEF SetPos
  <2>3. CASE RewriteDrop
    <3>1. stack = [stack EXCEPT ![Len(stack)].Pos = Ctx.Pos]
      <4>1. stack \in Seq(Contexts) /\ n \in DOMAIN stack
        BY <1>2 DEF Recursion, TypeOK
      <4>2. [Ctx EXCEPT !.Pos = Ctx.Pos] = Ctx
        BY <1>2 DEF Contexts
      <4>3. [stack EXCEPT ![n] = [Ctx EXCEPT !.Pos = Ctx.Pos]] = stack
        BY <1>2, <4>1, <4>2
      <4> QED  BY <1>2, <4>3
    <3> QED  BY <1>2, <2>3, <3>1 DEF RewriteDrop, Contexts
  <2> QED  BY <2>1, <2>2, <2>3
<1>5. PICK p \in Nat \ {0} : stack' = [stack EXCEPT ![Len(stack)].Pos = p]
  BY <1>4
<1> DEFINE c == [Ctx EXCEPT !.Pos = p]
<1>6. c \in Contexts /\ c.AR = Ctx.AR /\ c.LTD = Ctx.LTD /\ c.Retry = Ctx.Retry
  BY <1>2 DEF Contexts
<1>7. stack' = [stack EXCEPT ![Len(stack)] = c]
  BY <1>5 DEF Ctx
<1>8. c.Retry # NoAR => EnumerationDepth[c.Retry] \in 0 .. Depth
  BY <1>2, <1>6 DEF Routing, RetriesBelow
<1> HIDE DEF c
<1> QED  BY <1>1, <1>3, <1>6, <1>7, <1>8, EditRouting

-----------------------------------------------------------------------------
LEMMA InitRouting ==
    ASSUME Init
    PROVE  Routing
<1>1. stack = <<>> /\ Len(stack) = 0 /\ pc = "idle"
  BY EmptySeq DEF Init, StartsFrom
<1> QED  BY <1>1 DEF Routing, RootIsCursor, ResultRouted, RetriesBelow, RetriedPassed

LEMMA NextRouting ==
    ASSUME Recursion, Routing, [Next]_vars
    PROVE  Routing'
<1>1. CASE Enter
  BY <1>1, EnterRouting, EnterRunRouting DEF Enter
<1>2. CASE Run
  BY <1>2, HandleRouting, ReturnRouting DEF Run
<1>3. CASE Handle
  BY <1>3, HandleRouting, ReturnRouting, SkipRetriedRouting, RewriteRouting DEF Handle
<1>4. CASE Answer \/ \E a \in ARs : \E i \in 0 .. Len(Set[a]) : Query(a, i)
  <2>1. stack' = <<>> /\ Len(stack') = 0 /\ pc' \in {"idle", "call"}
    BY <1>4, EmptySeq DEF Answer, Query, Goto, Recursion, ControlOK
  <2> QED  BY <2>1 DEF Routing, RootIsCursor, ResultRouted, RetriesBelow, RetriedPassed
<1>5. CASE UNCHANGED vars
  <2>1. CalleeLTD' = CalleeLTD /\ Depth' = Depth /\ Ctx' = Ctx /\ This' = This
    BY <1>5, SameDepths DEF vars, Ctx, This
  <2> QED  BY <1>5, <2>1
           DEF vars, Routing, RootIsCursor, ResultRouted, RetriesBelow, RetriedPassed
<1> QED  BY <1>1, <1>2, <1>3, <1>4, <1>5 DEF Next, Step

LEMMA RoutingInvariant == Spec => [](Recursion /\ Routing)
<1>1. Init => Recursion /\ Routing
  BY InitRecursion, InitRouting
<1>2. Recursion /\ Routing /\ [Next]_vars => (Recursion /\ Routing)'
  BY NextRecursion, NextRouting
<1> QED  BY <1>1, <1>2, PTL DEF Spec

(* Where a result goes, by the depths that were passed on the way.         *)
LEMMA RoutedWell == Recursion /\ Routing => WellRouted
<1> SUFFICES ASSUME Recursion, Routing, pc = "return"
             PROVE  IF stack = <<>>
                    THEN result.type \in {"NEXT_VALUE", "COMPLETE"}
                    ELSE IsTransform(Cur) => result.type \notin {"INLINE", "REWRITE"}
  BY DEF WellRouted
<1>1. result.type \in {"RETRY", "REWRITE"} => /\ stack # <<>>
                                              /\ EnumerationDepth[result.AR] \in 0 .. Depth
  BY TargetDepth
<1>2. CASE stack = <<>>
  <2>1. result.type # "INLINE"
    <3>1. CalleeLTD = -1 /\ Depth = -1
      BY <1>2, EmptySeq DEF CalleeLTD, Depth
    <3> QED  BY <3>1 DEF Routing, ResultRouted
  <2>2. result.type \in ResultTypes
    BY DEF Recursion, TypeOK, EnumerationResults
  <2>3. result.type # "NONE"
    BY DEF Routing, ResultRouted
  <2>4. result.type \notin {"RETRY", "REWRITE"}
    BY <1>1, <1>2
  <2>5. result.type \in {"NEXT_VALUE", "COMPLETE"}
    BY <2>1, <2>2, <2>3, <2>4 DEF ResultTypes
  <2> QED  BY <1>2, <2>5
<1>3. CASE stack # <<>> /\ IsTransform(Cur)
  <2>1. CalleeLTD = Depth /\ Depth \in Nat
    <3>1. Depth \in Nat
      BY <1>3, TopFrame
    <3> QED  BY <1>3, <3>1 DEF CalleeLTD
  <2>2. result.type \notin {"INLINE", "REWRITE"}
    BY <1>1, <2>1 DEF Routing, ResultRouted
  <2> QED  BY <1>3, <2>2
<1> QED  BY <1>2, <1>3

(* The llvm_unreachables are unreachable: only a value or the end of the   *)
(* set reaches AndersenEnumerator::enumerate, and neither an INLINE nor a  *)
(* REWRITE reaches TransformWorkBase::enumerate.                           *)
THEOREM ResultsWellRouted == Spec => []WellRouted
BY RoutedWell, RoutingInvariant, PTL

(* The asserts of AnalysisResult::enumerate about the depths: the AR to    *)
(* retry at and the AR to rewrite to are being enumerated, not above the   *)
(* activation that handles the result.                                     *)
THEOREM TargetsStayBelow == Spec => []TargetsBelow
<1>1. ASSUME Recursion, Routing
      PROVE  TargetsBelow
  <2>1. \A k \in 1 .. Len(stack) :
           stack[k].Retry # NoAR => EnumerationDepth[stack[k].Retry] \in 0 .. k - 1
    BY <1>1 DEF Routing, RetriesBelow
  <2>2. pc = "return" /\ result.type \in {"RETRY", "REWRITE"} =>
           EnumerationDepth[result.AR] \in 0 .. Depth
    BY <1>1, TargetDepth
  <2>3. pc = "rewrite" => EnumerationDepth[result.AR] \in 0 .. Depth - 1
    BY <1>1, RewriteTarget
  <2> QED  BY <2>1, <2>2, <2>3 DEF TargetsBelow
<1> QED  BY <1>1, RoutingInvariant, PTL

(* The asserts at the end of the loop of AnalysisResult::enumerate: the    *)
(* work list is empty exactly if there is nothing to retry.                *)
THEOREM WorkToRetryRemains == Spec => []RetriedWorkRemains
<1>1. ASSUME Recursion, Routing
      PROVE  RetriedWorkRemains
  <2> SUFFICES ASSUME pc = "run", AtEnd
               PROVE  Ctx.Retry = NoAR <=> Work[This] = <<>>
    BY DEF RetriedWorkRemains
  <2>1. PICK n \in Nat : /\ n >= 1
                         /\ Len(stack) = n
                         /\ Ctx = stack[n]
                         /\ Ctx \in Contexts
                         /\ Work[This] \in Seq(Works)
    BY <1>1, TopFrame DEF Recursion, ControlOK
  <2>2. PICK m \in Nat : Len(Work[This]) = m /\ (m = 0 <=> Work[This] = <<>>)
    BY <2>1, LenProperties, EmptySeq
  <2>3. Ctx.Pos = m + 1
    BY <1>1, <2>1, <2>2 DEF AtEnd, Routing, RetriedPassed, Contexts
  <2>4. Ctx.Retry = NoAR <=> Ctx.Pos = 1
    BY <1>1, <2>1 DEF Routing, RetriedPassed
  <2> QED  BY <2>2, <2>3, <2>4
<1> QED  BY <1>1, RoutingInvariant, PTL

-----------------------------------------------------------------------------
(* The end of a set.                                                       *)

(* The client's set has no work left when it is told that the set ends. *)
LEMMA EndMeansDoneStep ==
    ASSUME Recursion, Routing, EndMeansDone, [Next]_vars
    PROVE  EndMeansDone'
<1> SUFFICES ASSUME pc' = "return", stack' = <<>>, result'.type = "COMPLETE"
             PROVE  Work'[cursor'.AR] = <<>>
  BY DEF EndMeansDone, isDone
<1>1. CASE EndComplete \/ EndCancelRetry
  <2>1. stack # <<>> /\ SuspendedKept /\ cursor' = cursor /\ stack' = Front(stack)
    BY <1>1, LeaveKept DEF EndComplete, EndCancelRetry, Leave
  <2>2. PICK n \in Nat : n >= 1 /\ Len(stack) = n /\ (stack' = <<>> <=> n = 1)
    BY <2>1, AfterLeave DEF Routing
  <2>3. This = cursor.AR /\ This \in ARs /\ Work[This] \in Seq(Works)
    <3>1. This = stack[1].AR
      BY <2>2 DEF This, Ctx
    <3> QED  BY <2>1, <3>1, TopFrame DEF Routing, RootIsCursor
  <2>4. CASE EndComplete
    <3>1. PICK m \in Nat : Len(Work[This]) = m /\ (m = 0 <=> Work[This] = <<>>)
      BY <2>3, LenProperties, EmptySeq
    <3>2. Ctx \in Contexts /\ Ctx = stack[n]
      BY <2>1, <2>2, TopFrame
    <3>3. Ctx.Pos = 1 /\ Ctx.Pos > m
      BY <2>2, <2>4, <3>1, <3>2 DEF EndComplete, AtEnd, Routing, RetriedPassed
    <3> QED  BY <2>1, <2>3, <2>4, <3>1, <3>3 DEF EndComplete
  <2>5. CASE EndCancelRetry
    <3>1. Work'[This] = <<>>
      <4>1. <<>> \in Seq(Works) /\ SetWork(<<>>)
        BY <2>5, EmptySeq DEF EndCancelRetry
      <4> QED  BY <2>1, <4>1, SetWorkKept
    <3> QED  BY <2>1, <2>3, <3>1
  <2> QED  BY <1>1, <2>4, <2>5
<1>2. CASE Enter
  BY <1>2 DEF Enter, EnterRewrite, EnterCached, EnterRetry, EnterRun, Return, Goto,
              Rewrite, NextValue, Retry, NoResult
<1>3. CASE RunInline \/ RunRecurse \/ EndRetry
  BY <1>3 DEF RunInline, RunRecurse, EndRetry, Leave, Return, Goto, Inline, Retry
<1>4. CASE Handle
  BY <1>4 DEF Handle, AddNewValue, SkipKnownValue, TransformToNothing, TransformToSubset,
              InlineSubset, DropInlined, SkipRetried, EraseCompleted, RewriteHere, RewriteBegin,
              RewriteKeep, RewriteDrop, RewriteSplice, Leave, Return, Goto, Returned,
              Recursion, ControlOK
<1>5. CASE Answer \/ \E a \in ARs : \E i \in 0 .. Len(Set[a]) : Query(a, i)
  BY <1>5 DEF Answer, Query, Goto
<1>6. CASE UNCHANGED vars
  BY <1>6 DEF vars, EndMeansDone, isDone
<1> QED  BY <1>1, <1>2, <1>3, <1>4, <1>5, <1>6 DEF Next, Step, Run

(* A client of AndersenEnumerator that has been told that the set ends can *)
(* rely on AnalysisResult::isDone: AndersenPass.cpp:83 asserts it.         *)
THEOREM EndIsDone == Spec => []EndMeansDone
<1>1. Init => EndMeansDone
  BY DEF Init, StartsFrom, EndMeansDone
<1>2. Recursion /\ Routing /\ EndMeansDone /\ [Next]_vars => EndMeansDone'
  BY EndMeansDoneStep
<1> QED  BY <1>1, <1>2, RoutingInvariant, PTL DEF Spec

-----------------------------------------------------------------------------
(* Done ARs. *)

(* An AR on the stack, but for one whose list is being spliced away, has   *)
(* work.                                                                   *)
LEMMA SuspendedHasWork ==
    ASSUME Recursion, NEW n \in Nat, Len(stack) = n, NEW k \in 1 .. n,
           k < n \/ pc \in {"call", "return"}
    PROVE  Work[stack[k].AR] # <<>>
<1>1. stack[k].Pos \in DOMAIN Work[stack[k].AR]
  BY DEF Recursion, IteratorsValid
<1> QED  BY <1>1

(* ++i on an Enumerator leaves lists without work alone. *)
LEMMA AdvanceKeepsDone ==
    ASSUME Recursion, NEW stk, Advance(stk), NEW a \in ARs, Work[a] = <<>>,
           stk # <<>> => Work[Last(stk).AR] # <<>>
    PROVE  Work'[a] = <<>>
<1>1. CASE stk = <<>>
  BY <1>1 DEF Advance
<1>2. CASE stk # <<>>
  <2>1. Work \in [ARs -> Seq(Works)] /\ a # Last(stk).AR
    BY <1>2 DEF Recursion, TypeOK
  <2>2. Work' = [Work EXCEPT ![Last(stk).AR][Last(stk).Pos].i = @ + 1]
    BY <1>2 DEF Advance
  <2> QED  BY <2>1, <2>2
<1> QED  BY <1>1, <1>2

(* The step a done AR is asked about in each case below. *)
StaysDone(a) == Work'[a] = <<>> /\ Set'[a] = Set[a] /\ (pc' = "rewrite" => a # This')

LEMMA HandleKeepsDone ==
    ASSUME Recursion, Routing, NEW a \in ARs, isDone(a), Handle
    PROVE  StaysDone(a)
<1>1. stack # <<>> /\ pc \in {"return", "rewrite"}
  BY DEF Handle, AddNewValue, SkipKnownValue, TransformToNothing, TransformToSubset, InlineSubset,
         DropInlined, SkipRetried, EraseCompleted, RewriteHere, RewriteBegin, RewriteKeep,
         RewriteDrop, RewriteSplice, Returned, Recursion, ControlOK
<1>2. PICK n \in Nat : /\ n >= 1
                       /\ Len(stack) = n
                       /\ Ctx = stack[n]
                       /\ This = Ctx.AR
                       /\ This \in ARs
                       /\ Depth = n - 1
                       /\ EnumerationDepth[This] = n - 1
  BY <1>1, TopFrame
<1>3. Work[a] = <<>> /\ a # This
  <2>1. CASE pc = "rewrite"
    BY <2>1 DEF isDone
  <2>2. CASE pc = "return"
    BY <1>2, <2>2, SuspendedHasWork DEF isDone
  <2> QED  BY <1>1, <2>1, <2>2
<1>4. Work \in [ARs -> Seq(Works)] /\ Set \in [ARs -> Seq(VIs)]
  BY DEF Recursion, TypeOK
<1>5. CASE \/ SkipKnownValue \/ TransformToNothing \/ TransformToSubset \/ InlineSubset
           \/ DropInlined \/ SkipRetried \/ EraseCompleted \/ RewriteHere
  <2>1. /\ pc' \in {"call", "run"} /\ Set' = Set
        /\ Work' = Work \/ \E w : Work' = [Work EXCEPT ![This] = w]
    BY <1>5 DEF SkipKnownValue, TransformToNothing, TransformToSubset, InlineSubset,
                DropInlined, SkipRetried, EraseCompleted, RewriteHere, EraseCur, SetWork, Goto
  <2> QED  BY <1>3, <1>4, <2>1 DEF StaysDone
<1>6. CASE RewriteBegin \/ RewriteKeep \/ RewriteDrop
  <2>1. /\ Set' = Set
        /\ Work' = Work \/ \E w : Work' = [Work EXCEPT ![This] = w]
    BY <1>6 DEF RewriteBegin, RewriteKeep, RewriteDrop, EraseCur, SetWork
  <2>2. This' = This
    <3>1. \/ stack' = stack
          \/ \E p : stack' = [stack EXCEPT ![n].Pos = p]
      BY <1>2, <1>6 DEF RewriteBegin, RewriteKeep, RewriteDrop, SetPos
    <3>2. stack \in Seq(Contexts) /\ n \in 1 .. n
      BY <1>2 DEF Recursion, TypeOK
    <3>3. ASSUME NEW p, stack' = [stack EXCEPT ![n].Pos = p]
          PROVE  This' = This
      <4>1. Len(stack') = n
        BY <1>2, <3>2, <3>3
      <4>2. stack'[n].AR = stack[n].AR
        BY <1>2, <3>2, <3>3
      <4> QED  BY <1>2, <4>1, <4>2 DEF This, Ctx
    <3> QED  BY <3>1, <3>3 DEF This, Ctx
  <2> QED  BY <1>3, <1>4, <2>1, <2>2 DEF StaysDone
<1>7. CASE AddNewValue
  <2>1. Set'[a] = Set[a]
    BY <1>3, <1>4, <1>7 DEF AddNewValue
  <2>2. /\ Front(stack) \in Seq(Contexts)
        /\ Len(Front(stack)) = n - 1
        /\ \A k \in 1 .. n - 1 : Front(stack)[k] = stack[k]
    BY <1>2, FrontProperties DEF Recursion, TypeOK
  <2>3. Front(stack) # <<>> => Work[Last(Front(stack)).AR] # <<>>
    <3> SUFFICES ASSUME Front(stack) # <<>>
                 PROVE  Work[Last(Front(stack)).AR] # <<>>
      OBVIOUS
    <3>1. n - 1 \in 1 .. n - 1 /\ n - 1 \in 1 .. n /\ n - 1 < n
      BY <1>2, <2>2, EmptySeq
    <3>2. Last(Front(stack)) = stack[n - 1]
      BY <2>2, <3>1 DEF Last
    <3> QED  BY <1>2, <3>1, <3>2, SuspendedHasWork
  <2>4. Work'[a] = <<>>
    BY <1>3, <1>7, <2>3, AdvanceKeepsDone DEF AddNewValue
  <2> QED  BY <1>7, <2>1, <2>4 DEF AddNewValue, Leave, Return, StaysDone
<1>8. CASE RewriteSplice
  <2>1. result.AR \in ARs /\ result.AR # This /\ EnumerationDepth[result.AR] \in 0 .. Depth - 1
    BY <1>8, RewriteTarget DEF RewriteSplice
  <2>2. Work[result.AR] # <<>>
    <3> DEFINE k == EnumerationDepth[result.AR] + 1
    <3>1. k \in 1 .. n /\ k < n
      BY <1>2, <2>1
    <3>2. stack[k].AR = result.AR
      BY <2>1 DEF Recursion, DepthsMirrorStack
    <3> HIDE DEF k
    <3> QED  BY <1>2, <3>1, <3>2, SuspendedHasWork
  <2>3. /\ Work' = [Work EXCEPT ![result.AR] = @ \o Work[This],
                                ![This] = <<SubsetWork(result.AR)>>]
        /\ Set' = Set /\ pc' = "return"
    BY <1>8 DEF RewriteSplice, Leave, Return
  <2> QED  BY <1>2, <1>3, <1>4, <2>1, <2>2, <2>3 DEF StaysDone
<1> QED  BY <1>5, <1>6, <1>7, <1>8 DEF Handle

LEMMA NextKeepsDone ==
    ASSUME Recursion, Routing, NEW a \in ARs, isDone(a), [Next]_vars
    PROVE  StaysDone(a)
<1>1. Work[a] = <<>> /\ Work \in [ARs -> Seq(Works)]
  BY DEF isDone, Recursion, TypeOK
<1>2. CASE EnterCached
  <2>1. PICK n \in Nat : Len(stack) = n /\ (stack = <<>> <=> n = 0)
    BY StackLen DEF Recursion
  <2>2. stack # <<>> => Work[Last(stack).AR] # <<>>
    BY <1>2, <2>1, SuspendedHasWork DEF EnterCached, Last
  <2>3. Work'[a] = <<>>
    BY <1>1, <1>2, <2>2, AdvanceKeepsDone DEF EnterCached
  <2> QED  BY <1>2, <2>3 DEF EnterCached, Return, StaysDone
<1>3. CASE EnterRewrite \/ EnterRetry \/ EnterRun
  BY <1>1, <1>3 DEF EnterRewrite, EnterRetry, EnterRun, Return, Goto, StaysDone
<1>4. CASE RunInline \/ RunRecurse \/ EndComplete \/ EndRetry
  BY <1>1, <1>4 DEF RunInline, RunRecurse, EndComplete, EndRetry, Leave, Return, Goto, StaysDone
<1>5. CASE EndCancelRetry
  BY <1>1, <1>5 DEF EndCancelRetry, SetWork, Leave, Return, StaysDone
<1>6. CASE Handle
  BY <1>6, HandleKeepsDone
<1>7. CASE Answer \/ \E b \in ARs : \E i \in 0 .. Len(Set[b]) : Query(b, i)
  BY <1>1, <1>7 DEF Answer, Query, Goto, StaysDone
<1>8. CASE UNCHANGED vars
  BY <1>1, <1>8 DEF vars, StaysDone, isDone, This, Ctx
<1> QED  BY <1>2, <1>3, <1>4, <1>5, <1>6, <1>7, <1>8 DEF Next, Step, Enter, Run

(* AndersenPass hands out the Set of a done AR as a plain set, which       *)
(* alias() goes on reading while it enumerates others: no step of the      *)
(* engine ever changes it, or gives the AR work again.                     *)
THEOREM DoneStaysDone == Spec => DoneIsForever
<1>1. ASSUME Recursion, Routing, [Next]_vars
      PROVE  [\A a \in ARs : isDone(a) => isDone(a)' /\ Set'[a] = Set[a]]_vars
  BY <1>1, NextKeepsDone DEF StaysDone, isDone
<1> QED  BY <1>1, RoutingInvariant, PTL DEF Spec, DoneIsForever


-----------------------------------------------------------------------------
(* Work lists as sequences over a set of works that may stand in them.     *)

(* The work that an activation runs may stand in its list. *)
LEMMA CurInList ==
    ASSUME Recursion, stack # <<>>, pc = "run" \/ pc = "rewrite" => ~AtEnd,
           NEW G, Work[This] \in Seq(G)
    PROVE  Cur \in G
<1>1. Ctx.Pos \in 1 .. Len(Work[This])
  BY CurType
<1> QED  BY <1>1, LenProperties, ElementOfSeq DEF Cur

(* Erasing work needs nothing of the rest. *)
LEMMA EraseInList ==
    ASSUME Recursion, stack # <<>>, pc = "run" \/ pc = "rewrite" => ~AtEnd,
           NEW G, Work[This] \in Seq(G)
    PROVE  RemoveAt(Work[This], Ctx.Pos) \in Seq(G)
<1>1. Ctx.Pos \in 1 .. Len(Work[This])
  BY CurType
<1> QED  BY <1>1, RemoveAtProperties

(* ++i on the Enumerator of a work item: u stands for the work after it. *)
LEMMA AdvanceInList ==
    ASSUME Recursion, NEW stk \in Seq(Contexts), stk # <<>>, Advance(stk),
           Last(stk).AR \in ARs,
           Last(stk).Pos \in DOMAIN Work[Last(stk).AR],
           NEW G, NEW H, Work[Last(stk).AR] \in Seq(G), G \subseteq H,
           [Work[Last(stk).AR][Last(stk).Pos] EXCEPT !.i = @ + 1] \in H
    PROVE  Work'[Last(stk).AR] \in Seq(H)
<1> DEFINE b == Last(stk).AR
           q == Last(stk).Pos
           u == [Work[b][q] EXCEPT !.i = @ + 1]
           l == [Work[b] EXCEPT ![q] = u]
<1>1. Work \in [ARs -> Seq(Works)] /\ Work' = [Work EXCEPT ![b][q].i = @ + 1]
  BY DEF Advance, Recursion, TypeOK
<1> HIDE DEF b, q
<1>2. Work' = [Work EXCEPT ![b] = l]
  BY <1>1
<1>3. b \in ARs /\ q \in DOMAIN Work[b] /\ Work[b] \in Seq(G) /\ u \in H
  BY DEF b, q
<1> HIDE DEF u
<1>4. PICK m \in Nat : Len(Work[b]) = m /\ DOMAIN Work[b] = 1 .. m
  BY <1>3, LenProperties
<1>5. Work[b] \in Seq(H)
  BY <1>3, SeqMonotonic
<1>6. l \in Seq(H)
  BY <1>3, <1>4, <1>5, ExceptSeq
<1> HIDE DEF l
<1>7. Work'[b] = l
  BY <1>1, <1>2, <1>3
<1> QED  BY <1>6, <1>7 DEF b

-----------------------------------------------------------------------------
(* Soundness with respect to any solution S of the equations.              *)

SoundWorks(S, a) == {w \in Works : Satisfies(sys.results, S, a, w)}

SetsSound(S)  == \A a \in ARs : ToSet(Set[a]) \subseteq S[a]
WorksSound(S) == \A a \in ARs : Work[a] \in Seq(SoundWorks(S, a))

(* What a result stands for belongs to the set that was enumerated, and    *)
(* the target of a rewrite to the set that is rewritten.                   *)
ResultSound(S) ==
    /\ pc = "return" /\ result.type = "NEXT_VALUE" => result.VI \in S[Callee.AR]
    /\ pc = "return" /\ result.type \in {"INLINE", "REWRITE"} => S[result.AR] \subseteq S[Callee.AR]
    /\ pc = "rewrite" => S[result.AR] \subseteq S[This]

(* An AR is a subset of those below it up to the nearest transform. *)
ChainSound(S) ==
    \A k \in 1 .. Len(stack) : \A j \in 1 .. k :
        stack[k].LTD < j - 1 => S[stack[k].AR] \subseteq S[stack[j].AR]

Sound(S) == SetsSound(S) /\ WorksSound(S) /\ ResultSound(S) /\ ChainSound(S)

(* The work an activation runs asks for no more than S gives. *)
LEMMA CurSound ==
    ASSUME Recursion, NEW S, Sound(S), stack # <<>>, pc = "run" \/ pc = "rewrite" => ~AtEnd
    PROVE  /\ Satisfies(sys.results, S, This, Cur)
           /\ IsSubset(Cur) => S[Cur.AR] \subseteq S[This]
<1>1. This \in ARs
  BY TopFrame
<1>2. Cur \in SoundWorks(S, This)
  BY <1>1, CurInList DEF Sound, WorksSound
<1> QED  BY <1>2 DEF SoundWorks, Satisfies

LEMMA SameChain ==
    ASSUME NEW S, ChainSound(S), NEW n \in Nat, NEW m \in Nat, m <= n,
           Len(stack) = n, Len(stack') = m,
           \A k \in 1 .. m : stack'[k].AR = stack[k].AR /\ stack'[k].LTD = stack[k].LTD
    PROVE  ChainSound(S)'
<1> SUFFICES ASSUME NEW k \in 1 .. m, NEW j \in 1 .. k, stack'[k].LTD < j - 1
             PROVE  S[stack'[k].AR] \subseteq S[stack'[j].AR]
  BY DEF ChainSound
<1>1. k \in 1 .. n /\ j \in 1 .. m
  OBVIOUS
<1> QED  BY <1>1 DEF ChainSound

(* Only This' work list changes, if any. *)
LEMMA SetWorkSound ==
    ASSUME Recursion, NEW S, WorksSound(S), This \in ARs, sys' = sys,
           NEW w \in Seq(SoundWorks(S, This)), SetWork(w)
    PROVE  WorksSound(S)'
<1>1. SoundWorks(S, This)' = SoundWorks(S, This') /\ \A a \in ARs : SoundWorks(S, a)' = SoundWorks(S, a)
  BY DEF SoundWorks
<1>2. Work \in [ARs -> Seq(Works)] /\ Work' = [Work EXCEPT ![This] = w]
  BY DEF Recursion, TypeOK, SetWork
<1> QED  BY <1>1, <1>2 DEF WorksSound

LEMMA SameWorkSound ==
    ASSUME NEW S, WorksSound(S), UNCHANGED <<sys, Work>>
    PROVE  WorksSound(S)'
BY DEF WorksSound, SoundWorks

(* ++i on an Enumerator, by EnterCached and by AddNewValue. *)
LEMMA AdvanceSound ==
    ASSUME Recursion, NEW S, WorksSound(S), sys' = sys,
           NEW stk \in Seq(Contexts), Advance(stk),
           stk # <<>> => /\ Last(stk).AR \in ARs
                         /\ Last(stk).Pos \in DOMAIN Work[Last(stk).AR]
    PROVE  WorksSound(S)'
<1>1. CASE stk = <<>>
  BY <1>1, SameWorkSound DEF Advance
<1>2. CASE stk # <<>>
  <2> DEFINE b == Last(stk).AR
             w == Work[b][Last(stk).Pos]
             u == [w EXCEPT !.i = @ + 1]
  <2>1. Work[b] \in Seq(SoundWorks(S, b)) /\ b \in ARs
    BY <1>2 DEF WorksSound
  <2>2. w \in SoundWorks(S, b)
    BY <1>2, <2>1, LenProperties, ElementOfSeq
  <2>3. u \in SoundWorks(S, b)
    <3> HIDE DEF w
    <3>1. w \in Works /\ Satisfies(sys.results, S, b, w)
      BY <2>2 DEF SoundWorks
    <3>2. u \in Works /\ u.AR = w.AR /\ u.kind = w.kind /\ u.alg = w.alg
      BY <3>1 DEF Works, SubsetWorks, TransformWorks
    <3> QED  BY <3>1, <3>2 DEF SoundWorks, Satisfies, IsSubset
  <2>4. Work'[b] \in Seq(SoundWorks(S, b))
    BY <1>2, <2>1, <2>3, AdvanceInList
  <2>5. \A a \in ARs \ {b} : Work'[a] = Work[a]
    BY <1>2, <2>1 DEF Advance, Recursion, TypeOK
  <2>6. \A a \in ARs : SoundWorks(S, a)' = SoundWorks(S, a)
    BY DEF SoundWorks
  <2> QED  BY <2>1, <2>4, <2>5, <2>6 DEF WorksSound
<1> QED  BY <1>1, <1>2

-----------------------------------------------------------------------------
(* Steps that enter an activation, or answer for it. *)

(* The innermost activation, and where its iterator stands. *)
LEMMA LastFrame ==
    ASSUME Recursion, stack # <<>>, pc \in {"call", "return"}
    PROVE  /\ Last(stack) = Ctx
           /\ Last(stack).AR \in ARs
           /\ Last(stack).Pos \in DOMAIN Work[Last(stack).AR]
<1>1. This \in ARs /\ This = Ctx.AR
  BY TopFrame
<1>2. Ctx.Pos \in DOMAIN Work[This]
  BY CurType
<1> QED  BY <1>1, <1>2 DEF Last, Ctx

LEMMA EnterSound ==
    ASSUME Recursion, Routing, NEW S, Sound(S), EnterRewrite \/ EnterRetry \/ EnterCached
    PROVE  Sound(S)'
<1>1. /\ pc = "call" /\ pc' = "return"
      /\ UNCHANGED <<sys, Set, stack>>
  BY DEF EnterRewrite, EnterRetry, EnterCached, Return
<1>2. SetsSound(S)'
  BY <1>1 DEF Sound, SetsSound
<1>3. ChainSound(S)'
  BY <1>1 DEF Sound, ChainSound
<1>4. WorksSound(S)'
  <2>1. CASE EnterRewrite \/ EnterRetry
    BY <2>1, SameWorkSound DEF EnterRewrite, EnterRetry, Sound
  <2>2. CASE EnterCached
    <3>1. stack \in Seq(Contexts)
      BY DEF Recursion, TypeOK
    <3> QED  BY <1>1, <2>2, <3>1, LastFrame, AdvanceSound DEF EnterCached, Sound
  <2> QED  BY <2>1, <2>2
<1>5. Callee'.AR = Callee.AR
  <2>1. CASE EnterRewrite \/ EnterRetry
    BY <2>1, SameDepths DEF EnterRewrite, EnterRetry
  <2>2. CASE EnterCached
    <3>1. Callee'.AR = IF stack = <<>> THEN cursor'.AR ELSE Cur'.AR
      BY <1>1 DEF Callee
    <3>2. cursor'.AR = cursor.AR
      <4>1. cursor' = [cursor EXCEPT !.i = @ + 1] \/ cursor' = cursor
        BY <2>2 DEF EnterCached, Advance
      <4> QED  BY <4>1 DEF Recursion, TypeOK, Enumerators
    <3>3. stack # <<>> => Cur'.AR = Cur.AR
      <4> SUFFICES ASSUME stack # <<>>
                   PROVE  Cur'.AR = Cur.AR
        OBVIOUS
      <4>1. Work' = [Work EXCEPT ![This][Ctx.Pos].i = @ + 1]
        BY <1>1, <2>2, LastFrame DEF EnterCached, Advance, This
      <4>2. This \in ARs /\ Work[This] \in Seq(Works) /\ Work \in [ARs -> Seq(Works)]
        BY TopFrame DEF Recursion, TypeOK
      <4>3. Ctx.Pos \in DOMAIN Work[This] /\ Cur \in Works
        BY <1>1, CurType
      <4>4. Work'[This] = [Work[This] EXCEPT ![Ctx.Pos].i = @ + 1]
        BY <4>1, <4>2
      <4>5. Work'[This][Ctx.Pos] = [Cur EXCEPT !.i = @ + 1]
        BY <4>2, <4>3, <4>4 DEF Cur
      <4>6. Cur' = Work'[This][Ctx.Pos]
        BY <1>1 DEF Cur, This, Ctx
      <4> QED  BY <4>3, <4>5, <4>6 DEF Works, SubsetWorks, TransformWorks
    <3> QED  BY <3>1, <3>2, <3>3 DEF Callee
  <2> QED  BY <2>1, <2>2
<1>6. ResultSound(S)'
  <2>1. CASE EnterRewrite
    <3>1. result' = Rewrite(Callee.AR)
      BY <2>1 DEF EnterRewrite, Return
    <3> QED  BY <1>1, <1>5, <3>1 DEF Rewrite, ResultSound
  <2>2. CASE EnterRetry
    <3>1. result' = Retry(Callee.AR)
      BY <2>2 DEF EnterRetry, Return
    <3> QED  BY <1>1, <3>1 DEF Retry, ResultSound
  <2>3. CASE EnterCached
    <3>1. result' = NextValue(Set[Callee.AR][Callee.i + 1])
      BY <2>3 DEF EnterCached, Return
    <3>2. Set[Callee.AR][Callee.i + 1] \in S[Callee.AR]
      <4>1. Callee.AR \in ARs /\ Callee.i \in Nat /\ Callee.i < Len(Set[Callee.AR])
        BY <1>1, <2>3, CalleeType DEF EnterCached, IsCached
      <4>2. Len(Set[Callee.AR]) \in Nat /\ DOMAIN Set[Callee.AR] = 1 .. Len(Set[Callee.AR])
        BY <4>1, LenProperties DEF Recursion, TypeOK
      <4>3. Callee.i + 1 \in DOMAIN Set[Callee.AR]
        BY <4>1, <4>2
      <4>4. Set[Callee.AR][Callee.i + 1] \in ToSet(Set[Callee.AR])
        BY <4>3 DEF ToSet
      <4> QED  BY <4>1, <4>4 DEF Sound, SetsSound
    <3> QED  BY <1>1, <1>5, <3>1, <3>2 DEF NextValue, ResultSound
  <2> QED  BY <2>1, <2>2, <2>3
<1> QED  BY <1>2, <1>3, <1>4, <1>6 DEF Sound

LEMMA EnterRunSound ==
    ASSUME Recursion, Routing, NEW S, Sound(S), EnterRun
    PROVE  Sound(S)'
<1>1. PICK n \in Nat : /\ Len(stack) = n
                       /\ stack = <<>> <=> n = 0
                       /\ \A k \in 1 .. n : stack[k] \in Contexts
  BY StackLen DEF Recursion
<1> DEFINE new == [AR |-> Callee.AR, LTD |-> CalleeLTD, Pos |-> 1, Retry |-> NoAR]
<1>2. /\ pc = "call" /\ pc' = "run"
      /\ stack' = Append(stack, new)
      /\ UNCHANGED <<sys, Set, Work>>
  BY DEF EnterRun, Goto
<1>3. new.AR = Callee.AR /\ new.LTD = CalleeLTD
  OBVIOUS
<1> HIDE DEF new
<1>4. stack \in Seq(Contexts)
  BY DEF Recursion, TypeOK
<1>5. /\ Len(stack') = n + 1
      /\ \A k \in 1 .. n : stack'[k] = stack[k]
      /\ stack'[n + 1] = new
  <2>1. new \in Contexts
    <3>1. Callee.AR \in ARs
      BY <1>2, CalleeType
    <3>2. CalleeLTD \in Nat \cup {-1}
      <4>1. stack # <<>> => Ctx \in Contexts /\ Depth \in Nat
        BY TopFrame
      <4> QED  BY <4>1 DEF CalleeLTD, Contexts
    <3> QED  BY <3>1, <3>2 DEF new, Contexts
  <2> QED  BY <1>1, <1>2, <1>4, <2>1, AppendProperties
<1>6. ChainSound(S)'
  <2> SUFFICES ASSUME NEW k \in 1 .. n + 1, NEW j \in 1 .. k, stack'[k].LTD < j - 1
               PROVE  S[stack'[k].AR] \subseteq S[stack'[j].AR]
    BY <1>5 DEF ChainSound
  <2>1. CASE k \in 1 .. n
    <3>1. j \in 1 .. n
      BY <2>1
    <3> QED  BY <1>1, <1>5, <2>1, <3>1 DEF Sound, ChainSound
  <2>2. CASE k = n + 1 /\ j = k
    BY <2>2
  <2>3. CASE k = n + 1 /\ j # k
    <3>1. j \in 1 .. n /\ n # 0 /\ n \in 1 .. n /\ j \in 1 .. n
      BY <2>3
    <3>2. stack # <<>> /\ Depth = n - 1 /\ Ctx = stack[n] /\ This = stack[n].AR
      BY <1>1, <3>1 DEF Depth, Ctx, This
    <3>3. CalleeLTD < j - 1
      BY <1>3, <1>5, <2>3
    <3>4. ~IsTransform(Cur) /\ CalleeLTD = stack[n].LTD
      BY <3>1, <3>2, <3>3 DEF CalleeLTD
    <3>5. IsSubset(Cur) /\ Callee.AR = Cur.AR
      <4>1. Cur \in Works
        BY <1>2, <3>2, CurType
      <4> QED  BY <3>2, <3>4, <4>1
               DEF Works, SubsetWorks, TransformWorks, IsSubset, IsTransform, Callee
    <3>6. S[Cur.AR] \subseteq S[This]
      BY <1>2, <3>2, <3>5, CurSound
    <3>7. S[This] \subseteq S[stack[j].AR]
      BY <1>1, <3>1, <3>2, <3>3, <3>4 DEF Sound, ChainSound
    <3> QED  BY <1>3, <1>5, <2>3, <3>1, <3>5, <3>6, <3>7
  <2> QED  BY <2>1, <2>2, <2>3
<1>7. SetsSound(S)' /\ ResultSound(S)'
  BY <1>2 DEF Sound, SetsSound, ResultSound
<1>8. WorksSound(S)'
  BY <1>2, SameWorkSound DEF Sound
<1> QED  BY <1>6, <1>7, <1>8 DEF Sound

-----------------------------------------------------------------------------
(* Steps within the innermost activation. *)

(* The frames stay, but for the last one's Pos and Retry. *)
LEMMA StaySound ==
    ASSUME Recursion, NEW S, Sound(S), stack # <<>>,
           Len(stack') = Len(stack),
           \A k \in 1 .. Len(stack) : stack'[k].AR = stack[k].AR /\ stack'[k].LTD = stack[k].LTD,
           pc' \in {"call", "run"} \/ (pc' = "rewrite" /\ S[result'.AR] \subseteq S[This]),
           UNCHANGED <<sys, Set>>,
           WorksSound(S)'
    PROVE  Sound(S)'
<1>1. PICK n \in Nat : n >= 1 /\ Len(stack) = n /\ This = stack[n].AR
  BY TopFrame
<1>2. ChainSound(S)'
  BY <1>1, SameChain DEF Sound
<1>3. SetsSound(S)'
  BY DEF Sound, SetsSound
<1>4. This' = This
  <2>1. n \in 1 .. n
    BY <1>1
  <2> QED  BY <1>1, <2>1 DEF This, Ctx
<1>5. ResultSound(S)'
  BY <1>4 DEF ResultSound
<1> QED  BY <1>2, <1>3, <1>5 DEF Sound

(* Work that is erased needs no solution. *)
LEMMA EraseSound ==
    ASSUME Recursion, NEW S, Sound(S), stack # <<>>, pc = "run" \/ pc = "rewrite" => ~AtEnd,
           EraseCur, sys' = sys
    PROVE  WorksSound(S)'
<1>1. This \in ARs
  BY TopFrame
<1>2. RemoveAt(Work[This], Ctx.Pos) \in Seq(SoundWorks(S, This))
  BY <1>1, EraseInList DEF Sound, WorksSound
<1> QED  BY <1>1, <1>2, SetWorkSound DEF Sound, EraseCur

LEMMA HandleSound ==
    ASSUME Recursion, Routing, NEW S, Sound(S),
           RunRecurse \/ SkipKnownValue \/ TransformToNothing \/ DropInlined \/ EraseCompleted
           \/ RewriteHere
    PROVE  Sound(S)'
<1>1. stack # <<>> /\ pc' \in {"call", "run"} /\ UNCHANGED <<sys, Set, stack>>
  BY DEF RunRecurse, SkipKnownValue, TransformToNothing, DropInlined, EraseCompleted, RewriteHere,
         Returned, Goto, Recursion, ControlOK
<1>2. WorksSound(S)'
  <2>1. CASE RunRecurse \/ SkipKnownValue \/ TransformToNothing
    BY <2>1, SameWorkSound DEF RunRecurse, SkipKnownValue, TransformToNothing, Sound
  <2>2. CASE DropInlined \/ EraseCompleted \/ RewriteHere
    <3>1. pc = "return" /\ EraseCur
      BY <2>2 DEF DropInlined, EraseCompleted, RewriteHere, Returned
    <3> QED  BY <1>1, <3>1, EraseSound
  <2> QED  BY <2>1, <2>2
<1> QED  BY <1>1, <1>2, StaySound

(* A transform adds the AR that its algorithm has for a value of its       *)
(* input, as the equations demand.                                         *)
LEMMA TransformToSubsetSound ==
    ASSUME Recursion, Routing, NEW S, Sound(S), TransformToSubset
    PROVE  Sound(S)'
<1>1. stack # <<>> /\ pc = "return" /\ result.type = "NEXT_VALUE" /\ pc' = "run"
  BY DEF TransformToSubset, Returned, Goto
<1>2. This \in ARs /\ Work[This] \in Seq(SoundWorks(S, This))
  BY <1>1, TopFrame DEF Sound, WorksSound
<1>3. Analyzed \in ARs /\ SubsetWork(Analyzed) \in Works
  BY TransformedType DEF TransformToSubset
<1>4. result.VI \in S[Cur.AR]
  <2>1. Callee.AR = Cur.AR
    BY <1>1 DEF Callee
  <2> QED  BY <1>1, <2>1 DEF Sound, ResultSound
<1>5. S[Analyzed] \subseteq S[This]
  <2>1. Satisfies(sys.results, S, This, Cur)
    BY <1>1, CurSound
  <2>2. ~IsSubset(Cur) /\ Analyzed # NoAR
    BY DEF TransformToSubset, IsSubset, IsTransform
  <2> QED  BY <1>4, <2>1, <2>2 DEF Satisfies, Analyzed
<1>6. SubsetWork(Analyzed) \in SoundWorks(S, This)
  BY <1>3, <1>5 DEF SoundWorks, Satisfies, SubsetWork, IsSubset
<1> DEFINE w == InsertAt(Work[This], Ctx.Pos, SubsetWork(Analyzed))
<1>7. w \in Seq(SoundWorks(S, This))
  <2>1. Ctx.Pos \in 1 .. Len(Work[This])
    BY <1>1, CurType
  <2> QED  BY <1>2, <1>6, <2>1, InsertAtProperties
<1>8. SetWork(w) /\ UNCHANGED <<sys, Set, stack>>
  BY DEF TransformToSubset
<1> HIDE DEF w
<1>9. WorksSound(S)'
  BY <1>2, <1>7, <1>8, SetWorkSound DEF Sound
<1> QED  BY <1>1, <1>8, <1>9, StaySound

LEMMA InlineSubsetSound ==
    ASSUME Recursion, Routing, NEW S, Sound(S), InlineSubset
    PROVE  Sound(S)'
<1>1. stack # <<>> /\ pc = "return" /\ result.type = "INLINE" /\ pc' = "call" /\ IsSubset(Cur)
  BY DEF InlineSubset, Returned, Goto
<1>2. This \in ARs /\ Work[This] \in Seq(SoundWorks(S, This)) /\ Work[This] \in Seq(Works)
  BY <1>1, TopFrame DEF Sound, WorksSound
<1>3. Ctx.Pos \in 1 .. Len(Work[This]) /\ Ctx.Pos \in DOMAIN Work[This] /\ Cur \in Works
  BY <1>1, CurType
<1> DEFINE u == [Cur EXCEPT !.AR = result.AR, !.i = result.i]
           w == [Work[This] EXCEPT ![Ctx.Pos] = u]
<1>4. u \in Works /\ u.AR = result.AR /\ IsSubset(u)
  <2>1. result.AR \in ARs /\ result.i \in Nat
    BY <1>1 DEF Recursion, ControlOK, TypeOK, EnumerationResults
  <2> QED  BY <1>1, <1>3, <2>1 DEF Works, SubsetWorks, TransformWorks, IsSubset
<1>5. S[result.AR] \subseteq S[This]
  <2>1. S[result.AR] \subseteq S[Cur.AR]
    BY <1>1 DEF Sound, ResultSound, Callee
  <2> QED  BY <1>1, <2>1, CurSound
<1> HIDE DEF u
<1>6. u \in SoundWorks(S, This)
  BY <1>4, <1>5 DEF SoundWorks, Satisfies
<1>7. w \in Seq(SoundWorks(S, This))
  BY <1>2, <1>3, <1>6, ExceptSeq
<1>8. SetWork(w) /\ UNCHANGED <<sys, Set, stack>>
  <2>1. w = [Work[This] EXCEPT ![Ctx.Pos].AR = result.AR, ![Ctx.Pos].i = result.i]
    BY <1>2, <1>3 DEF w, u, Cur
  <2> QED  BY <2>1 DEF InlineSubset
<1> HIDE DEF w
<1>9. WorksSound(S)'
  BY <1>2, <1>7, <1>8, SetWorkSound DEF Sound
<1> QED  BY <1>1, <1>8, <1>9, StaySound

(* Retries and rewrites move the position of the last frame only. *)
LEMMA EditedFrames ==
    ASSUME Recursion, SkipRetried \/ RewriteBegin \/ RewriteKeep
    PROVE  /\ stack # <<>>
           /\ Len(stack') = Len(stack)
           /\ \A k \in 1 .. Len(stack) : stack'[k].AR = stack[k].AR /\ stack'[k].LTD = stack[k].LTD
<1>1. stack # <<>>
  BY DEF SkipRetried, RewriteBegin, RewriteKeep, Returned, Recursion, ControlOK
<1>2. PICK n \in Nat : n >= 1 /\ Len(stack) = n /\ Ctx = stack[n] /\ Ctx \in Contexts
  BY <1>1, TopFrame
<1>3. stack \in Seq(Contexts) /\ n \in 1 .. n
  BY <1>2 DEF Recursion, TypeOK
<1>4. PICK p, r : stack' = [stack EXCEPT ![n].Pos = p, ![n].Retry = r]
  <2>1. CASE SkipRetried
    BY <1>2, <2>1 DEF SkipRetried
  <2>2. ASSUME NEW q, stack' = [stack EXCEPT ![n].Pos = q]
        PROVE  stack' = [stack EXCEPT ![n].Pos = q, ![n].Retry = Ctx.Retry]
    <3>1. [Ctx EXCEPT !.Pos = q] = [Ctx EXCEPT !.Pos = q, !.Retry = Ctx.Retry]
      BY <1>2 DEF Contexts
    <3>2. stack' = [stack EXCEPT ![n] = [Ctx EXCEPT !.Pos = q]]
      BY <1>2, <2>2
    <3>3. stack' = [stack EXCEPT ![n] = [Ctx EXCEPT !.Pos = q, !.Retry = Ctx.Retry]]
      BY <3>1, <3>2
    <3> QED  BY <1>2, <1>3, <3>3
  <2>3. CASE RewriteBegin
    <3>1. stack' = [stack EXCEPT ![n].Pos = 1]
      BY <1>2, <2>3 DEF RewriteBegin, SetPos
    <3> QED  BY <2>2, <3>1
  <2>4. CASE RewriteKeep
    <3>1. stack' = [stack EXCEPT ![n].Pos = Ctx.Pos + 1]
      BY <1>2, <2>4 DEF RewriteKeep, SetPos
    <3> QED  BY <2>2, <3>1
  <2> QED  BY <2>1, <2>3, <2>4
<1> DEFINE c == [Ctx EXCEPT !.Pos = p, !.Retry = r]
<1>5. c.AR = Ctx.AR /\ c.LTD = Ctx.LTD
  BY <1>2 DEF Contexts
<1>6. stack' = [stack EXCEPT ![n] = c]
  BY <1>2, <1>3, <1>4
<1> HIDE DEF c
<1>7. Len(stack') = n /\ \A k \in 1 .. n : stack'[k] = IF k = n THEN c ELSE stack[k]
  <2>1. stack' \in [1 .. n -> Contexts \cup {c}]
    BY <1>2, <1>3, <1>6, LenProperties
  <2> QED  BY <1>2, <1>3, <1>6
<1> QED  BY <1>1, <1>2, <1>5, <1>7

LEMMA SkipRetriedSound ==
    ASSUME Recursion, Routing, NEW S, Sound(S), SkipRetried
    PROVE  Sound(S)'
<1>1. pc' = "run" /\ UNCHANGED <<sys, Set, Work>>
  BY DEF SkipRetried, Goto
<1>2. WorksSound(S)'
  BY <1>1, SameWorkSound DEF Sound
<1> QED  BY <1>1, <1>2, EditedFrames, StaySound

(* The target of a rewrite is a subset of what is rewritten. *)
LEMMA RewriteSound ==
    ASSUME Recursion, Routing, NEW S, Sound(S), RewriteBegin \/ RewriteKeep \/ RewriteDrop
    PROVE  Sound(S)'
<1>1. /\ stack # <<>>
      /\ pc' = "rewrite"
      /\ UNCHANGED <<sys, Set, result>>
  BY DEF Recursion, ControlOK, RewriteBegin, RewriteKeep, RewriteDrop, Returned
<1>2. S[result.AR] \subseteq S[This]
  <2>1. CASE RewriteBegin
    <3>1. pc = "return" /\ result.type = "REWRITE" /\ IsSubset(Cur)
      BY <2>1 DEF RewriteBegin, Returned
    <3>2. S[result.AR] \subseteq S[Cur.AR]
      BY <1>1, <3>1 DEF Sound, ResultSound, Callee
    <3> QED  BY <1>1, <3>1, <3>2, CurSound
  <2>2. CASE RewriteKeep \/ RewriteDrop
    BY <2>2 DEF RewriteKeep, RewriteDrop, Sound, ResultSound
  <2> QED  BY <2>1, <2>2
<1>3. WorksSound(S)'
  <2>1. CASE RewriteKeep
    BY <2>1, SameWorkSound DEF RewriteKeep, Sound
  <2>2. CASE RewriteBegin \/ RewriteDrop
    <3>1. EraseCur /\ (pc = "return" \/ ~AtEnd)
      BY <2>2 DEF RewriteBegin, RewriteDrop, Returned
    <3> QED  BY <1>1, <3>1, EraseSound
  <2> QED  BY <2>1, <2>2
<1>4. /\ Len(stack') = Len(stack)
      /\ \A k \in 1 .. Len(stack) : stack'[k].AR = stack[k].AR /\ stack'[k].LTD = stack[k].LTD
  <2>1. CASE RewriteBegin \/ RewriteKeep
    BY <2>1, EditedFrames
  <2>2. CASE RewriteDrop
    BY <2>2 DEF RewriteDrop
  <2> QED  BY <2>1, <2>2
<1> QED  BY <1>1, <1>2, <1>3, <1>4, StaySound

-----------------------------------------------------------------------------
(* Steps that return from the innermost activation. *)

LEMMA LeaveSound ==
    ASSUME Recursion, Routing, NEW S, Sound(S), stack # <<>>, SuspendedKept,
           cursor'.AR = cursor.AR,
           NEW er, Leave(er),
           er.type = "NEXT_VALUE" => er.VI \in S[This],
           er.type \in {"INLINE", "REWRITE"} => S[er.AR] \subseteq S[This],
           SetsSound(S)', WorksSound(S)'
    PROVE  Sound(S)'
<1>1. stack' = Front(stack) /\ pc' = "return" /\ result' = er
  BY DEF Leave, Return
<1>2. PICK n \in Nat : /\ n >= 1
                       /\ Len(stack) = n
                       /\ Len(stack') = n - 1
                       /\ \A k \in 1 .. n - 1 : stack'[k] = stack[k]
                       /\ Callee'.AR = This
  BY <1>1, AfterLeave DEF Routing
<1>3. ChainSound(S)'
  <2>1. n - 1 \in Nat /\ n - 1 <= n
    BY <1>2
  <2> QED  BY <1>2, <2>1, SameChain DEF Sound
<1>4. ResultSound(S)'
  BY <1>1, <1>2 DEF ResultSound
<1> QED  BY <1>3, <1>4 DEF Sound

LEMMA EndSound ==
    ASSUME Recursion, Routing, NEW S, Sound(S),
           RunInline \/ EndComplete \/ EndCancelRetry \/ EndRetry
    PROVE  Sound(S)'
<1>1. stack # <<>> /\ SuspendedKept /\ cursor'.AR = cursor.AR
  BY LeaveKept
<1>2. This \in ARs
  BY <1>1, TopFrame
<1>3. SetsSound(S)'
  BY DEF RunInline, EndComplete, EndCancelRetry, EndRetry, Sound, SetsSound
<1>4. WorksSound(S)'
  <2>1. CASE RunInline \/ EndComplete \/ EndRetry
    BY <2>1, SameWorkSound DEF RunInline, EndComplete, EndRetry, Sound
  <2>2. CASE EndCancelRetry
    BY <1>2, <2>2, EmptySeq, SetWorkSound DEF EndCancelRetry, Sound
  <2> QED  BY <2>1, <2>2
<1>5. CASE RunInline
  <2>1. S[Cur.AR] \subseteq S[This] /\ Leave(Inline(Cur))
    BY <1>1, <1>5, CurSound DEF RunInline
  <2>2. Inline(Cur).type = "INLINE" /\ Inline(Cur).AR = Cur.AR
    BY DEF Inline
  <2> QED  BY <1>1, <1>3, <1>4, <2>1, <2>2, LeaveSound
<1>6. CASE EndComplete \/ EndCancelRetry
  <2>1. Leave(Complete) /\ Complete.type = "COMPLETE"
    BY <1>6 DEF EndComplete, EndCancelRetry, Complete
  <2> QED  BY <1>1, <1>3, <1>4, <2>1, LeaveSound
<1>7. CASE EndRetry
  <2>1. Leave(Retry(Ctx.Retry)) /\ Retry(Ctx.Retry).type = "RETRY"
    BY <1>7 DEF EndRetry, Retry
  <2> QED  BY <1>1, <1>3, <1>4, <2>1, LeaveSound
<1> QED  BY <1>5, <1>6, <1>7

LEMMA AddNewValueSound ==
    ASSUME Recursion, Routing, NEW S, Sound(S), AddNewValue
    PROVE  Sound(S)'
<1>1. stack # <<>> /\ SuspendedKept /\ cursor'.AR = cursor.AR
  BY AddNewValueKept
<1>2. pc = "return" /\ result.type = "NEXT_VALUE" /\ IsSubset(Cur)
  BY DEF AddNewValue, Returned
<1>3. PICK n \in Nat : /\ n >= 1
                       /\ Len(stack) = n
                       /\ This \in ARs
                       /\ \A k \in 1 .. n - 1 : /\ stack[k].AR \in ARs
                                                /\ stack[k].Pos \in DOMAIN Work[stack[k].AR]
  BY <1>1, TopFrame
<1>4. result.VI \in S[This] /\ result.VI \in VIs
  <2>1. Callee.AR = Cur.AR
    BY <1>1 DEF Callee
  <2> QED  BY <1>1, <1>2, <2>1, CurSound DEF Sound, ResultSound, Recursion, ControlOK
<1>5. SetsSound(S)'
  <2>1. Set \in [ARs -> Seq(VIs)] /\ Set' = [Set EXCEPT ![This] = Append(@, result.VI)]
    BY DEF Recursion, TypeOK, AddNewValue
  <2>2. ToSet(Append(Set[This], result.VI)) = ToSet(Set[This]) \cup {result.VI}
    BY <1>3, <1>4, <2>1, ToSetAppend
  <2> QED  BY <1>3, <1>4, <2>1, <2>2 DEF Sound, SetsSound
<1>6. WorksSound(S)'
  <2>1. /\ Front(stack) \in Seq(Contexts)
        /\ Len(Front(stack)) = n - 1
        /\ \A k \in 1 .. n - 1 : Front(stack)[k] = stack[k]
    BY <1>3, FrontProperties DEF Recursion, TypeOK
  <2>2. Front(stack) # <<>> => /\ Last(Front(stack)).AR \in ARs
                               /\ Last(Front(stack)).Pos \in DOMAIN Work[Last(Front(stack)).AR]
    <3> SUFFICES ASSUME Front(stack) # <<>>
                 PROVE  Last(Front(stack)) = stack[n - 1] /\ n - 1 \in 1 .. n - 1
      BY <1>3
    <3>1. n - 1 \in 1 .. n - 1
      BY <1>3, <2>1, EmptySeq
    <3> QED  BY <2>1, <3>1 DEF Last
  <2> QED  BY <2>1, <2>2, AdvanceSound DEF AddNewValue, Sound
<1>7. Leave(result)
  BY DEF AddNewValue
<1> QED  BY <1>1, <1>2, <1>4, <1>5, <1>6, <1>7, LeaveSound

(* The target takes over the work: what is rewritten is a subset of it,    *)
(* for there is no transform in between.                                   *)
LEMMA RewriteSpliceSound ==
    ASSUME Recursion, Routing, NEW S, Sound(S), RewriteSplice
    PROVE  Sound(S)'
<1>1. /\ stack # <<>> /\ SuspendedKept /\ cursor'.AR = cursor.AR
      /\ pc = "rewrite" /\ result.type = "REWRITE"
  BY LeaveKept DEF RewriteSplice, Recursion, ControlOK
<1>2. PICK n \in Nat : /\ n >= 1
                       /\ Len(stack) = n
                       /\ Ctx = stack[n]
                       /\ This = Ctx.AR
                       /\ This \in ARs
                       /\ Depth = n - 1
  BY <1>1, TopFrame
<1> DEFINE t == result.AR
<1>3. t \in ARs /\ t # This /\ EnumerationDepth[t] \in 0 .. Depth - 1 /\ Ctx.LTD < EnumerationDepth[t]
  BY <1>1, RewriteTarget DEF Routing, ResultRouted
<1>4. S[This] \subseteq S[t]
  <2> DEFINE j == EnumerationDepth[t] + 1
  <2>1. j \in 1 .. n /\ n \in 1 .. n /\ stack[n].LTD < j - 1
    BY <1>2, <1>3
  <2>2. stack[j].AR = t
    BY <1>3 DEF Recursion, DepthsMirrorStack
  <2> HIDE DEF j
  <2> QED  BY <1>2, <2>1, <2>2 DEF Sound, ChainSound
<1>5. S[t] \subseteq S[This]
  BY <1>1 DEF Sound, ResultSound
<1>6. Work[This] \in Seq(SoundWorks(S, t)) /\ Work[t] \in Seq(SoundWorks(S, t))
  <2>1. SoundWorks(S, This) \subseteq SoundWorks(S, t)
    BY <1>4 DEF SoundWorks, Satisfies
  <2> QED  BY <1>2, <1>3, <2>1, SeqMonotonic DEF Sound, WorksSound
<1>7. Work[t] \o Work[This] \in Seq(SoundWorks(S, t))
  BY <1>6, ConcatProperties
<1>8. <<SubsetWork(t)>> \in Seq(SoundWorks(S, This))
  <2>1. SubsetWork(t) \in SoundWorks(S, This)
    BY <1>3, <1>5 DEF SoundWorks, SubsetWork, Works, SubsetWorks, Satisfies, IsSubset
  <2> QED  BY <2>1
<1>9. WorksSound(S)'
  <2>1. Work \in [ARs -> Seq(Works)] /\ sys' = sys
    BY DEF Recursion, TypeOK, RewriteSplice
  <2>2. Work' = [Work EXCEPT ![t] = Work[t] \o Work[This], ![This] = <<SubsetWork(t)>>]
    BY DEF RewriteSplice
  <2>3. \A a \in ARs : SoundWorks(S, a)' = SoundWorks(S, a)
    BY <2>1 DEF SoundWorks
  <2> HIDE DEF t
  <2> QED  BY <1>2, <1>3, <1>7, <1>8, <2>1, <2>2, <2>3 DEF Sound, WorksSound
<1>10. SetsSound(S)' /\ Leave(result)
  BY DEF Sound, SetsSound, RewriteSplice
<1> QED  BY <1>1, <1>5, <1>9, <1>10, LeaveSound

-----------------------------------------------------------------------------
EverySound == \A S \in Solutions(sys) : Sound(S)

LEMMA InitSound ==
    ASSUME Init
    PROVE  EverySound
<1> SUFFICES ASSUME NEW S \in Solutions(sys)
             PROVE  Sound(S)
  BY DEF EverySound
<1>1. Recursion /\ Set = sys.set /\ Work = sys.work /\ stack = <<>> /\ Len(stack) = 0 /\ pc = "idle"
  BY InitRecursion, EmptySeq DEF Init, StartsFrom
<1>2. IsSolution(sys, S)
  BY DEF Solutions
<1>3. SetsSound(S) /\ ResultSound(S) /\ ChainSound(S)
  BY <1>1, <1>2 DEF SetsSound, ResultSound, ChainSound, IsSolution
<1>4. WorksSound(S)
  <2> SUFFICES ASSUME NEW a \in ARs
               PROVE  Work[a] \in Seq(SoundWorks(S, a))
    BY DEF WorksSound
  <2>1. Work[a] \in Seq(Works)
    BY <1>1 DEF Recursion, TypeOK
  <2>2. \A k \in DOMAIN Work[a] : Work[a][k] \in SoundWorks(S, a)
    BY <1>1, <1>2, <2>1, LenProperties, ElementOfSeq DEF IsSolution, SoundWorks
  <2> QED  BY <2>1, <2>2, SeqOverSubset
<1> QED  BY <1>3, <1>4 DEF Sound

LEMMA NextSound ==
    ASSUME Recursion, Routing, EverySound, [Next]_vars
    PROVE  EverySound'
<1>1. sys' = sys
  BY DEF Next, Step, Enter, Run, Handle, EnterRewrite, EnterCached, EnterRetry, EnterRun,
         RunInline, RunRecurse, EndComplete, EndCancelRetry, EndRetry, AddNewValue, SkipKnownValue,
         TransformToNothing, TransformToSubset, InlineSubset, DropInlined, SkipRetried,
         EraseCompleted, RewriteHere, RewriteBegin, RewriteKeep, RewriteDrop, RewriteSplice,
         Answer, Query, vars
<1> SUFFICES ASSUME NEW S \in Solutions(sys), Sound(S)
             PROVE  Sound(S)'
  BY <1>1 DEF EverySound
<1>2. CASE Enter
  BY <1>2, EnterSound, EnterRunSound DEF Enter
<1>3. CASE Run
  BY <1>3, HandleSound, EndSound DEF Run
<1>4. CASE Handle
  BY <1>4, HandleSound, TransformToSubsetSound, InlineSubsetSound, SkipRetriedSound, RewriteSound,
     AddNewValueSound, RewriteSpliceSound DEF Handle
<1>5. CASE Answer \/ \E a \in ARs : \E i \in 0 .. Len(Set[a]) : Query(a, i)
  <2>1. pc' \in {"idle", "call"} /\ UNCHANGED <<sys, Set, Work, stack>>
    BY <1>5 DEF Answer, Query, Goto
  <2>2. WorksSound(S)'
    BY <2>1, SameWorkSound DEF Sound
  <2> QED  BY <2>1, <2>2 DEF Sound, SetsSound, ResultSound, ChainSound
<1>6. CASE UNCHANGED vars
  <2>1. Callee' = Callee /\ This' = This
    BY <1>6, SameDepths DEF vars, This, Ctx
  <2>2. WorksSound(S)'
    BY <1>6, SameWorkSound DEF vars, Sound
  <2> QED  BY <1>6, <2>1, <2>2 DEF vars, Sound, SetsSound, ResultSound, ChainSound
<1> QED  BY <1>2, <1>3, <1>4, <1>5, <1>6 DEF Next, Step

LEMMA SoundInvariant == Spec => [](Recursion /\ EverySound)
<1>1. Init => EverySound
  BY InitSound
<1>2. Recursion /\ Routing /\ EverySound /\ [Next]_vars => EverySound'
  BY NextSound
<1> QED  BY <1>1, <1>2, RoutingInvariant, PTL DEF Spec

(* alias() may answer NoAlias for pointers whose sets have no value in     *)
(* common: the engine never puts a value into a set that the equations do  *)
(* not force into it, however it inlines, rewrites, retries and splices.   *)
THEOREM SetsArePrecise == Spec => []Precise
<1>1. ASSUME Recursion, EverySound
      PROVE  Precise
  <2> SUFFICES ASSUME NEW a \in ARs, NEW v \in ToSet(Set[a])
               PROVE  v \in LeastSolution(sys)[a]
    BY DEF Precise
  <2>1. \A S \in Solutions(sys) : v \in S[a]
    BY <1>1 DEF EverySound, Sound, SetsSound
  <2>2. v \in VIs
    <3>1. Set[a] \in Seq(VIs)
      BY <1>1 DEF Recursion, TypeOK
    <3> QED  BY <3>1, LenProperties, ElementOfSeq DEF ToSet
  <2> QED  BY <2>1, <2>2 DEF LeastSolution
<1> QED  BY <1>1, SoundInvariant, PTL


-----------------------------------------------------------------------------
(* Positions: no Enumerator is ahead of the set it enumerates.             *)

InRangeWorks == {w \in Works : w.i <= Len(Set[w.AR])}

WorksInRange  == \A a \in ARs : Work[a] \in Seq(InRangeWorks)
CursorInRange == pc # "idle" => cursor.i <= Len(Set[cursor.AR])
ResultInRange == pc = "return" /\ result.type = "INLINE" => result.i <= Len(Set[result.AR])

InRange == WorksInRange /\ CursorInRange /\ ResultInRange

LEMMA LenOfSet ==
    ASSUME Recursion, NEW a \in ARs
    PROVE  Len(Set[a]) \in Nat
BY LenProperties DEF Recursion, TypeOK

(* One work list changes, if any, and no set. *)
LEMMA SetWorkInRange ==
    ASSUME Recursion, WorksInRange, This \in ARs, Set' = Set,
           NEW w \in Seq(InRangeWorks), SetWork(w)
    PROVE  WorksInRange'
<1>1. InRangeWorks' = InRangeWorks
  BY DEF InRangeWorks
<1>2. Work \in [ARs -> Seq(Works)] /\ Work' = [Work EXCEPT ![This] = w]
  BY DEF Recursion, TypeOK, SetWork
<1> QED  BY <1>1, <1>2 DEF WorksInRange

LEMMA SameWorkInRange ==
    ASSUME WorksInRange, UNCHANGED <<Set, Work>>
    PROVE  WorksInRange'
BY DEF WorksInRange, InRangeWorks

(* Steps after which every Enumerator is where it was, or is gone. *)
LEMMA StayInRange ==
    ASSUME InRange, UNCHANGED <<Set, cursor>>, pc # "idle", WorksInRange',
           pc' # "return" \/ result'.type # "INLINE"
    PROVE  InRange'
BY DEF InRange, CursorInRange, ResultInRange

LEMMA SameWorkSteps ==
    ASSUME Recursion, Routing, InRange,
           \/ EnterRewrite \/ EnterRetry \/ EnterRun \/ RunRecurse \/ EndComplete \/ EndRetry
           \/ SkipKnownValue \/ TransformToNothing \/ SkipRetried \/ RewriteKeep
    PROVE  InRange'
<1>1. pc # "idle" /\ UNCHANGED <<Set, Work, cursor>>
  BY DEF EnterRewrite, EnterRetry, EnterRun, RunRecurse, EndComplete, EndRetry,
         SkipKnownValue, TransformToNothing, SkipRetried, RewriteKeep, Returned
<1>2. pc' # "return" \/ result'.type # "INLINE"
  <2>1. CASE EnterRewrite
    BY <2>1 DEF EnterRewrite, Return, Rewrite
  <2>2. CASE EnterRetry
    BY <2>2 DEF EnterRetry, Return, Retry
  <2>3. CASE EndComplete
    BY <2>3 DEF EndComplete, Leave, Return, Complete
  <2>4. CASE EndRetry
    BY <2>4 DEF EndRetry, Leave, Return, Retry
  <2>5. CASE EnterRun \/ RunRecurse \/ SkipKnownValue \/ TransformToNothing \/ SkipRetried
    BY <2>5 DEF EnterRun, RunRecurse, SkipKnownValue, TransformToNothing, SkipRetried, Goto
  <2>6. CASE RewriteKeep
    BY <2>6 DEF RewriteKeep
  <2> QED  BY <2>1, <2>2, <2>3, <2>4, <2>5, <2>6
<1>3. WorksInRange'
  BY <1>1, SameWorkInRange DEF InRange
<1> QED  BY <1>1, <1>2, <1>3, StayInRange

LEMMA EraseSteps ==
    ASSUME Recursion, Routing, InRange,
           \/ EndCancelRetry \/ DropInlined \/ EraseCompleted
           \/ RewriteHere \/ RewriteBegin \/ RewriteDrop
    PROVE  InRange'
<1>1. stack # <<>> /\ pc # "idle" /\ UNCHANGED <<Set, cursor>>
  BY DEF EndCancelRetry, DropInlined, EraseCompleted, RewriteHere, RewriteBegin, RewriteDrop,
         Returned, Recursion, ControlOK
<1>2. This \in ARs
  BY <1>1, TopFrame
<1>3. CASE EndCancelRetry
  <2>1. SetWork(<<>>) /\ result'.type # "INLINE"
    BY <1>3 DEF EndCancelRetry, Leave, Return, Complete
  <2>2. WorksInRange'
    BY <1>1, <1>2, <2>1, EmptySeq, SetWorkInRange DEF InRange
  <2> QED  BY <1>1, <2>1, <2>2, StayInRange
<1>4. CASE DropInlined \/ EraseCompleted \/ RewriteHere \/ RewriteBegin \/ RewriteDrop
  <2>1. EraseCur /\ (pc = "return" \/ ~AtEnd) /\ pc' # "return"
    BY <1>4 DEF DropInlined, EraseCompleted, RewriteHere, RewriteBegin, RewriteDrop, Returned, Goto
  <2>2. RemoveAt(Work[This], Ctx.Pos) \in Seq(InRangeWorks)
    BY <1>1, <1>2, <2>1, EraseInList DEF InRange, WorksInRange
  <2>3. WorksInRange'
    BY <1>1, <1>2, <2>1, <2>2, SetWorkInRange DEF EraseCur, InRange
  <2> QED  BY <1>1, <2>1, <2>3, StayInRange
<1> QED  BY <1>3, <1>4


(* What is offered for inlining is the Enumerator that the work holds. *)
LEMMA RunInlineInRange ==
    ASSUME Recursion, Routing, InRange, RunInline
    PROVE  InRange'
<1>1. /\ stack # <<>> /\ ~AtEnd /\ pc = "run"
      /\ UNCHANGED <<Set, Work, cursor>>
      /\ result' = Inline(Cur)
  BY DEF RunInline, Leave, Return, Recursion, ControlOK
<1>2. Cur \in InRangeWorks
  <2>1. This \in ARs
    BY <1>1, TopFrame
  <2> QED  BY <1>1, <2>1, CurInList DEF InRange, WorksInRange
<1>3. ResultInRange'
  BY <1>1, <1>2 DEF ResultInRange, Inline, InRangeWorks
<1> QED  BY <1>1, <1>3, SameWorkInRange DEF InRange, CursorInRange

(* A new SubsetWork starts at position 0. *)
LEMMA TransformToSubsetInRange ==
    ASSUME Recursion, Routing, InRange, TransformToSubset
    PROVE  InRange'
<1>1. /\ stack # <<>> /\ pc = "return" /\ pc' = "run"
      /\ UNCHANGED <<Set, cursor>>
  BY DEF TransformToSubset, Returned, Goto
<1>2. This \in ARs /\ Ctx.Pos \in 1 .. Len(Work[This])
  BY <1>1, TopFrame, CurType
<1>3. SubsetWork(Analyzed) \in InRangeWorks
  <2>1. Analyzed \in ARs /\ SubsetWork(Analyzed) \in Works
    BY TransformedType DEF TransformToSubset
  <2> QED  BY <2>1, LenOfSet DEF InRangeWorks, SubsetWork
<1>4. InsertAt(Work[This], Ctx.Pos, SubsetWork(Analyzed)) \in Seq(InRangeWorks)
  BY <1>2, <1>3, InsertAtProperties DEF InRange, WorksInRange
<1>5. WorksInRange'
  BY <1>1, <1>2, <1>4, SetWorkInRange DEF TransformToSubset, InRange
<1> QED  BY <1>1, <1>5, StayInRange

(* The Enumerator that takes the place of another was some work's. *)
LEMMA InlineSubsetInRange ==
    ASSUME Recursion, Routing, InRange, InlineSubset
    PROVE  InRange'
<1>1. /\ stack # <<>> /\ pc = "return" /\ pc' = "call" /\ result.type = "INLINE" /\ IsSubset(Cur)
      /\ UNCHANGED <<Set, cursor>>
  BY DEF InlineSubset, Returned, Goto
<1>2. This \in ARs /\ Work[This] \in Seq(InRangeWorks) /\ Work[This] \in Seq(Works)
  BY <1>1, TopFrame DEF InRange, WorksInRange
<1>3. Ctx.Pos \in 1 .. Len(Work[This]) /\ Ctx.Pos \in DOMAIN Work[This] /\ Cur \in Works
  BY <1>1, CurType
<1> DEFINE u == [Cur EXCEPT !.AR = result.AR, !.i = result.i]
           w == [Work[This] EXCEPT ![Ctx.Pos] = u]
<1>4. u \in Works /\ u.AR = result.AR /\ u.i = result.i
  <2>1. result.AR \in ARs /\ result.i \in Nat
    BY <1>1 DEF Recursion, ControlOK, TypeOK, EnumerationResults
  <2> QED  BY <1>1, <1>3, <2>1 DEF Works, SubsetWorks, TransformWorks, IsSubset
<1>5. SetWork(w)
  <2>1. w = [Work[This] EXCEPT ![Ctx.Pos].AR = result.AR, ![Ctx.Pos].i = result.i]
    BY <1>2, <1>3 DEF w, u, Cur
  <2> QED  BY <2>1 DEF InlineSubset
<1> HIDE DEF u
<1>6. u \in InRangeWorks
  BY <1>1, <1>4 DEF InRangeWorks, InRange, ResultInRange
<1>7. w \in Seq(InRangeWorks)
  BY <1>2, <1>3, <1>6, ExceptSeq
<1> HIDE DEF w
<1>8. WorksInRange'
  BY <1>1, <1>2, <1>5, <1>7, SetWorkInRange DEF InRange
<1> QED  BY <1>1, <1>8, StayInRange

LEMMA RewriteSpliceInRange ==
    ASSUME Recursion, Routing, InRange, RewriteSplice
    PROVE  InRange'
<1> DEFINE t == result.AR
<1>1. /\ stack # <<>> /\ pc = "rewrite" /\ result' = result /\ result.type = "REWRITE"
      /\ UNCHANGED <<Set, cursor>>
      /\ Work' = [Work EXCEPT ![t] = Work[t] \o Work[This], ![This] = <<SubsetWork(t)>>]
  BY DEF RewriteSplice, Leave, Return, Recursion, ControlOK
<1>2. This \in ARs /\ t \in ARs /\ t # This
  BY <1>1, TopFrame, RewriteTarget
<1>3. Work[t] \o Work[This] \in Seq(InRangeWorks)
  BY <1>2, ConcatProperties DEF InRange, WorksInRange
<1>4. <<SubsetWork(t)>> \in Seq(InRangeWorks)
  <2>1. SubsetWork(t) \in InRangeWorks
    BY <1>2, LenOfSet DEF InRangeWorks, SubsetWork, Works, SubsetWorks
  <2> QED  BY <2>1
<1>5. WorksInRange'
  <2>1. Work \in [ARs -> Seq(Works)] /\ InRangeWorks' = InRangeWorks
    BY <1>1 DEF Recursion, TypeOK, InRangeWorks
  <2> HIDE DEF t
  <2> QED  BY <1>1, <1>2, <1>3, <1>4, <2>1 DEF InRange, WorksInRange
<1> QED  BY <1>1, <1>5, StayInRange

(* The caller's Enumerator moves on to a value that the set has. *)
LEMMA EnterCachedInRange ==
    ASSUME Recursion, Routing, InRange, EnterCached
    PROVE  InRange'
<1>1. /\ pc = "call" /\ Set' = Set /\ Advance(stack)
      /\ Callee.i < Len(Set[Callee.AR])
      /\ result'.type # "INLINE"
  BY DEF EnterCached, IsCached, Return, NextValue
<1>2. Callee.AR \in ARs /\ Callee.i \in Nat /\ Len(Set[Callee.AR]) \in Nat
  BY <1>1, CalleeType, LenOfSet
<1>3. Callee.i + 1 <= Len(Set[Callee.AR])
  BY <1>1, <1>2
<1>4. CASE stack = <<>>
  <2>1. cursor' = [cursor EXCEPT !.i = @ + 1] /\ Work' = Work /\ Callee = cursor
    BY <1>1, <1>4 DEF Advance, Callee
  <2>2. cursor'.AR = cursor.AR /\ cursor'.i = cursor.i + 1
    BY <2>1 DEF Recursion, TypeOK, Enumerators
  <2>3. WorksInRange'
    BY <1>1, <2>1, SameWorkInRange DEF InRange
  <2> QED  BY <1>1, <1>3, <2>1, <2>2, <2>3 DEF InRange, CursorInRange, ResultInRange
<1>5. CASE stack # <<>>
  <2>1. cursor' = cursor /\ Callee.AR = Cur.AR /\ Callee.i = Cur.i
    BY <1>1, <1>5 DEF Advance, Callee
  <2>2. Ctx = Last(stack) /\ Last(stack).AR \in ARs /\ Last(stack).Pos \in DOMAIN Work[Last(stack).AR]
    BY <1>1, <1>5, LastFrame
  <2>3. [Cur EXCEPT !.i = @ + 1] \in InRangeWorks
    <3>1. Cur \in Works
      BY <1>1, <1>5, CurType
    <3> QED  BY <1>2, <1>3, <2>1, <3>1 DEF InRangeWorks, Works, SubsetWorks, TransformWorks
  <2>4. stack \in Seq(Contexts) /\ Work[This] \in Seq(InRangeWorks)
    BY <2>2 DEF Recursion, TypeOK, InRange, WorksInRange, This
  <2>5. Work'[This] \in Seq(InRangeWorks)
    BY <1>1, <1>5, <2>2, <2>3, <2>4, AdvanceInList DEF This, Cur
  <2>6. \A a \in ARs \ {This} : Work'[a] = Work[a]
    BY <1>1, <1>5, <2>2 DEF Advance, Recursion, TypeOK, This
  <2>7. InRangeWorks' = InRangeWorks
    BY <1>1 DEF InRangeWorks
  <2>8. WorksInRange'
    BY <2>5, <2>6, <2>7 DEF InRange, WorksInRange
  <2> QED  BY <1>1, <2>1, <2>8, StayInRange
<1> QED  BY <1>4, <1>5


(* The set grows by the value that the caller's Enumerator moves past. *)
LEMMA AddNewValueInRange ==
    ASSUME Recursion, Routing, InRange, AddNewValue
    PROVE  InRange'
<1>1. /\ stack # <<>> /\ pc = "return" /\ result.type = "NEXT_VALUE"
      /\ cursor' \in Enumerators /\ cursor'.AR = cursor.AR
  BY AddNewValueKept DEF AddNewValue, Returned
<1>2. PICK n \in Nat : /\ n >= 1
                       /\ Len(stack) = n
                       /\ This = stack[n].AR
                       /\ This \in ARs
                       /\ \A k \in 1 .. n - 1 : /\ stack[k].AR \in ARs
                                                /\ stack[k].Pos \in DOMAIN Work[stack[k].AR]
  BY <1>1, TopFrame
<1>3. /\ Set' = [Set EXCEPT ![This] = Append(Set[This], result.VI)]
      /\ Advance(Front(stack))
      /\ pc' = "return" /\ result' = result
  BY DEF AddNewValue, Leave, Return
<1>4. /\ Len(Set'[This]) = Len(Set[This]) + 1
      /\ \A a \in ARs : Len(Set[a]) \in Nat /\ Len(Set'[a]) \in Nat /\ Len(Set[a]) <= Len(Set'[a])
  <2>1. Set \in [ARs -> Seq(VIs)] /\ result.VI \in VIs
    BY <1>1 DEF Recursion, TypeOK, ControlOK
  <2>2. Append(Set[This], result.VI) \in Seq(VIs) /\ Len(Append(Set[This], result.VI)) = Len(Set[This]) + 1
    BY <1>2, <2>1, AppendProperties
  <2> QED  BY <1>2, <1>3, <2>1, <2>2, LenOfSet
<1>5. InRangeWorks \subseteq InRangeWorks'
  <2> SUFFICES ASSUME NEW w \in Works, w.i <= Len(Set[w.AR])
               PROVE  w.i <= Len(Set'[w.AR])
    BY DEF InRangeWorks
  <2>1. w.AR \in ARs /\ w.i \in Nat
    BY DEF Works, SubsetWorks, TransformWorks
  <2> QED  BY <1>4, <2>1
<1>6. /\ Front(stack) \in Seq(Contexts)
      /\ Len(Front(stack)) = n - 1
      /\ \A k \in 1 .. n - 1 : Front(stack)[k] = stack[k]
  BY <1>1, <1>2, FrontProperties DEF Recursion, TypeOK
<1>7. \A a \in ARs : Work[a] \in Seq(InRangeWorks) /\ Work[a] \in Seq(InRangeWorks')
  BY <1>5, SeqMonotonic DEF InRange, WorksInRange
<1>8. CASE n = 1
  <2>1. Front(stack) = <<>>
    BY <1>6, <1>8, EmptySeq
  <2>2. cursor' = [cursor EXCEPT !.i = @ + 1] /\ Work' = Work
    BY <1>3, <2>1 DEF Advance
  <2>3. cursor.AR = This /\ cursor.i \in Nat /\ cursor'.i = cursor.i + 1 /\ cursor.i <= Len(Set[This])
    BY <1>1, <1>2, <1>8, <2>2
       DEF Routing, RootIsCursor, Recursion, TypeOK, Enumerators, InRange, CursorInRange
  <2>4. CursorInRange'
    BY <1>1, <1>2, <1>4, <2>3 DEF CursorInRange
  <2> QED  BY <1>1, <1>3, <1>7, <2>2, <2>4 DEF InRange, WorksInRange, ResultInRange
<1>9. CASE n # 1
  <2> DEFINE b == stack[n - 1].AR
             w == Work[b][stack[n - 1].Pos]
  <2>1. n - 1 \in 1 .. n - 1 /\ n - 1 \in 1 .. n /\ n - 1 < n
    BY <1>2, <1>9
  <2>2. Front(stack) # <<>> /\ Last(Front(stack)) = stack[n - 1]
    BY <1>6, <2>1, EmptySeq DEF Last
  <2>3. b \in ARs /\ stack[n - 1].Pos \in DOMAIN Work[b] /\ Last(Front(stack)).AR = b
    BY <1>2, <2>1, <2>2
  <2>4. w.AR = This
    BY <1>2, <2>1 DEF Recursion, IteratorsValid, Running
  <2>5. w \in Works /\ w.i <= Len(Set[This])
    <3>1. Work[b] \in Seq(InRangeWorks)
      BY <1>7, <2>3
    <3>2. w \in InRangeWorks
      BY <2>3, <3>1, LenProperties, ElementOfSeq
    <3> QED  BY <2>4, <3>2 DEF InRangeWorks
  <2>6. [w EXCEPT !.i = @ + 1] \in InRangeWorks'
    <3> HIDE DEF w
    <3>1. w.i \in Nat /\ w.i + 1 <= Len(Set'[This])
      BY <1>2, <1>4, <2>5 DEF Works, SubsetWorks, TransformWorks
    <3>2. [w EXCEPT !.i = @ + 1] \in Works
      BY <2>5 DEF Works, SubsetWorks, TransformWorks
    <3>3. [w EXCEPT !.i = @ + 1].AR = This /\ [w EXCEPT !.i = @ + 1].i = w.i + 1
      BY <2>4, <2>5 DEF Works, SubsetWorks, TransformWorks
    <3> QED  BY <3>1, <3>2, <3>3 DEF InRangeWorks
  <2>7. Work'[b] \in Seq(InRangeWorks')
    BY <1>3, <1>5, <1>6, <1>7, <2>2, <2>3, <2>6, AdvanceInList
  <2>8. \A a \in ARs \ {b} : Work'[a] = Work[a]
    BY <1>3, <2>2, <2>3 DEF Advance, Recursion, TypeOK
  <2>9. WorksInRange'
    BY <1>7, <2>7, <2>8 DEF WorksInRange
  <2>10. CursorInRange'
    <3>1. cursor' = cursor /\ cursor.AR \in ARs /\ cursor.i \in Nat /\ cursor.i <= Len(Set[cursor.AR])
      BY <1>1, <1>3, <2>2
         DEF Advance, Recursion, ControlOK, TypeOK, Enumerators, InRange, CursorInRange
    <3> QED  BY <1>4, <3>1 DEF CursorInRange
  <2> QED  BY <1>1, <1>3, <2>9, <2>10 DEF InRange, ResultInRange
<1> QED  BY <1>8, <1>9

LEMMA QueryInRange ==
    ASSUME Recursion, InRange, Answer \/ \E a \in ARs : \E i \in 0 .. Len(Set[a]) : Query(a, i)
    PROVE  InRange'
<1>1. UNCHANGED <<Set, Work>> /\ pc' # "return"
  BY DEF Answer, Query, Goto
<1>2. CursorInRange'
  <2>1. CASE Answer
    BY <2>1 DEF Answer, Goto, CursorInRange
  <2>2. CASE \E a \in ARs : \E i \in 0 .. Len(Set[a]) : Query(a, i)
    <3>1. PICK a \in ARs : \E i \in 0 .. Len(Set[a]) : Query(a, i)
      BY <2>2
    <3>2. PICK i \in 0 .. Len(Set[a]) : Query(a, i)
      BY <3>1
    <3>3. cursor' = [AR |-> a, i |-> i] /\ i <= Len(Set[a])
      BY <3>2, LenOfSet DEF Query
    <3> QED  BY <1>1, <3>3 DEF CursorInRange
  <2> QED  BY <2>1, <2>2
<1> QED  BY <1>1, <1>2, SameWorkInRange DEF InRange, ResultInRange

(* Every Enumerator starts at the beginning of its set. *)
LEMMA InitInRange ==
    ASSUME Init
    PROVE  InRange
<1>1. Recursion /\ sys \in Systems /\ Work = sys.work /\ pc = "idle"
  BY InitRecursion DEF Init, StartsFrom
<1>2. WorksInRange
  <2> SUFFICES ASSUME NEW a \in ARs
               PROVE  Work[a] \in Seq(InRangeWorks)
    BY DEF WorksInRange
  <2>1. Work[a] \in Seq(Works)
    BY <1>1 DEF Recursion, TypeOK
  <2>2. ASSUME NEW k \in DOMAIN Work[a]
        PROVE  Work[a][k] \in InRangeWorks
    <3>1. Work[a][k] \in Works
      BY <2>1, <2>2, LenProperties, ElementOfSeq
    <3>2. Work[a][k].i = 0
      BY <1>1, <2>2, FreshAssumption
    <3>3. Work[a][k].AR \in ARs
      BY <3>1 DEF Works, SubsetWorks, TransformWorks
    <3>4. Len(Set[Work[a][k].AR]) \in Nat
      BY <1>1, <3>3, LenOfSet
    <3> QED  BY <3>1, <3>2, <3>4 DEF InRangeWorks
  <2> QED  BY <2>1, <2>2, SeqOverSubset
<1> QED  BY <1>1, <1>2 DEF InRange, CursorInRange, ResultInRange

LEMMA NextInRange ==
    ASSUME Recursion, Routing, InRange, [Next]_vars
    PROVE  InRange'
<1>1. CASE Enter
  BY <1>1, SameWorkSteps, EnterCachedInRange DEF Enter
<1>2. CASE Run
  BY <1>2, SameWorkSteps, EraseSteps, RunInlineInRange DEF Run
<1>3. CASE Handle
  BY <1>3, SameWorkSteps, EraseSteps, AddNewValueInRange, TransformToSubsetInRange,
     InlineSubsetInRange, RewriteSpliceInRange DEF Handle
<1>4. CASE Answer \/ \E a \in ARs : \E i \in 0 .. Len(Set[a]) : Query(a, i)
  BY <1>4, QueryInRange
<1>5. CASE UNCHANGED vars
  BY <1>5, SameWorkInRange DEF vars, InRange, CursorInRange, ResultInRange
<1> QED  BY <1>1, <1>2, <1>3, <1>4, <1>5 DEF Next, Step

(* The assert(i <= Set.size()) at the head of AnalysisResult::enumerate    *)
(* cannot fail: no Enumerator is ahead of the set that it enumerates,      *)
(* neither the client's nor those of the works that were inlined, spliced  *)
(* or advanced.                                                            *)
THEOREM PositionsStayInRange == Spec => []PositionsInRange
<1>1. Init => InRange
  BY InitInRange
<1>2. Recursion /\ Routing /\ InRange /\ [Next]_vars => InRange'
  BY NextInRange
<1>3. ASSUME Recursion, InRange
      PROVE  PositionsInRange
  <2> SUFFICES ASSUME NEW a \in ARs, NEW k \in DOMAIN Work[a]
               PROVE  Work[a][k] \in InRangeWorks
    BY <1>3 DEF PositionsInRange, InRange, CursorInRange, InRangeWorks
  <2>1. Work[a] \in Seq(InRangeWorks)
    BY <1>3 DEF InRange, WorksInRange
  <2> QED  BY <2>1, LenProperties, ElementOfSeq
<1> QED  BY <1>1, <1>2, <1>3, RoutingInvariant, PTL DEF Spec
===============================================================================
