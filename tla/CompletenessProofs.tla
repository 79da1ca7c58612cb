-------------------------- MODULE CompletenessProofs --------------------------
(***************************************************************************)
(* What enumeration finds where no AR can come to be a subset of one of    *)
(* its own subsets, for every set of ARs, values and algorithms: every     *)
(* value that the equations force into a set is found in it, now or by the *)
(* work that is left, however work is inlined, dropped, retried and given  *)
(* up. No program's equations are like that altogether: SettledProofs      *)
(* applies what is shown here to the part of any system that is.           *)
(***************************************************************************)
EXTENDS AnalysisResultProofs

-----------------------------------------------------------------------------
(* Work lists as sets of works.                                            *)

LEMMA ItemsOf ==
    ASSUME NEW T, NEW s \in Seq(T)
    PROVE  /\ ToSet(s) \subseteq T
           /\ \A k \in 1 .. Len(s) : s[k] \in ToSet(s)
           /\ \A e \in ToSet(s) : \E k \in 1 .. Len(s) : s[k] = e
           /\ DOMAIN s = 1 .. Len(s) /\ Len(s) \in Nat
<1>1. DOMAIN s = 1 .. Len(s) /\ Len(s) \in Nat
  BY LenProperties
<1>2. \A k \in 1 .. Len(s) : s[k] \in T
  BY ElementOfSeq
<1> QED  BY <1>1, <1>2 DEF ToSet

LEMMA ErasedItems ==
    ASSUME NEW T, NEW s \in Seq(T), NEW i \in 1 .. Len(s)
    PROVE  /\ ToSet(RemoveAt(s, i)) \subseteq ToSet(s)
           /\ ToSet(s) \subseteq ToSet(RemoveAt(s, i)) \cup {s[i]}
<1> DEFINE r == RemoveAt(s, i)
<1>1. PICK n \in Nat : /\ Len(s) = n /\ i \in 1 .. n
                       /\ r \in Seq(T) /\ Len(r) = n - 1
                       /\ \A j \in 1 .. n - 1 : r[j] = IF j < i THEN s[j] ELSE s[j + 1]
  BY RemoveAtProperties, ItemsOf
<1> HIDE DEF r
<1>2. ASSUME NEW e \in ToSet(r)
      PROVE  e \in ToSet(s)
  <2>1. PICK j \in 1 .. n - 1 : r[j] = e
    BY <1>1, ItemsOf
  <2>2. PICK k \in 1 .. n : s[k] = e
    <3>1. j \in 1 .. n /\ j + 1 \in 1 .. n
      BY <1>1
    <3> QED  BY <1>1, <2>1, <3>1
  <2> QED  BY <1>1, <2>2, ItemsOf
<1>3. ASSUME NEW e \in ToSet(s), e # s[i]
      PROVE  e \in ToSet(r)
  <2>1. PICK k \in 1 .. n : s[k] = e
    BY <1>1, ItemsOf
  <2>2. k # i
    BY <1>3, <2>1
  <2>3. PICK j \in 1 .. n - 1 : r[j] = e
    <3>1. CASE k < i
      <4>1. k \in 1 .. n - 1
        BY <1>1, <3>1
      <4> QED  BY <1>1, <2>1, <3>1, <4>1
    <3>2. CASE k > i
      <4>1. k - 1 \in 1 .. n - 1 /\ ~(k - 1 < i) /\ (k - 1) + 1 = k
        BY <1>1, <3>2
      <4> QED  BY <1>1, <2>1, <4>1
    <3> QED  BY <1>1, <2>2, <3>1, <3>2
  <2> QED  BY <1>1, <2>3, ItemsOf
<1> QED  BY <1>2, <1>3 DEF r

LEMMA InsertedItems ==
    ASSUME NEW T, NEW s \in Seq(T), NEW i \in 1 .. Len(s), NEW e \in T
    PROVE  /\ ToSet(InsertAt(s, i, e)) = ToSet(s) \cup {e}
           /\ Len(InsertAt(s, i, e)) = Len(s) + 1
           /\ \A p \in 1 .. i - 1 : InsertAt(s, i, e)[p] = s[p]
<1> DEFINE r == InsertAt(s, i, e)
<1>1. PICK n \in Nat : /\ Len(s) = n /\ i \in 1 .. n
                       /\ r \in Seq(T) /\ Len(r) = n + 1
                       /\ \A j \in 1 .. n + 1 : r[j] = IF j < i THEN s[j] ELSE IF j = i THEN e ELSE s[j - 1]
  BY InsertAtProperties, ItemsOf
<1> HIDE DEF r
<1>2. ASSUME NEW d \in ToSet(r), d # e
      PROVE  d \in ToSet(s)
  <2>1. PICK j \in 1 .. n + 1 : r[j] = d
    BY <1>1, ItemsOf
  <2>2. j # i
    BY <1>1, <1>2, <2>1
  <2>3. PICK k \in 1 .. n : s[k] = d
    <3>1. CASE j < i
      <4>1. j \in 1 .. n
        BY <1>1, <3>1
      <4> QED  BY <1>1, <2>1, <3>1, <4>1
    <3>2. CASE j > i
      <4>1. j - 1 \in 1 .. n
        BY <1>1, <3>2
      <4> QED  BY <1>1, <2>1, <3>2, <4>1
    <3> QED  BY <1>1, <2>2, <3>1, <3>2
  <2> QED  BY <1>1, <2>3, ItemsOf
<1>3. ASSUME NEW d \in ToSet(s)
      PROVE  d \in ToSet(r)
  <2>1. PICK k \in 1 .. n : s[k] = d
    BY <1>1, ItemsOf
  <2>2. PICK j \in 1 .. n + 1 : r[j] = d
    <3>1. CASE k < i
      <4>1. k \in 1 .. n + 1
        BY <1>1
      <4> QED  BY <1>1, <2>1, <3>1, <4>1
    <3>2. CASE ~(k < i)
      <4>1. k + 1 \in 1 .. n + 1 /\ ~(k + 1 < i) /\ k + 1 # i /\ (k + 1) - 1 = k
        BY <1>1, <3>2
      <4> QED  BY <1>1, <2>1, <4>1
    <3> QED  BY <3>1, <3>2
  <2> QED  BY <1>1, <2>2, ItemsOf
<1>4. e \in ToSet(r)
  <2>1. i \in 1 .. n + 1 /\ ~(i < i)
    BY <1>1
  <2>2. r[i] = e
    BY <1>1, <2>1
  <2> QED  BY <1>1, <2>1, <2>2, ItemsOf
<1>5. \A p \in 1 .. i - 1 : r[p] = s[p]
  <2>1. \A p \in 1 .. i - 1 : p \in 1 .. n + 1 /\ p < i
    BY <1>1
  <2> QED  BY <1>1, <2>1
<1>6. ToSet(r) = ToSet(s) \cup {e}
  BY <1>2, <1>3, <1>4
<1> QED  BY <1>1, <1>5, <1>6 DEF r

Replaced(s, i, e) == [s EXCEPT ![i] = e]

LEMMA ReplacedItems ==
    ASSUME NEW T, NEW s \in Seq(T), NEW i \in 1 .. Len(s), NEW e \in T
    PROVE  /\ Replaced(s, i, e) \in Seq(T) /\ Len(Replaced(s, i, e)) = Len(s)
           /\ Replaced(s, i, e)[i] = e /\ e \in ToSet(Replaced(s, i, e))
           /\ \A j \in 1 .. Len(s) : j # i => Replaced(s, i, e)[j] = s[j]
           /\ ToSet(Replaced(s, i, e)) \subseteq ToSet(s) \cup {e}
           /\ ToSet(s) \subseteq ToSet(Replaced(s, i, e)) \cup {s[i]}
<1> DEFINE r == Replaced(s, i, e)
<1>1. PICK n \in Nat : /\ Len(s) = n /\ i \in 1 .. n
                       /\ r \in Seq(T) /\ Len(r) = n
                       /\ \A j \in 1 .. n : r[j] = IF j = i THEN e ELSE s[j]
  BY ExceptSeq, ItemsOf DEF Replaced
<1> HIDE DEF r
<1>2. (\A k \in 1 .. n : s[k] \in ToSet(s)) /\ \A d \in ToSet(s) : \E k \in 1 .. n : s[k] = d
  BY <1>1, ItemsOf
<1>3. (\A k \in 1 .. n : r[k] \in ToSet(r)) /\ \A d \in ToSet(r) : \E k \in 1 .. n : r[k] = d
  <2>1. r \in Seq(T) /\ Len(r) = n
    BY <1>1
  <2> HIDE <1>1
  <2> QED  BY <2>1, ItemsOf, Zenon
<1>4. e \in ToSet(r)
  BY <1>1, <1>3
<1>5. ASSUME NEW d \in ToSet(r), d # e
      PROVE  d \in ToSet(s)
  <2>1. PICK k \in 1 .. n : r[k] = d
    BY <1>3, <1>5
  <2>2. k # i
    BY <1>1, <1>5, <2>1
  <2>3. s[k] = d
    BY <1>1, <2>1, <2>2
  <2> QED  BY <1>2, <2>3
<1>6. ASSUME NEW d \in ToSet(s), d # s[i]
      PROVE  d \in ToSet(r)
  <2>1. PICK k \in 1 .. n : s[k] = d
    BY <1>2, <1>6
  <2>2. k # i
    BY <1>6, <2>1
  <2>3. r[k] = d
    BY <1>1, <2>1, <2>2
  <2> QED  BY <1>3, <2>3
<1> QED  BY <1>1, <1>4, <1>5, <1>6 DEF r

LEMMA ItemType ==
    ASSUME Recursion, NEW a \in ARs, NEW w \in ToSet(Work[a])
    PROVE  w \in Works /\ w.AR \in ARs /\ w.i \in Nat /\ (IsSubset(w) <=> ~IsTransform(w))
<1>1. Work[a] \in Seq(Works)
  BY DEF Recursion, TypeOK
<1>2. w \in Works
  BY <1>1, ItemsOf
<1> QED  BY <1>2 DEF Works, SubsetWorks, TransformWorks, IsSubset, IsTransform

(* The work that an activation runs. *)
LEMMA CurItem ==
    ASSUME Recursion, stack # <<>>, pc = "run" \/ pc = "rewrite" => ~AtEnd
    PROVE  /\ This \in ARs /\ Cur \in ToSet(Work[This]) /\ Cur \in Works
           /\ Cur.AR \in ARs /\ Cur.i \in Nat /\ (IsSubset(Cur) <=> ~IsTransform(Cur))
<1>1. Ctx.Pos \in 1 .. Len(Work[This]) /\ This \in ARs /\ Work[This] \in Seq(Works)
  BY CurType, TopFrame
<1>2. Cur \in ToSet(Work[This])
  BY <1>1, ItemsOf DEF Cur
<1> QED  BY <1>1, <1>2, ItemType, CurType

(* The work that a suspended activation runs. *)
LEMMA RunningItem ==
    ASSUME Recursion, NEW k \in 1 .. Len(stack), k < Len(stack) \/ pc \in {"call", "return"}
    PROVE  /\ stack[k].AR \in ARs /\ stack[k].Pos \in 1 .. Len(Work[stack[k].AR])
           /\ Running(k) \in ToSet(Work[stack[k].AR])
           /\ Running(k) \in Works /\ Running(k).AR \in ARs /\ Running(k).i \in Nat
<1>1. stack[k] \in Contexts
  BY ElementOfSeq, LenProperties DEF Recursion, TypeOK
<1>2. stack[k].AR \in ARs /\ stack[k].Pos \in DOMAIN Work[stack[k].AR]
  BY <1>1 DEF Contexts, Recursion, IteratorsValid
<1>3. Work[stack[k].AR] \in Seq(Works)
  BY <1>2 DEF Recursion, TypeOK
<1>4. Running(k) \in ToSet(Work[stack[k].AR]) /\ stack[k].Pos \in 1 .. Len(Work[stack[k].AR])
  BY <1>2, <1>3, ItemsOf DEF Running
<1> QED  BY <1>2, <1>4, ItemType

(* One list changes. *)
LEMMA SetWorkItems ==
    ASSUME Recursion, This \in ARs, NEW w, SetWork(w)
    PROVE  Work'[This] = w /\ \A a \in ARs \ {This} : Work'[a] = Work[a]
BY DEF Recursion, TypeOK, SetWork

(* The work at the position is erased. *)
LEMMA EraseCurItems ==
    ASSUME Recursion, stack # <<>>, pc = "return", EraseCur
    PROVE  /\ This \in ARs /\ \A a \in ARs \ {This} : Work'[a] = Work[a]
           /\ ToSet(Work'[This]) \subseteq ToSet(Work[This])
           /\ ToSet(Work[This]) \subseteq ToSet(Work'[This]) \cup {Cur}
           /\ Len(Work'[This]) = Len(Work[This]) - 1
           /\ \A p \in 1 .. Ctx.Pos - 1 : Work'[This][p] = Work[This][p]
<1>1. Ctx.Pos \in 1 .. Len(Work[This]) /\ This \in ARs /\ Work[This] \in Seq(Works)
  BY CurType, TopFrame
<1>2. PICK m \in Nat : Len(Work[This]) = m
  BY <1>1, ItemsOf
<1>3. Work'[This] = RemoveAt(Work[This], Ctx.Pos) /\ \A a \in ARs \ {This} : Work'[a] = Work[a]
  BY <1>1, SetWorkItems DEF EraseCur
<1>4. \A p \in 1 .. Ctx.Pos - 1 : p \in 1 .. m - 1 /\ p < Ctx.Pos
  BY <1>1, <1>2
<1>5. /\ ToSet(Work'[This]) \subseteq ToSet(Work[This])
      /\ ToSet(Work[This]) \subseteq ToSet(Work'[This]) \cup {Cur}
  BY <1>1, <1>3, ErasedItems DEF Cur
<1>6. /\ Len(Work'[This]) = m - 1
      /\ \A j \in 1 .. m - 1 : j < Ctx.Pos => Work'[This][j] = Work[This][j]
  <2> DEFINE r == RemoveAt(Work[This], Ctx.Pos)
  <2>1. /\ Len(r) = Len(Work[This]) - 1
        /\ \A j \in 1 .. Len(Work[This]) - 1 : r[j] = IF j < Ctx.Pos THEN Work[This][j] ELSE Work[This][j + 1]
    BY <1>1, RemoveAtProperties
  <2> QED  BY <1>2, <1>3, <2>1
<1> QED  BY <1>1, <1>2, <1>3, <1>4, <1>5, <1>6

(* A subset is pushed before the position. *)
LEMMA PushItems ==
    ASSUME Recursion, TransformToSubset
    PROVE  /\ This \in ARs /\ Analyzed \in ARs
           /\ \A a \in ARs \ {This} : Work'[a] = Work[a]
           /\ ToSet(Work'[This]) = ToSet(Work[This]) \cup {SubsetWork(Analyzed)}
           /\ Len(Work'[This]) = Len(Work[This]) + 1
           /\ \A p \in 1 .. Ctx.Pos - 1 : Work'[This][p] = Work[This][p]
<1>1. stack # <<>> /\ pc = "return"
  BY DEF TransformToSubset, Returned
<1>2. Ctx.Pos \in 1 .. Len(Work[This]) /\ This \in ARs /\ Work[This] \in Seq(Works)
  BY <1>1, CurType, TopFrame
<1>3. Analyzed \in ARs /\ SubsetWork(Analyzed) \in Works
  BY TransformedType DEF TransformToSubset
<1>4. /\ Work'[This] = InsertAt(Work[This], Ctx.Pos, SubsetWork(Analyzed))
      /\ \A a \in ARs \ {This} : Work'[a] = Work[a]
  BY <1>2, SetWorkItems DEF TransformToSubset
<1>5. /\ ToSet(Work'[This]) = ToSet(Work[This]) \cup {SubsetWork(Analyzed)}
      /\ Len(Work'[This]) = Len(Work[This]) + 1
      /\ \A p \in 1 .. Ctx.Pos - 1 : Work'[This][p] = Work[This][p]
  BY <1>2, <1>3, <1>4, InsertedItems
<1> QED  BY <1>2, <1>3, <1>4, <1>5

(* What stands in the place of the work that is inlined. *)
Inlined == [Cur EXCEPT !.AR = result.AR, !.i = result.i]

LEMMA InlineItems ==
    ASSUME Recursion, InlineSubset
    PROVE  /\ This \in ARs
           /\ \A a \in ARs \ {This} : Work'[a] = Work[a]
           /\ Inlined \in Works /\ IsSubset(Inlined)
           /\ Inlined.AR = result.AR /\ Inlined.i = result.i /\ result.AR \in ARs
           /\ Inlined \in ToSet(Work'[This])
           /\ ToSet(Work'[This]) \subseteq ToSet(Work[This]) \cup {Inlined}
           /\ ToSet(Work[This]) \subseteq ToSet(Work'[This]) \cup {Cur}
           /\ Len(Work'[This]) = Len(Work[This])
           /\ Work'[This][Ctx.Pos] = Inlined
           /\ \A p \in 1 .. Ctx.Pos - 1 : Work'[This][p] = Work[This][p]
<1>1. stack # <<>> /\ pc = "return" /\ IsSubset(Cur)
  BY DEF InlineSubset, Returned
<1>2. /\ Ctx.Pos \in 1 .. Len(Work[This]) /\ Ctx.Pos \in DOMAIN Work[This] /\ Cur \in Works
      /\ This \in ARs /\ Work[This] \in Seq(Works)
  BY <1>1, CurType, TopFrame
<1>3. PICK m \in Nat : Len(Work[This]) = m
  BY <1>2, ItemsOf
<1>4. result.AR \in ARs /\ result.i \in Nat
  BY DEF Recursion, ControlOK, TypeOK, EnumerationResults, InlineSubset, Returned
<1>5. /\ Inlined \in Works /\ IsSubset(Inlined)
      /\ Inlined.AR = result.AR /\ Inlined.i = result.i
  BY <1>1, <1>2, <1>4 DEF Inlined, Works, SubsetWorks, TransformWorks, IsSubset
<1> DEFINE q == Ctx.Pos
           s == Work[This]
           r == [s EXCEPT ![q] = Inlined]
<1>6. Work'[This] = r /\ \A a \in ARs \ {This} : Work'[a] = Work[a]
  <2>1. [Work[This] EXCEPT ![Ctx.Pos].AR = result.AR, ![Ctx.Pos].i = result.i] = r
    BY <1>2 DEF Inlined, Cur
  <2> QED  BY <1>2, <2>1, SetWorkItems DEF InlineSubset
<1> DEFINE e == Inlined
<1>7. s \in Seq(Works) /\ q \in 1 .. Len(s) /\ Len(s) = m /\ e \in Works
  BY <1>2, <1>3, <1>5
<1>8. Cur = s[q]
  BY DEF Cur
<1> HIDE DEF e, q, s
<1> DEFINE l == Replaced(s, q, e)
<1>9. /\ l \in Seq(Works) /\ Len(l) = Len(s)
      /\ l[q] = e /\ e \in ToSet(l)
      /\ \A j \in 1 .. Len(s) : j # q => l[j] = s[j]
      /\ ToSet(l) \subseteq ToSet(s) \cup {e}
      /\ ToSet(s) \subseteq ToSet(l) \cup {s[q]}
  <2>1. s \in Seq(Works) /\ q \in 1 .. Len(s) /\ e \in Works
    BY <1>7
  <2> QED  BY ONLY <2>1, ReplacedItems, ZenonT(30)
<1> HIDE DEF l
<1>10. \A p \in 1 .. q - 1 : p \in 1 .. m /\ p # q
  BY <1>7
<1>11. \A p \in 1 .. q - 1 : l[p] = s[p]
  BY <1>7, <1>9, <1>10
<1>12. l = r
  BY DEF l, e, Replaced
<1> HIDE DEF r
<1>13. Work'[This] = l
  BY <1>6, <1>12
<1>14. /\ Len(Work'[This]) = Len(s) /\ Work'[This][q] = e /\ e \in ToSet(Work'[This])
       /\ ToSet(Work'[This]) \subseteq ToSet(s) \cup {e}
       /\ ToSet(s) \subseteq ToSet(Work'[This]) \cup {Cur}
       /\ \A p \in 1 .. q - 1 : Work'[This][p] = s[p]
  BY <1>8, <1>9, <1>11, <1>13
<1> QED  BY <1>2, <1>4, <1>5, <1>6, <1>14 DEF s, q, e

(* ++i on the Enumerator of a work. *)
Next1(w) == [w EXCEPT !.i = @ + 1]

LEMMA AdvanceItems ==
    ASSUME Recursion, NEW k \in 1 .. Len(stack), k < Len(stack) \/ pc \in {"call", "return"},
           NEW stk, stk # <<>>, Last(stk) = stack[k], Advance(stk)
    PROVE  LET b == stack[k].AR
               u == Next1(Running(k))
           IN  /\ b \in ARs /\ \A a \in ARs \ {b} : Work'[a] = Work[a]
               /\ u \in Works /\ u.AR = Running(k).AR /\ u.kind = Running(k).kind
               /\ u.alg = Running(k).alg /\ u.i = Running(k).i + 1
               /\ (IsSubset(u) <=> IsSubset(Running(k))) /\ (IsTransform(u) <=> IsTransform(Running(k)))
               /\ u \in ToSet(Work'[b])
               /\ ToSet(Work'[b]) \subseteq ToSet(Work[b]) \cup {u}
               /\ ToSet(Work[b]) \subseteq ToSet(Work'[b]) \cup {Running(k)}
               /\ Len(Work'[b]) = Len(Work[b])
               /\ Work'[b][stack[k].Pos] = u
               /\ \A p \in 1 .. Len(Work[b]) : p # stack[k].Pos => Work'[b][p] = Work[b][p]
<1> DEFINE b == stack[k].AR
           q == stack[k].Pos
           u == Next1(Running(k))
           l == Replaced(Work[b], q, u)
<1>1. b \in ARs /\ q \in 1 .. Len(Work[b]) /\ Running(k) \in Works /\ Running(k).AR \in ARs
  BY RunningItem
<1>2. Work \in [ARs -> Seq(Works)] /\ Work' = [Work EXCEPT ![b][q].i = @ + 1]
  BY DEF Advance, Recursion, TypeOK
<1>3. /\ u \in Works /\ u.AR = Running(k).AR /\ u.kind = Running(k).kind
      /\ u.alg = Running(k).alg /\ u.i = Running(k).i + 1
  BY <1>1 DEF Next1, Works, SubsetWorks, TransformWorks
<1>4. Work' = [Work EXCEPT ![b] = l]
  BY <1>2 DEF Next1, Running, Replaced
<1>5. Running(k) = Work[b][q]
  BY DEF Running
<1> HIDE DEF b, q, u
<1>6. Work[b] \in Seq(Works)
  BY <1>1, <1>2
<1>7. /\ l \in Seq(Works) /\ Len(l) = Len(Work[b])
      /\ l[q] = u /\ u \in ToSet(l)
      /\ \A j \in 1 .. Len(Work[b]) : j # q => l[j] = Work[b][j]
      /\ ToSet(l) \subseteq ToSet(Work[b]) \cup {u}
      /\ ToSet(Work[b]) \subseteq ToSet(l) \cup {Work[b][q]}
  BY ONLY <1>1, <1>3, <1>6, ReplacedItems
<1> HIDE DEF l
<1>8. Work'[b] = l /\ \A a \in ARs \ {b} : Work'[a] = Work[a]
  BY <1>1, <1>2, <1>4
<1>9. (IsSubset(u) <=> IsSubset(Running(k))) /\ (IsTransform(u) <=> IsTransform(Running(k)))
  BY <1>3 DEF IsSubset, IsTransform
<1> QED  BY <1>1, <1>3, <1>5, <1>7, <1>8, <1>9 DEF b, q, u

-----------------------------------------------------------------------------
(* The least solution, and the order of the ARs.                           *)

(* The intersection of all solutions is one. *)
LEMMA LeastSolutionIsSolution ==
    ASSUME NEW s \in EquationSystems
    PROVE  /\ LeastSolution(s) \in Solutions(s)
           /\ \A S \in Solutions(s) : \A a \in ARs : LeastSolution(s)[a] \subseteq S[a]
<1> DEFINE L == LeastSolution(s)
<1>1. L \in [ARs -> SUBSET VIs] /\ \A S \in Solutions(s) : \A a \in ARs : L[a] \subseteq S[a]
  BY DEF LeastSolution
<1>2. \A a \in ARs : \A v \in VIs : (\A S \in Solutions(s) : v \in S[a]) => v \in L[a]
  BY DEF LeastSolution
<1>3. \A S \in Solutions(s) : S \in [ARs -> SUBSET VIs] /\ IsSolution(s, S)
  BY DEF Solutions
<1> HIDE DEF L
<1>4. ASSUME NEW a \in ARs
      PROVE  ToSet(s.set[a]) \subseteq L[a]
  <2>1. s.set[a] \in Seq(VIs)
    BY DEF EquationSystems
  <2>2. ToSet(s.set[a]) \subseteq VIs
    BY <2>1, ItemsOf
  <2> QED  BY <1>2, <1>3, <2>2 DEF IsSolution
<1>5. ASSUME NEW a \in ARs, NEW k \in DOMAIN s.work[a]
      PROVE  Satisfies(s.results, L, a, s.work[a][k])
  <2> DEFINE w == s.work[a][k]
  <2>1. s.work[a] \in Seq(Works) /\ s.results \in [Algs -> [VIs -> ARs \cup {NoAR}]]
    BY DEF EquationSystems
  <2>2. w \in Works
    BY <2>1, LenProperties, ElementOfSeq
  <2>3. w.AR \in ARs /\ (~IsSubset(w) => w.alg \in Algs)
    BY <2>2 DEF Works, SubsetWorks, TransformWorks, IsSubset
  <2>4. \A S \in Solutions(s) : Satisfies(s.results, S, a, w)
    BY <1>3 DEF IsSolution
  <2> HIDE DEF w
  <2>5. CASE IsSubset(w)
    <3>1. L[w.AR] \subseteq L[a]
      <4> SUFFICES ASSUME NEW v \in L[w.AR]
                   PROVE  v \in L[a]
        OBVIOUS
      <4>1. v \in VIs /\ \A S \in Solutions(s) : v \in S[w.AR]
        BY <1>1, <2>3
      <4> QED  BY <1>2, <2>4, <2>5, <4>1 DEF Satisfies
    <3> QED  BY <2>5, <3>1 DEF w, Satisfies
  <2>6. CASE ~IsSubset(w)
    <3> SUFFICES ASSUME NEW v \in L[w.AR], s.results[w.alg][v] # NoAR,
                        NEW u \in L[s.results[w.alg][v]]
                 PROVE  u \in L[a]
      BY <2>6 DEF w, Satisfies
    <3>1. v \in VIs
      BY <1>1, <2>3
    <3>2. s.results[w.alg][v] \in ARs
      BY <2>1, <2>3, <2>6, <3>1
    <3>3. u \in VIs /\ \A S \in Solutions(s) : v \in S[w.AR] /\ u \in S[s.results[w.alg][v]]
      BY <1>1, <2>3, <3>2
    <3> QED  BY <1>2, <2>4, <2>6, <3>3 DEF Satisfies
  <2> QED  BY <2>5, <2>6
<1> QED  BY <1>1, <1>4, <1>5 DEF L, Solutions, IsSolution

(* The ARs that may come to be subsets of a, or of such ones. *)
Lower(s, a) ==
    {b \in ARs : \A X \in SUBSET ARs :
        PotentialSubsets(s)[a] \subseteq X /\ (\A c \in X : PotentialSubsets(s)[c] \subseteq X) => b \in X}

LEMMA PotentialSubsetsType ==
    ASSUME NEW s \in EquationSystems, NEW a \in ARs
    PROVE  PotentialSubsets(s)[a] \subseteq ARs
<1> SUFFICES ASSUME NEW b \in PotentialSubsets(s)[a]
             PROVE  b \in ARs
  OBVIOUS
<1> DEFINE Come(w) == IF IsSubset(w) THEN {w.AR}
                      ELSE {s.results[w.alg][v] : v \in LeastSolution(s)[w.AR]} \ {a, NoAR}
<1>1. PotentialSubsets(s)[a] = UNION {Come(s.work[a][k]) : k \in DOMAIN s.work[a]}
  BY DEF PotentialSubsets, SubsetsUnder
<1>2. PICK k \in DOMAIN s.work[a] : b \in Come(s.work[a][k])
  BY <1>1
<1>3. s.work[a] \in Seq(Works) /\ s.results \in [Algs -> [VIs -> ARs \cup {NoAR}]]
  BY DEF EquationSystems
<1> DEFINE w == s.work[a][k]
<1>4. w \in Works
  BY <1>3, LenProperties, ElementOfSeq
<1> HIDE DEF w
<1>5. w.AR \in ARs /\ (~IsSubset(w) => w.alg \in Algs)
  BY <1>4 DEF Works, SubsetWorks, TransformWorks, IsSubset
<1>6. LeastSolution(s)[w.AR] \subseteq VIs
  BY <1>5 DEF LeastSolution
<1> QED  BY <1>2, <1>3, <1>5, <1>6 DEF w

LEMMA LowerOfPotential ==
    ASSUME NEW s \in EquationSystems, NEW a \in ARs, NEW b \in PotentialSubsets(s)[a]
    PROVE  b \in Lower(s, a)
BY PotentialSubsetsType DEF Lower

LEMMA LowerTransitive ==
    ASSUME NEW s, NEW a, NEW b \in Lower(s, a), NEW c \in Lower(s, b)
    PROVE  c \in Lower(s, a)
<1> SUFFICES ASSUME NEW X \in SUBSET ARs, PotentialSubsets(s)[a] \subseteq X,
                    \A d \in X : PotentialSubsets(s)[d] \subseteq X
             PROVE  c \in X
  BY DEF Lower
<1>1. b \in X
  BY DEF Lower
<1> QED  BY <1>1 DEF Lower

(* Without a cycle of subsets this is a strict order: the ARs on a cycle   *)
(* through a would be a group without one that has no subsets in it.       *)
LEMMA LowerIrreflexive ==
    ASSUME NEW s \in EquationSystems, NoSubsetCycles(s), NEW a \in ARs
    PROVE  a \notin Lower(s, a)
<1> SUFFICES ASSUME a \in Lower(s, a)
             PROVE  FALSE
  OBVIOUS
<1> DEFINE P == PotentialSubsets(s)
           G == {b \in Lower(s, a) : a \in Lower(s, b)}
<1>1. PICK b \in G : P[b] \cap G = {}
  <2>1. a \in G /\ G \in (SUBSET ARs) \ {{}}
    BY DEF Lower
  <2> HIDE DEF G
  <2> QED  BY <2>1 DEF NoSubsetCycles, NoCycles
<1>2. b \in ARs /\ b \in Lower(s, a) /\ a \in Lower(s, b)
  BY DEF Lower
<1> DEFINE X == {c \in Lower(s, b) : c # a /\ a \notin Lower(s, c)}
<1>3. X \in SUBSET ARs
  BY DEF Lower
<1>4. ASSUME NEW c \in P[b]
      PROVE  c \in X
  <2>1. c \in Lower(s, b)
    BY <1>2, LowerOfPotential
  <2>2. c \in Lower(s, a) /\ c \notin G
    BY <1>1, <1>2, <2>1, LowerTransitive
  <2> QED  BY <2>1, <2>2
<1>5. ASSUME NEW c \in X, NEW d \in P[c]
      PROVE  d \in X
  <2>1. c \in ARs
    BY <1>3
  <2>2. d \in Lower(s, c)
    BY <2>1, LowerOfPotential
  <2>3. d \in Lower(s, b)
    BY <2>2, LowerTransitive
  <2>4. a \notin Lower(s, d) /\ d # a
    BY <2>2, LowerTransitive
  <2> QED  BY <2>3, <2>4
<1>6. a \in X
  <2> HIDE DEF X
  <2> QED  BY <1>2, <1>3, <1>4, <1>5 DEF Lower
<1> QED  BY <1>6

LEMMA LowerType ==
    ASSUME NEW s, NEW a
    PROVE  Lower(s, a) \subseteq ARs
BY DEF Lower

-----------------------------------------------------------------------------
(* Nothing is ever made a subset of one of its own subsets: work leads     *)
(* down in the order of the ARs, and nothing is rewritten.                 *)

(* What is known of all systems, of one without a cycle of subsets. *)
Known == Recursion /\ Routing /\ EverySound /\ InRange /\ NoSubsetCycles(sys)

Whole == LeastSolution(sys)

DownWorks(a) ==
    {w \in Works : IF IsSubset(w) THEN w.AR \in Lower(sys, a)
                   ELSE \A v \in Whole[w.AR] : sys.results[w.alg][v] \in Lower(sys, a) \cup {a, NoAR}}

WorksDown   == \A a \in ARs : ToSet(Work[a]) \subseteq DownWorks(a)
SubsetsDown == \A a \in ARs : Subsets[a] \subseteq Lower(sys, a)

(* An AR is below those that it is enumerated for, up to a transform. *)
ChainDown ==
    \A k \in 1 .. Len(stack) : \A j \in 1 .. k - 1 :
        stack[k].LTD < j - 1 => stack[k].AR \in Lower(sys, stack[j].AR)

NothingRewritten ==
    /\ pc # "rewrite"
    /\ pc = "return" => result.type # "REWRITE"
    /\ pc = "return" /\ result.type = "INLINE" => result.AR \in Lower(sys, Callee.AR)

Ordered == WorksDown /\ SubsetsDown /\ ChainDown /\ NothingRewritten

LEMMA KnownWhole ==
    ASSUME Recursion, EverySound
    PROVE  /\ Whole \in [ARs -> SUBSET VIs] /\ Whole \in Solutions(sys)
           /\ \A S \in Solutions(sys) : \A a \in ARs : Whole[a] \subseteq S[a]
           /\ Sound(Whole)
           /\ sys \in EquationSystems
<1>1. sys \in EquationSystems
  BY DEF Recursion, TypeOK
<1>2. /\ Whole \in Solutions(sys)
      /\ \A S \in Solutions(sys) : \A a \in ARs : Whole[a] \subseteq S[a]
  BY <1>1, LeastSolutionIsSolution DEF Whole
<1> QED  BY <1>1, <1>2 DEF EverySound, Solutions

LEMMA CurDown ==
    ASSUME Known, Ordered, stack # <<>>, pc = "run" => ~AtEnd
    PROVE  /\ Cur \in DownWorks(This)
           /\ IsSubset(Cur) => Cur.AR \in Lower(sys, This)
<1>1. This \in ARs /\ Cur \in ToSet(Work[This])
  BY CurItem DEF Known, Ordered, NothingRewritten
<1> QED  BY <1>1 DEF Ordered, WorksDown, DownWorks

LEMMA NoEnterRewrite ==
    ASSUME Known, Ordered
    PROVE  ~EnterRewrite
<1> SUFFICES ASSUME EnterRewrite
             PROVE  FALSE
  OBVIOUS
<1> DEFINE c == Callee.AR
           d == EnumerationDepth[c]
<1>1. pc = "call" /\ CalleeLTD < d /\ c \in ARs
  BY CalleeType DEF EnterRewrite, IsRewrite, Known
<1>2. d \in Nat \cup {-1}
  BY <1>1 DEF Known, Recursion, TypeOK
<1>3. CASE stack = <<>>
  <2>1. Len(stack) = 0 /\ CalleeLTD = -1
    BY <1>3, EmptySeq DEF CalleeLTD
  <2>2. d # -1 => d < Len(stack)
    BY <1>1 DEF Known, Recursion, DepthsMirrorStack
  <2> QED  BY <1>1, <1>2, <2>1, <2>2
<1>4. CASE stack # <<>>
  <2>1. PICK n \in Nat : /\ n >= 1 /\ Len(stack) = n /\ Ctx = stack[n] /\ Ctx \in Contexts
                         /\ This = Ctx.AR /\ This \in ARs /\ Depth = n - 1
    BY <1>4, TopFrame DEF Known
  <2>2. c = Cur.AR /\ (IsSubset(Cur) <=> ~IsTransform(Cur))
    BY <1>1, <1>4, CurItem DEF Callee, Known
  <2>3. CalleeLTD = (IF IsTransform(Cur) THEN n - 1 ELSE Ctx.LTD)
    BY <1>4, <2>1 DEF CalleeLTD
  <2>4. d \in Nat /\ d < n
    <3>1. d # -1
      BY <1>1, <1>2, <2>1, <2>3 DEF Contexts
    <3> QED  BY <1>1, <1>2, <2>1, <3>1 DEF Known, Recursion, DepthsMirrorStack
  <2>5. IsSubset(Cur) /\ Ctx.LTD < d
    BY <1>1, <2>2, <2>3, <2>4
  <2>6. c \in Lower(sys, This)
    BY <1>1, <1>4, <2>2, <2>5, CurDown
  <2>7. stack[d + 1].AR = c
    BY <1>1, <2>4 DEF Known, Recursion, DepthsMirrorStack
  <2>8. c \in Lower(sys, c)
    <3>1. CASE d + 1 = n
      BY <2>1, <2>6, <2>7, <3>1
    <3>2. CASE d + 1 # n
      <4>1. d + 1 \in 1 .. n - 1 /\ n \in 1 .. Len(stack) /\ (d + 1) - 1 = d
        BY <2>1, <2>4, <3>2
      <4>2. This \in Lower(sys, c)
        BY <2>1, <2>5, <2>7, <4>1 DEF Ordered, ChainDown
      <4> QED  BY <2>6, <4>2, LowerTransitive
    <3> QED  BY <3>1, <3>2
  <2> QED  BY <1>1, <2>8, LowerIrreflexive DEF Known, Recursion, TypeOK
<1> QED  BY <1>3, <1>4

(* The lists and what is known to be subsets stay in order. *)
LEMMA SameDown ==
    ASSUME WorksDown, SubsetsDown, UNCHANGED <<sys, Work, Subsets>>
    PROVE  WorksDown' /\ SubsetsDown'
BY DEF WorksDown, SubsetsDown, DownWorks, Whole

LEMMA DownWorksStay ==
    ASSUME sys' = sys
    PROVE  \A a : DownWorks(a)' = DownWorks(a)
BY DEF DownWorks, Whole

LEMMA ShrunkDown ==
    ASSUME WorksDown, SubsetsDown, UNCHANGED <<sys, Subsets>>,
           This \in ARs, \A a \in ARs \ {This} : Work'[a] = Work[a],
           ToSet(Work'[This]) \subseteq ToSet(Work[This])
    PROVE  WorksDown' /\ SubsetsDown'
<1>1. \A a \in ARs : DownWorks(a)' = DownWorks(a)
  BY DownWorksStay
<1>2. \A a \in ARs : ToSet(Work'[a]) \subseteq ToSet(Work[a])
  OBVIOUS
<1> QED  BY <1>1, <1>2 DEF WorksDown, SubsetsDown

(* A subset below This is added to its lists. *)
LEMMA AddedDown ==
    ASSUME Recursion, WorksDown, SubsetsDown, sys' = sys, This \in ARs,
           \A a \in ARs \ {This} : Work'[a] = Work[a],
           NEW w \in Works, IsSubset(w), w.AR \in Lower(sys, This),
           ToSet(Work'[This]) \subseteq ToSet(Work[This]) \cup {w},
           NoteSubset(This, w.AR)
    PROVE  WorksDown' /\ SubsetsDown'
<1>1. w \in DownWorks(This)
  BY DEF DownWorks
<1>2. \A a \in ARs : DownWorks(a)' = DownWorks(a)
  BY DownWorksStay
<1>3. WorksDown'
  BY <1>1, <1>2 DEF WorksDown
<1>4. \A a \in ARs : Subsets'[a] \subseteq Subsets[a] \cup (IF a = This THEN {w.AR} ELSE {})
  BY DEF NoteSubset, Recursion, TypeOK
<1>5. SubsetsDown'
  BY <1>4 DEF SubsetsDown
<1> QED  BY <1>3, <1>5

(* ++i on an Enumerator. *)
LEMMA AdvancedDown ==
    ASSUME Recursion, WorksDown, SubsetsDown, UNCHANGED <<sys, Subsets>>,
           NEW stk, Advance(stk),
           stk # <<>> => \E k \in 1 .. Len(stack) :
               Last(stk) = stack[k] /\ (k < Len(stack) \/ pc \in {"call", "return"})
    PROVE  WorksDown' /\ SubsetsDown'
<1>1. CASE stk = <<>>
  BY <1>1, SameDown DEF Advance
<1>2. CASE stk # <<>>
  <2>1. PICK k \in 1 .. Len(stack) :
            Last(stk) = stack[k] /\ (k < Len(stack) \/ pc \in {"call", "return"})
    BY <1>2
  <2> DEFINE b == stack[k].AR
             r == Running(k)
             u == Next1(Running(k))
  <2>2. /\ b \in ARs /\ \A a \in ARs \ {b} : Work'[a] = Work[a]
        /\ u \in Works /\ u.AR = r.AR /\ u.alg = r.alg /\ (IsSubset(u) <=> IsSubset(r))
        /\ ToSet(Work'[b]) \subseteq ToSet(Work[b]) \cup {u}
    BY <1>2, <2>1, AdvanceItems
  <2>3. r \in ToSet(Work[b])
    BY <2>1, RunningItem
  <2> HIDE DEF b, r, u
  <2>4. u \in DownWorks(b)
    BY <2>2, <2>3 DEF WorksDown, DownWorks
  <2>5. \A a \in ARs : DownWorks(a)' = DownWorks(a)
    BY DownWorksStay
  <2> QED  BY <2>2, <2>4, <2>5 DEF WorksDown, SubsetsDown
<1> QED  BY <1>1, <1>2

(* Fewer frames, or the same. *)
LEMMA SameChainDown ==
    ASSUME ChainDown, sys' = sys, NEW n \in Nat, NEW m \in Nat, m <= n,
           Len(stack) = n, Len(stack') = m,
           \A k \in 1 .. m : stack'[k].AR = stack[k].AR /\ stack'[k].LTD = stack[k].LTD
    PROVE  ChainDown'
<1> SUFFICES ASSUME NEW k \in 1 .. m, NEW j \in 1 .. k - 1, stack'[k].LTD < j - 1
             PROVE  stack'[k].AR \in Lower(sys, stack'[j].AR)
  BY DEF ChainDown
<1>1. k \in 1 .. n /\ j \in 1 .. m
  OBVIOUS
<1> QED  BY <1>1 DEF ChainDown

LEMMA EnterRunOrdered ==
    ASSUME Known, Ordered, EnterRun
    PROVE  Ordered'
<1>1. PICK n \in Nat : /\ Len(stack) = n
                       /\ stack = <<>> <=> n = 0
                       /\ \A k \in 1 .. n : stack[k] \in Contexts
  BY StackLen DEF Known, Recursion
<1> DEFINE new == [AR |-> Callee.AR, LTD |-> CalleeLTD, Pos |-> 1, Retry |-> NoAR]
<1>2. /\ pc = "call" /\ pc' = "run"
      /\ stack' = Append(stack, new)
      /\ UNCHANGED <<sys, Work, Subsets>>
  BY DEF EnterRun, Goto
<1>3. new \in Contexts
  <2>1. Callee.AR \in ARs
    BY <1>2, CalleeType DEF Known
  <2>2. CalleeLTD \in Nat \cup {-1}
    <3>1. stack # <<>> => Ctx \in Contexts /\ Depth \in Nat
      BY TopFrame DEF Known
    <3> QED  BY <3>1 DEF CalleeLTD, Contexts
  <2> QED  BY <2>1, <2>2 DEF Contexts
<1>4. new.AR = Callee.AR /\ new.LTD = CalleeLTD
  OBVIOUS
<1> HIDE DEF new
<1>5. /\ Len(stack') = n + 1
      /\ \A k \in 1 .. n : stack'[k] = stack[k]
      /\ stack'[n + 1] = new
  <2>1. stack \in Seq(Contexts)
    BY DEF Known, Recursion, TypeOK
  <2> QED  BY <1>1, <1>2, <1>3, <2>1, AppendProperties
<1>6. ChainDown'
  <2> SUFFICES ASSUME NEW k \in 1 .. n + 1, NEW j \in 1 .. k - 1, stack'[k].LTD < j - 1
               PROVE  stack'[k].AR \in Lower(sys, stack'[j].AR)
    BY <1>2, <1>5 DEF ChainDown
  <2>1. CASE k \in 1 .. n
    <3>1. j \in 1 .. n
      BY <2>1
    <3> QED  BY <1>1, <1>5, <2>1, <3>1 DEF Ordered, ChainDown
  <2>2. CASE k = n + 1
    <3>1. j \in 1 .. n /\ n # 0 /\ n \in 1 .. n
      BY <2>2
    <3>2. stack # <<>> /\ Depth = n - 1 /\ Ctx = stack[n] /\ This = stack[n].AR
      BY <1>1, <3>1 DEF Depth, Ctx, This
    <3>3. CalleeLTD < j - 1
      BY <1>4, <1>5, <2>2
    <3>4. ~IsTransform(Cur) /\ CalleeLTD = stack[n].LTD
      BY <3>1, <3>2, <3>3 DEF CalleeLTD
    <3>5. IsSubset(Cur) /\ Callee.AR = Cur.AR
      BY <1>2, <3>2, <3>4, CurItem DEF Callee, Known
    <3>6. Cur.AR \in Lower(sys, This)
      BY <1>2, <3>2, <3>5, CurDown
    <3>7. j # n => This \in Lower(sys, stack[j].AR)
      <4>1. j # n => j \in 1 .. n - 1
        BY <3>1
      <4> QED  BY <1>1, <3>1, <3>2, <3>3, <3>4, <4>1 DEF Ordered, ChainDown
    <3> QED  BY <1>4, <1>5, <2>2, <3>1, <3>2, <3>5, <3>6, <3>7, LowerTransitive
  <2>3. k \in 1 .. n \/ k = n + 1
    OBVIOUS
  <2> QED  BY <2>1, <2>2, <2>3
<1> QED  BY <1>2, <1>6, SameDown DEF Ordered, NothingRewritten

(* Where control stays in the activation. *)
LEMMA StayOrdered ==
    ASSUME Known, Ordered, stack # <<>>, sys' = sys,
           Len(stack') = Len(stack),
           \A k \in 1 .. Len(stack) : stack'[k].AR = stack[k].AR /\ stack'[k].LTD = stack[k].LTD,
           pc' \in {"call", "run"},
           WorksDown', SubsetsDown'
    PROVE  Ordered'
<1>1. PICK n \in Nat : Len(stack) = n
  BY TopFrame DEF Known
<1>2. ChainDown'
  BY <1>1, SameChainDown DEF Ordered
<1> QED  BY <1>2 DEF Ordered, NothingRewritten

LEMMA HandleOrdered ==
    ASSUME Known, Ordered,
           \/ RunRecurse \/ SkipKnownValue \/ TransformToNothing \/ TransformToSubset
           \/ InlineSubset \/ DropInlined \/ SkipRetried \/ EraseCompleted
    PROVE  Ordered'
<1>1. stack # <<>> /\ pc' \in {"call", "run"} /\ sys' = sys
  BY DEF RunRecurse, SkipKnownValue, TransformToNothing, TransformToSubset, InlineSubset, DropInlined,
         SkipRetried, EraseCompleted, Returned, Goto, Known, Recursion, ControlOK
<1>2. CASE RunRecurse \/ SkipKnownValue \/ TransformToNothing \/ SkipRetried
  <2>1. UNCHANGED <<Work, Subsets>>
    BY <1>2 DEF RunRecurse, SkipKnownValue, TransformToNothing, SkipRetried
  <2>2. WorksDown' /\ SubsetsDown'
    BY <1>1, <2>1, SameDown DEF Ordered
  <2>3. /\ Len(stack') = Len(stack)
        /\ \A k \in 1 .. Len(stack) : stack'[k].AR = stack[k].AR /\ stack'[k].LTD = stack[k].LTD
    <3>1. CASE SkipRetried
      BY <3>1, EditedFrames DEF Known
    <3>2. CASE ~SkipRetried
      BY <1>2, <3>2 DEF RunRecurse, SkipKnownValue, TransformToNothing
    <3> QED  BY <3>1, <3>2
  <2> QED  BY <1>1, <2>2, <2>3, StayOrdered
<1>3. CASE DropInlined \/ EraseCompleted
  <2>1. pc = "return" /\ EraseCur /\ UNCHANGED <<Subsets, stack>>
    BY <1>3 DEF DropInlined, EraseCompleted, Returned
  <2>2. WorksDown' /\ SubsetsDown'
    BY <1>1, <2>1, EraseCurItems, ShrunkDown DEF Ordered, Known
  <2> QED  BY <1>1, <2>1, <2>2, StayOrdered
<1>4. CASE TransformToSubset
  <2>1. pc = "return" /\ result.type = "NEXT_VALUE" /\ IsTransform(Cur) /\ stack' = stack
        /\ prepareForSubset(This, Analyzed) /\ NoteSubset(This, Analyzed)
    BY <1>4 DEF TransformToSubset, Returned
  <2>2. /\ This \in ARs /\ Analyzed \in ARs
        /\ \A a \in ARs \ {This} : Work'[a] = Work[a]
        /\ ToSet(Work'[This]) = ToSet(Work[This]) \cup {SubsetWork(Analyzed)}
    BY <1>4, PushItems DEF Known
  <2>3. result.VI \in Whole[Cur.AR]
    <3>1. Callee.AR = Cur.AR
      BY <1>1 DEF Callee
    <3> QED  BY <2>1, <3>1, KnownWhole DEF Known, Sound, ResultSound
  <2>4. Analyzed \in Lower(sys, This)
    <3>1. Cur \in DownWorks(This) /\ ~IsSubset(Cur)
      BY <1>1, <2>1, CurDown, CurItem DEF Known
    <3>2. Analyzed \in Lower(sys, This) \cup {This, NoAR}
      BY <2>3, <3>1 DEF DownWorks, Analyzed
    <3> QED  BY <2>1, <2>2, <3>2, NullsAssumption DEF prepareForSubset
  <2>5. SubsetWork(Analyzed) \in Works /\ IsSubset(SubsetWork(Analyzed)) /\ SubsetWork(Analyzed).AR = Analyzed
    BY <2>2 DEF SubsetWork, Works, SubsetWorks, IsSubset
  <2>6. WorksDown' /\ SubsetsDown'
    BY <1>1, <2>1, <2>2, <2>4, <2>5, AddedDown DEF Ordered, Known
  <2> QED  BY <1>1, <2>1, <2>6, StayOrdered
<1>5. CASE InlineSubset
  <2>1. pc = "return" /\ result.type = "INLINE" /\ IsSubset(Cur) /\ stack' = stack
        /\ NoteSubset(This, result.AR)
    BY <1>5 DEF InlineSubset, Returned
  <2>2. result.AR \in Lower(sys, This)
    <3>1. Callee.AR = Cur.AR /\ Cur.AR \in Lower(sys, This)
      BY <1>1, <2>1, CurDown DEF Callee
    <3> QED  BY <2>1, <3>1, LowerTransitive DEF Ordered, NothingRewritten
  <2>3. /\ This \in ARs
        /\ \A a \in ARs \ {This} : Work'[a] = Work[a]
        /\ Inlined \in Works /\ IsSubset(Inlined) /\ Inlined.AR = result.AR
        /\ ToSet(Work'[This]) \subseteq ToSet(Work[This]) \cup {Inlined}
    BY <1>5, InlineItems DEF Known
  <2>4. WorksDown' /\ SubsetsDown'
    BY <1>1, <2>1, <2>2, <2>3, AddedDown DEF Ordered, Known
  <2> QED  BY <1>1, <2>1, <2>4, StayOrdered
<1> QED  BY <1>2, <1>3, <1>4, <1>5

LEMMA LeaveOrdered ==
    ASSUME Known, Ordered, RunInline \/ EndComplete \/ EndCancelRetry \/ EndRetry \/ AddNewValue
    PROVE  Ordered'
<1>1. stack # <<>> /\ SuspendedKept /\ cursor'.AR = cursor.AR
  BY LeaveKept DEF Known
<1>2. /\ pc' = "return" /\ stack' = Front(stack) /\ UNCHANGED <<sys, Subsets>>
      /\ result'.type # "REWRITE"
      /\ result'.type = "INLINE" => RunInline /\ result' = Inline(Cur)
  BY DEF RunInline, EndComplete, EndCancelRetry, EndRetry, AddNewValue, Leave, Return, Returned,
         Inline, Complete, Retry
<1>3. PICK n \in Nat : /\ n >= 1
                       /\ Len(stack) = n
                       /\ Len(stack') = n - 1
                       /\ \A k \in 1 .. n - 1 : stack'[k] = stack[k]
                       /\ Callee'.AR = This
  BY <1>1, <1>2, AfterLeave DEF Routing, Known
<1>4. ChainDown'
  <2>1. n - 1 \in Nat /\ n - 1 <= n
    BY <1>3
  <2> QED  BY <1>2, <1>3, <2>1, SameChainDown DEF Ordered
<1>5. NothingRewritten'
  <2>1. RunInline => Cur.AR \in Lower(sys, This) /\ Inline(Cur).AR = Cur.AR
    BY <1>1, CurDown DEF RunInline, Inline
  <2> QED  BY <1>2, <1>3, <2>1 DEF NothingRewritten
<1>6. WorksDown' /\ SubsetsDown'
  <2>1. CASE RunInline \/ EndComplete \/ EndRetry
    BY <1>2, <2>1, SameDown DEF RunInline, EndComplete, EndRetry, Ordered
  <2>2. CASE EndCancelRetry
    <3>1. This \in ARs /\ SetWork(<<>>)
      BY <1>1, <2>2, TopFrame DEF EndCancelRetry, Known
    <3>2. Work'[This] = <<>> /\ \A a \in ARs \ {This} : Work'[a] = Work[a]
      BY <3>1, SetWorkItems DEF Known
    <3>3. ToSet(<<>>) = {}
      BY DEF ToSet
    <3> QED  BY <1>2, <3>1, <3>2, <3>3, ShrunkDown DEF Ordered
  <2>3. CASE AddNewValue
    <3>1. /\ Front(stack) \in Seq(Contexts)
          /\ Len(Front(stack)) = n - 1
          /\ \A k \in 1 .. n - 1 : Front(stack)[k] = stack[k]
      BY <1>3, FrontProperties DEF Known, Recursion, TypeOK
    <3>2. Front(stack) # <<>> => n - 1 \in 1 .. n - 1 /\ Last(Front(stack)) = stack[n - 1] /\ n - 1 < n
      BY <1>3, <3>1, EmptySeq DEF Last
    <3>3. Front(stack) # <<>> => \E k \in 1 .. Len(stack) :
               Last(Front(stack)) = stack[k] /\ (k < Len(stack) \/ pc \in {"call", "return"})
      <4>1. Front(stack) # <<>> => n - 1 \in 1 .. Len(stack)
        BY <1>3, <3>2
      <4> QED  BY <1>3, <3>2, <4>1
    <3>4. Advance(Front(stack))
      BY <2>3 DEF AddNewValue
    <3> QED  BY <1>2, <3>3, <3>4, AdvancedDown DEF Ordered, Known
  <2> QED  BY <2>1, <2>2, <2>3
<1> QED  BY <1>4, <1>5, <1>6 DEF Ordered

LEMMA EnterOrdered ==
    ASSUME Known, Ordered, EnterRetry \/ EnterCached
    PROVE  Ordered'
<1>1. /\ pc = "call" /\ pc' = "return" /\ UNCHANGED <<sys, Subsets, stack>>
      /\ result'.type \notin {"REWRITE", "INLINE"}
  BY DEF EnterRetry, EnterCached, Return, Retry, NextValue
<1>2. ChainDown'
  BY <1>1 DEF Ordered, ChainDown
<1>3. WorksDown' /\ SubsetsDown'
  <2>1. CASE EnterRetry
    BY <1>1, <2>1, SameDown DEF EnterRetry, Ordered
  <2>2. CASE EnterCached
    <3>1. stack # <<>> => \E k \in 1 .. Len(stack) :
               Last(stack) = stack[k] /\ (k < Len(stack) \/ pc \in {"call", "return"})
      <4> SUFFICES ASSUME stack # <<>>
                   PROVE  Len(stack) \in 1 .. Len(stack) /\ Last(stack) = stack[Len(stack)]
        BY <1>1
      <4> QED  BY TopFrame DEF Known, Last
    <3> QED  BY <1>1, <2>2, <3>1, AdvancedDown DEF EnterCached, Ordered, Known
  <2> QED  BY <2>1, <2>2
<1> QED  BY <1>1, <1>2, <1>3 DEF Ordered, NothingRewritten

LEMMA InitOrdered ==
    ASSUME Init, NoSubsetCycles(sys)
    PROVE  Ordered
<1>1. Recursion /\ sys \in EquationSystems
  BY InitRecursion DEF Recursion, TypeOK
<1>2. /\ Work = sys.work /\ stack = <<>> /\ Len(stack) = 0 /\ pc = "idle"
      /\ Subsets = [a \in ARs |-> {w.AR : w \in {u \in ToSet(sys.work[a]) : IsSubset(u)}}]
  BY EmptySeq DEF Init, StartsFrom
<1>3. ASSUME NEW a \in ARs, NEW w \in ToSet(Work[a])
      PROVE  w \in DownWorks(a)
  <2>1. w \in Works /\ w.AR \in ARs
    BY <1>1, ItemType
  <2> DEFINE Come(x) == IF IsSubset(x) THEN {x.AR}
                        ELSE {sys.results[x.alg][v] : v \in LeastSolution(sys)[x.AR]} \ {a, NoAR}
  <2>2. PotentialSubsets(sys)[a] = UNION {Come(sys.work[a][k]) : k \in DOMAIN sys.work[a]}
    BY DEF PotentialSubsets, SubsetsUnder
  <2>3. PICK k \in DOMAIN sys.work[a] : sys.work[a][k] = w
    BY <1>2 DEF ToSet
  <2>4. Come(w) \subseteq PotentialSubsets(sys)[a]
    BY <2>2, <2>3
  <2>5. Come(w) \subseteq Lower(sys, a)
    BY <1>1, <2>4, LowerOfPotential
  <2> QED  BY <2>1, <2>5 DEF DownWorks, Whole
<1>4. WorksDown
  BY <1>3 DEF WorksDown
<1>5. SubsetsDown
  BY <1>2, <1>3 DEF SubsetsDown, DownWorks
<1> QED  BY <1>2, <1>4, <1>5 DEF Ordered, ChainDown, NothingRewritten

LEMMA NextOrdered ==
    ASSUME Known, Ordered, [Next]_vars
    PROVE  Ordered'
<1>1. ~EnterRewrite /\ pc # "rewrite" /\ ~(pc = "return" /\ result.type = "REWRITE")
  BY NoEnterRewrite DEF Ordered, NothingRewritten
<1>2. CASE Enter
  BY <1>1, <1>2, EnterOrdered, EnterRunOrdered DEF Enter
<1>3. CASE Run
  BY <1>3, HandleOrdered, LeaveOrdered DEF Run
<1>4. CASE Handle
  <2>1. ~(RewriteHere \/ RewriteBegin \/ RewriteKeep \/ RewriteDrop \/ RewriteSplice)
    BY <1>1 DEF RewriteHere, RewriteBegin, RewriteKeep, RewriteDrop, RewriteSplice, Returned
  <2> QED  BY <1>4, <2>1, HandleOrdered, LeaveOrdered DEF Handle
<1>5. CASE Answer \/ \E a \in ARs : \E i \in 0 .. Len(Set[a]) : Query(a, i)
  <2>1. pc' \in {"idle", "call"} /\ UNCHANGED <<sys, Work, Subsets, stack>>
    BY <1>5 DEF Answer, Query, Goto
  <2> QED  BY <2>1, SameDown DEF Ordered, ChainDown, NothingRewritten
<1>6. CASE UNCHANGED vars
  <2>1. Callee' = Callee
    BY <1>6, SameDepths DEF vars
  <2> QED  BY <1>6, <2>1, SameDown DEF vars, Ordered, ChainDown, NothingRewritten
<1> QED  BY <1>2, <1>3, <1>4, <1>5, <1>6 DEF Next, Step

-----------------------------------------------------------------------------
(* Positions: what an Enumerator has passed over has been taken, and who   *)
(* waits for more has seen everything there is so far.                     *)

(* The values that the Enumerator of w has passed. *)
Taken(st, w) == {st[w.AR][j] : j \in 1 .. w.i}

Exhausted(w) == w.i = Len(Set[w.AR])

(* A result is being returned to an activation. *)
AtCaller == pc = "return" /\ stack # <<>>

(* The value on its way to a. *)
Handed(a) == IF AtCaller /\ result.type = "NEXT_VALUE" /\ IsSubset(Cur) /\ a = This
             THEN {result.VI} ELSE {}

Seen == \A a \in ARs : \A w \in ToSet(Work[a]) :
            IsSubset(w) => Taken(Set, w) \subseteq ToSet(Set[a]) \cup Handed(a)

CallersWait == \A k \in 1 .. Len(stack) - 1 : Exhausted(Running(k))

ClientWaits == stack # <<>> => cursor.i = Len(Set[cursor.AR])

ResultMeans == AtCaller =>
    /\ result.type = "NEXT_VALUE" => result.VI \in ToSet(Set[Cur.AR])
    /\ result.type # "NEXT_VALUE" => Exhausted(Cur)
    /\ result.type = "COMPLETE" => Work[Cur.AR] = <<>>
    /\ result.type = "INLINE" =>
          /\ Len(Work[Cur.AR]) = 1 /\ IsSubset(Work[Cur.AR][1])
          /\ Work[Cur.AR][1].AR = result.AR /\ Work[Cur.AR][1].i = result.i

Positions == Seen /\ CallersWait /\ ClientWaits /\ ResultMeans

LEMMA ItemInRange ==
    ASSUME Recursion, InRange, NEW a \in ARs, NEW w \in ToSet(Work[a])
    PROVE  w.i <= Len(Set[w.AR])
<1>1. Work[a] \in Seq(InRangeWorks)
  BY DEF InRange, WorksInRange
<1>2. w \in InRangeWorks
  BY <1>1, ItemsOf
<1> QED  BY <1>2 DEF InRangeWorks

LEMMA SetItems ==
    ASSUME Recursion, NEW a \in ARs
    PROVE  /\ Set[a] \in Seq(VIs) /\ Len(Set[a]) \in Nat
           /\ ToSet(Set[a]) \subseteq VIs
           /\ ToSet(Set[a]) = {Set[a][j] : j \in 1 .. Len(Set[a])}
<1>1. Set[a] \in Seq(VIs)
  BY DEF Recursion, TypeOK
<1> QED  BY <1>1, ItemsOf

LEMMA TakenAll ==
    ASSUME Recursion, NEW w, w.AR \in ARs, Exhausted(w)
    PROVE  Taken(Set, w) = ToSet(Set[w.AR])
BY SetItems DEF Exhausted, Taken

LEMMA TakenNext ==
    ASSUME NEW st, NEW w \in Works
    PROVE  Taken(st, Next1(w)) = Taken(st, w) \cup {st[w.AR][w.i + 1]}
<1>1. Next1(w).AR = w.AR /\ Next1(w).i = w.i + 1 /\ w.i \in Nat
  BY DEF Next1, Works, SubsetWorks, TransformWorks
<1> QED  BY <1>1 DEF Taken

(* No more than what is in the set. *)
LEMMA TakenSome ==
    ASSUME Recursion, InRange, NEW a \in ARs, NEW w \in ToSet(Work[a])
    PROVE  Taken(Set, w) \subseteq ToSet(Set[w.AR])
<1>1. w.i <= Len(Set[w.AR]) /\ w.AR \in ARs /\ w.i \in Nat
  BY ItemInRange, ItemType
<1>2. Len(Set[w.AR]) \in Nat /\ ToSet(Set[w.AR]) = {Set[w.AR][j] : j \in 1 .. Len(Set[w.AR])}
  BY <1>1, SetItems
<1>3. 1 .. w.i \subseteq 1 .. Len(Set[w.AR])
  BY <1>1, <1>2
<1> QED  BY <1>2, <1>3 DEF Taken

(* The callee of an entered activation. *)
LEMMA CalleeExhausted ==
    ASSUME Recursion, InRange, pc = "call", ~IsCached
    PROVE  /\ stack # <<>> => Exhausted(Cur)
           /\ stack = <<>> => cursor.i = Len(Set[cursor.AR])
<1>1. Callee.AR \in ARs /\ Callee.i \in Nat
  BY CalleeType
<1>2. Len(Set[Callee.AR]) \in Nat /\ ~(Callee.i < Len(Set[Callee.AR]))
  BY <1>1, LenOfSet DEF IsCached
<1>3. CASE stack # <<>>
  <2>1. Callee.AR = Cur.AR /\ Callee.i = Cur.i
    BY <1>3 DEF Callee
  <2>2. Cur.i <= Len(Set[Cur.AR])
    BY <1>3, CurItem, ItemInRange
  <2> QED  BY <1>1, <1>2, <1>3, <2>1, <2>2 DEF Exhausted
<1>4. CASE stack = <<>>
  <2>1. Callee = cursor /\ cursor.i <= Len(Set[cursor.AR])
    BY <1>4 DEF Callee, InRange, CursorInRange
  <2> QED  BY <1>1, <1>2, <1>4, <2>1
<1> QED  BY <1>3, <1>4

(* Where This' list is all that changes, the callers wait on. *)
LEMMA CallersStay ==
    ASSUME Recursion, CallersWait, NEW n \in Nat, n >= 1, Len(stack) = n,
           Set' = Set, \A a \in ARs \ {This} : Work'[a] = Work[a],
           NEW m \in Nat, m <= n, Len(stack') = m, \A k \in 1 .. m - 1 : stack'[k] = stack[k]
    PROVE  CallersWait'
<1> SUFFICES ASSUME NEW k \in 1 .. m - 1
             PROVE  Exhausted(Running(k))'
  BY DEF CallersWait
<1>1. k \in 1 .. n - 1 /\ stack # <<>>
  BY EmptySeq
<1>2. stack[k].AR \in ARs /\ stack[k].AR # This
  BY <1>1, TopFrame
<1>3. Running(k)' = Running(k)
  BY <1>2 DEF Running
<1> QED  BY <1>1, <1>3 DEF CallersWait, Exhausted

(* Where no value is on its way after the step. *)
LEMMA StayPositions ==
    ASSUME Recursion, Positions, stack # <<>>, NEW n \in Nat, Len(stack) = n,
           Set' = Set, cursor' = cursor, \A a \in ARs \ {This} : Work'[a] = Work[a],
           Len(stack') = n, \A k \in 1 .. n - 1 : stack'[k] = stack[k],
           pc' \in {"call", "run"},
           Handed(This) \subseteq ToSet(Set[This]),
           \A w \in ToSet(Work'[This]) : w \in ToSet(Work[This]) \/
               (IsSubset(w) => Taken(Set, w) \subseteq ToSet(Set[This]))
    PROVE  Positions'
<1>1. n >= 1
  BY TopFrame
<1>2. CallersWait'
  BY <1>1, CallersStay DEF Positions
<1>3. ClientWaits' /\ ResultMeans'
  BY DEF Positions, ClientWaits, ResultMeans, AtCaller
<1>4. Seen'
  <2> SUFFICES ASSUME NEW a \in ARs, NEW w \in ToSet(Work'[a]), IsSubset(w)
               PROVE  Taken(Set, w) \subseteq ToSet(Set[a])
    BY DEF Seen, Taken
  <2>1. CASE a = This
    <3>1. w \in ToSet(Work[a]) => Taken(Set, w) \subseteq ToSet(Set[a]) \cup Handed(a)
      BY DEF Positions, Seen
    <3> QED  BY <2>1, <3>1
  <2>2. CASE a # This
    <3>1. w \in ToSet(Work[a]) /\ Handed(a) = {}
      BY <2>2 DEF Handed
    <3> QED  BY <3>1 DEF Positions, Seen
  <2> QED  BY <2>1, <2>2
<1> QED  BY <1>2, <1>3, <1>4 DEF Positions

LEMMA HandlePositions ==
    ASSUME Known, Positions,
           \/ RunRecurse \/ SkipKnownValue \/ TransformToNothing \/ TransformToSubset
           \/ InlineSubset \/ DropInlined \/ SkipRetried \/ EraseCompleted
    PROVE  Positions'
<1>1. /\ stack # <<>> /\ pc' \in {"call", "run"} /\ Set' = Set /\ cursor' = cursor
      /\ pc = "run" => RunRecurse
      /\ pc \in {"return", "run"}
  BY DEF RunRecurse, SkipKnownValue, TransformToNothing, TransformToSubset, InlineSubset, DropInlined,
         SkipRetried, EraseCompleted, Returned, Goto, Known, Recursion, ControlOK
<1>2. PICK n \in Nat : n >= 1 /\ Len(stack) = n /\ This \in ARs
  BY <1>1, TopFrame DEF Known
<1>3. Len(stack') = n /\ \A k \in 1 .. n - 1 : stack'[k] = stack[k]
  <2>1. CASE SkipRetried
    <3> DEFINE c == [Ctx EXCEPT !.Pos = @ + 1, !.Retry = CancellationPoint(@, result.AR)]
    <3>1. stack' = [stack EXCEPT ![n] = c]
      BY <1>2, <2>1 DEF SkipRetried, Ctx
    <3> QED  BY <1>2, <3>1, LenProperties DEF Known, Recursion, TypeOK
  <2>2. CASE ~SkipRetried
    <3>1. stack' = stack
      BY <2>2 DEF RunRecurse, SkipKnownValue, TransformToNothing, TransformToSubset, InlineSubset,
                  DropInlined, EraseCompleted
    <3> QED  BY <1>2, <3>1
  <2> QED  BY <2>1, <2>2
<1>4. Handed(This) \subseteq ToSet(Set[This])
  <2>1. CASE SkipKnownValue
    <3>1. result.VI \in ToSet(Set[This])
      BY <2>1 DEF SkipKnownValue, Contains, ToSet
    <3> QED  BY <3>1 DEF Handed
  <2>2. CASE ~SkipKnownValue
    <3>1. ~(AtCaller /\ result.type = "NEXT_VALUE" /\ IsSubset(Cur))
      BY <2>2 DEF RunRecurse, TransformToNothing, TransformToSubset, InlineSubset, DropInlined,
                  SkipRetried, EraseCompleted, Returned, AtCaller, IsSubset, IsTransform
    <3> QED  BY <3>1 DEF Handed
  <2> QED  BY <2>1, <2>2
<1>5. /\ \A a \in ARs \ {This} : Work'[a] = Work[a]
      /\ \A w \in ToSet(Work'[This]) : w \in ToSet(Work[This]) \/
             (IsSubset(w) => Taken(Set, w) \subseteq ToSet(Set[This]))
  <2>1. CASE RunRecurse \/ SkipKnownValue \/ TransformToNothing \/ SkipRetried
    <3>1. Work' = Work
      BY <2>1 DEF RunRecurse, SkipKnownValue, TransformToNothing, SkipRetried
    <3> QED  BY <3>1
  <2>2. CASE DropInlined \/ EraseCompleted
    <3>1. pc = "return" /\ EraseCur
      BY <2>2 DEF DropInlined, EraseCompleted, Returned
    <3> QED  BY <1>1, <3>1, EraseCurItems DEF Known
  <2>3. CASE TransformToSubset
    <3>1. Taken(Set, SubsetWork(Analyzed)) = {}
      BY DEF Taken, SubsetWork
    <3> QED  BY <2>3, <3>1, PushItems DEF Known
  <2>4. CASE InlineSubset
    <3>1. pc = "return" /\ result.type = "INLINE" /\ IsSubset(Cur) /\ AtCaller
      BY <2>4 DEF InlineSubset, Returned, AtCaller
    <3>2. Cur \in ToSet(Work[This]) /\ Cur.AR \in ARs
      BY <1>1, <3>1, CurItem DEF Known
    <3>3. Handed(Cur.AR) = {} /\ Handed(This) = {}
      BY <3>1 DEF Handed
    <3> DEFINE r == Work[Cur.AR][1]
    <3>4. Exhausted(Cur) /\ Len(Work[Cur.AR]) = 1 /\ IsSubset(r) /\ r.AR = result.AR /\ r.i = result.i
      BY <3>1 DEF Positions, ResultMeans
    <3>5. r \in ToSet(Work[Cur.AR])
      <4>1. Work[Cur.AR] \in Seq(Works) /\ 1 \in 1 .. Len(Work[Cur.AR])
        BY <3>2, <3>4 DEF Known, Recursion, TypeOK
      <4> QED  BY <4>1, ItemsOf
    <3> HIDE DEF r
    <3>6. Taken(Set, r) \subseteq ToSet(Set[Cur.AR])
      BY <3>2, <3>3, <3>4, <3>5 DEF Positions, Seen
    <3>7. ToSet(Set[Cur.AR]) \subseteq ToSet(Set[This])
      <4>1. Taken(Set, Cur) \subseteq ToSet(Set[This])
        BY <1>2, <3>1, <3>2, <3>3 DEF Positions, Seen
      <4> QED  BY <3>2, <3>4, <4>1, TakenAll DEF Known
    <3>8. Taken(Set, Inlined) = Taken(Set, r)
      BY <2>4, <3>4, InlineItems DEF Taken, Known
    <3> QED  BY <2>4, <3>6, <3>7, <3>8, InlineItems DEF Known
  <2> QED  BY <2>1, <2>2, <2>3, <2>4
<1> QED  BY <1>1, <1>2, <1>3, <1>4, <1>5, StayPositions DEF Known

LEMMA EnterPositions ==
    ASSUME Known, Positions, EnterRetry \/ EnterCached \/ EnterRun
    PROVE  Positions'
<1>1. pc = "call" /\ Set' = Set
  BY DEF EnterRetry, EnterCached, EnterRun
<1>2. PICK n \in Nat : Len(stack) = n /\ (stack = <<>> <=> n = 0)
  BY StackLen DEF Known, Recursion
<1>3. \A a : Handed(a) = {}
  BY <1>1 DEF Handed, AtCaller
<1>4. CASE EnterRetry
  <2>1. result'.type = "RETRY" /\ UNCHANGED <<Work, stack, cursor>>
    BY <1>4 DEF EnterRetry, Return, Retry
  <2>2. \A a : Handed(a)' = {}
    BY <2>1 DEF Handed
  <2>3. CallersWait' /\ ClientWaits'
    BY <1>1, <2>1 DEF Positions, CallersWait, ClientWaits, Exhausted, Running
  <2>4. Seen'
    BY <1>1, <1>3, <2>1, <2>2 DEF Positions, Seen, Taken
  <2>5. stack # <<>> => Exhausted(Cur)
    BY <1>1, <1>4, CalleeExhausted DEF Known, EnterRetry
  <2>6. ResultMeans'
    BY <1>1, <2>1, <2>5 DEF ResultMeans, AtCaller, Exhausted, Cur, This, Ctx
  <2> QED  BY <2>3, <2>4, <2>6 DEF Positions
<1>5. CASE EnterRun
  <2>1. /\ stack' = Append(stack, [AR |-> Callee.AR, LTD |-> CalleeLTD, Pos |-> 1, Retry |-> NoAR])
        /\ pc' = "run" /\ UNCHANGED <<Work, cursor>> /\ ~IsCached
    BY <1>5 DEF EnterRun, Goto
  <2>2. stack \in Seq(Contexts)
    BY DEF Known, Recursion, TypeOK
  <2>3. Len(stack') = n + 1 /\ \A k \in 1 .. n : stack'[k] = stack[k]
    BY <1>2, <2>1, <2>2, LenProperties
  <2>4. CallersWait'
    <3> SUFFICES ASSUME NEW k \in 1 .. n
                 PROVE  Exhausted(Running(k))'
      BY <1>2, <2>3 DEF CallersWait
    <3>1. Running(k)' = Running(k)
      BY <2>1, <2>3 DEF Running
    <3>2. CASE k = n
      <4>1. stack # <<>> /\ Running(k) = Cur
        BY <1>2, <3>2 DEF Running, Cur, This, Ctx
      <4> QED  BY <1>1, <2>1, <3>1, <4>1, CalleeExhausted DEF Known, Exhausted
    <3>3. CASE k # n
      <4>1. k \in 1 .. Len(stack) - 1
        BY <1>2, <3>3
      <4> QED  BY <1>1, <3>1, <4>1 DEF Positions, CallersWait, Exhausted
    <3> QED  BY <3>2, <3>3
  <2>5. ClientWaits'
    BY <1>1, <2>1, CalleeExhausted DEF Known, Positions, ClientWaits
  <2>6. Seen'
    <3>1. ~AtCaller'
      BY <2>1 DEF AtCaller
    <3>2. \A a \in ARs : \A w \in ToSet(Work[a]) : IsSubset(w) => Taken(Set, w) \subseteq ToSet(Set[a])
      BY <1>3 DEF Positions, Seen
    <3> QED  BY <1>1, <2>1, <3>1, <3>2 DEF Seen, Taken, Handed
  <2>7. ResultMeans'
    BY <2>1 DEF ResultMeans, AtCaller
  <2> QED  BY <2>4, <2>5, <2>6, <2>7 DEF Positions
<1>6. CASE EnterCached
  <2>1. /\ result' = NextValue(Set[Callee.AR][Callee.i + 1]) /\ pc' = "return" /\ stack' = stack
        /\ Advance(stack) /\ Callee.i < Len(Set[Callee.AR])
    BY <1>6 DEF EnterCached, Return, IsCached
  <2>2. CASE stack = <<>>
    <3>1. Work' = Work
      BY <2>1, <2>2 DEF Advance
    <3>2. \A a : Handed(a)' = {}
      BY <2>1, <2>2 DEF Handed, AtCaller
    <3>3. Seen'
      BY <1>1, <1>3, <3>1, <3>2 DEF Positions, Seen, Taken
    <3>4. CallersWait' /\ ClientWaits' /\ ResultMeans'
      BY <1>2, <2>1, <2>2 DEF CallersWait, ClientWaits, ResultMeans, AtCaller
    <3> QED  BY <3>3, <3>4 DEF Positions
  <2>3. CASE stack # <<>>
    <3> DEFINE r == Running(n)
               u == Next1(r)
    <3>1. n \in 1 .. Len(stack) /\ Last(stack) = stack[n] /\ stack[n].AR = This /\ r = Cur /\ n >= 1
      BY <1>2, <2>3 DEF Last, Running, Cur, This, Ctx
    <3>2. /\ This \in ARs /\ Cur \in ToSet(Work[This]) /\ Cur \in Works
          /\ Cur.AR \in ARs /\ Cur.i \in Nat
      BY <1>1, <2>3, CurItem DEF Known
    <3>3. /\ \A a \in ARs \ {This} : Work'[a] = Work[a]
          /\ u.AR = r.AR /\ (IsSubset(u) <=> IsSubset(r))
          /\ ToSet(Work'[This]) \subseteq ToSet(Work[This]) \cup {u}
          /\ Work'[This][stack[n].Pos] = u
      BY <1>1, <2>1, <2>3, <3>1, AdvanceItems DEF Known
    <3>4. Callee.AR = Cur.AR /\ Callee.i = Cur.i
      BY <2>3 DEF Callee
    <3> DEFINE v == Set[Cur.AR][Cur.i + 1]
    <3>5. result'.type = "NEXT_VALUE" /\ result'.VI = v
      BY <2>1, <3>4 DEF NextValue
    <3>6. This' = This /\ Cur' = u /\ AtCaller'
      <4>1. This' = This /\ Ctx' = Ctx /\ Ctx = stack[n] /\ AtCaller'
        BY <1>2, <2>1, <2>3 DEF This, Ctx, AtCaller
      <4>2. Work'[This][Ctx.Pos] = u
        BY <3>3, <4>1
      <4> HIDE DEF u
      <4> QED  BY <4>1, <4>2 DEF Cur
    <3>7. v \in ToSet(Set[Cur.AR])
      <4>1. Cur.i + 1 \in 1 .. Len(Set[Cur.AR])
        BY <2>1, <3>2, <3>4, LenOfSet DEF Known
      <4> QED  BY <3>2, <4>1, SetItems DEF Known
    <3>8. Taken(Set, u) = Taken(Set, Cur) \cup {v}
      BY <3>1, <3>2, TakenNext
    <3> HIDE DEF u, r, v
    <3>9. Seen'
      <4> SUFFICES ASSUME NEW a \in ARs, NEW w \in ToSet(Work'[a]), IsSubset(w)
                   PROVE  Taken(Set, w) \subseteq ToSet(Set[a]) \cup Handed(a)'
        BY <1>1 DEF Seen, Taken
      <4>1. CASE w \in ToSet(Work[a])
        BY <1>3, <4>1 DEF Positions, Seen
      <4>2. CASE w \notin ToSet(Work[a])
        <5>1. a = This /\ w = u
          BY <3>3, <4>2
        <5>2. Taken(Set, Cur) \subseteq ToSet(Set[This])
          BY <1>3, <3>1, <3>2, <3>3, <5>1 DEF Positions, Seen
        <5>3. v \in Handed(a)'
          BY <3>1, <3>3, <3>5, <3>6, <5>1 DEF Handed
        <5> QED  BY <3>8, <5>1, <5>2, <5>3
      <4> QED  BY <4>1, <4>2
    <3>10. CallersWait'
      BY <1>1, <1>2, <2>1, <3>1, <3>3, CallersStay DEF Positions, Known
    <3>11. ClientWaits'
      BY <1>1, <2>1, <2>3 DEF Positions, ClientWaits, Advance
    <3>12. ResultMeans'
      BY <1>1, <3>1, <3>3, <3>5, <3>6, <3>7 DEF ResultMeans
    <3> QED  BY <3>9, <3>10, <3>11, <3>12 DEF Positions
  <2> QED  BY <2>2, <2>3
<1> QED  BY <1>4, <1>5, <1>6

(* The activation ends without a value. *)
LEMMA LeavePositions ==
    ASSUME Known, Positions, RunInline \/ EndComplete \/ EndCancelRetry \/ EndRetry
    PROVE  Positions'
<1>1. stack # <<>> /\ SuspendedKept /\ cursor'.AR = cursor.AR
  BY LeaveKept DEF Known
<1>2. /\ pc = "run" /\ pc' = "return" /\ stack' = Front(stack) /\ Set' = Set /\ cursor' = cursor
      /\ \/ RunInline /\ result' = Inline(Cur)
         \/ ~RunInline /\ result'.type \in {"COMPLETE", "RETRY"}
  BY DEF RunInline, EndComplete, EndCancelRetry, EndRetry, Leave, Return, Inline, Complete, Retry
<1>3. PICK n \in Nat : /\ n >= 1
                       /\ Len(stack) = n
                       /\ Len(stack') = n - 1
                       /\ stack' = <<>> <=> n = 1
                       /\ \A k \in 1 .. n - 1 : stack'[k] = stack[k]
                       /\ Callee'.AR = This
  BY <1>1, <1>2, AfterLeave DEF Routing, Known
<1>4. This \in ARs /\ Work[This] \in Seq(Works)
  BY <1>1, TopFrame DEF Known
<1>5. /\ \A a \in ARs \ {This} : Work'[a] = Work[a]
      /\ ToSet(Work'[This]) \subseteq ToSet(Work[This])
      /\ EndCancelRetry => Work'[This] = <<>>
      /\ ~EndCancelRetry => Work' = Work
  <2>1. CASE EndCancelRetry
    <3>1. Work'[This] = <<>> /\ \A a \in ARs \ {This} : Work'[a] = Work[a]
      BY <1>4, <2>1, SetWorkItems DEF EndCancelRetry, Known
    <3>2. ToSet(<<>>) = {}
      BY DEF ToSet
    <3> QED  BY <2>1, <3>1, <3>2
  <2>2. CASE ~EndCancelRetry
    <3>1. Work' = Work
      BY <2>2 DEF RunInline, EndComplete, EndRetry
    <3> QED  BY <2>2, <3>1
  <2> QED  BY <2>1, <2>2
<1>6. \A a : Handed(a) = {} /\ Handed(a)' = {}
  <2>1. Inline(Cur).type = "INLINE"
    BY DEF Inline
  <2> QED  BY <1>2, <2>1 DEF Handed, AtCaller
<1>7. Seen'
  <2> SUFFICES ASSUME NEW a \in ARs, NEW w \in ToSet(Work'[a]), IsSubset(w)
               PROVE  Taken(Set, w) \subseteq ToSet(Set[a])
    BY <1>2, <1>6 DEF Seen, Taken
  <2>1. w \in ToSet(Work[a])
    BY <1>5
  <2> QED  BY <1>6, <2>1 DEF Positions, Seen
<1>8. CallersWait'
  BY <1>2, <1>3, <1>5, CallersStay DEF Positions, Known
<1>9. ClientWaits'
  BY <1>1, <1>2 DEF Positions, ClientWaits
<1>10. ResultMeans'
  <2> SUFFICES ASSUME AtCaller'
               PROVE  ResultMeans'
    BY DEF ResultMeans
  <2>1. stack' # <<>> /\ n # 1 /\ n - 1 \in 1 .. Len(stack) - 1 /\ n - 1 \in 1 .. n - 1
    BY <1>3 DEF AtCaller
  <2>2. Cur' = Running(n - 1)' /\ Cur'.AR = This
    BY <1>3, <2>1 DEF Cur, This, Ctx, Running, Callee
  <2>3. Running(n - 1)' = Running(n - 1)
    <3>1. stack[n - 1].AR \in ARs /\ stack[n - 1].AR # This
      BY <1>1, <1>3, <2>1, TopFrame DEF Known
    <3> QED  BY <1>3, <1>5, <2>1, <3>1 DEF Running
  <2>4. Exhausted(Cur)'
    <3>1. Exhausted(Running(n - 1))
      BY <2>1 DEF Positions, CallersWait
    <3> QED  BY <1>2, <2>2, <2>3, <3>1 DEF Exhausted
  <2>5. CASE RunInline
    <3>1. Len(Work[This]) = 1 /\ ~AtEnd /\ IsSubset(Cur) /\ Work' = Work /\ result' = Inline(Cur)
      BY <1>2, <2>5 DEF RunInline, canInline, Leave, Return
    <3>2. Ctx.Pos \in 1 .. Len(Work[This])
      BY <1>1, <1>2, <3>1, CurType DEF Known
    <3>3. Cur = Work[This][1]
      BY <3>1, <3>2 DEF Cur
    <3> QED  BY <2>2, <2>4, <3>1, <3>3 DEF ResultMeans, Inline
  <2>6. CASE ~RunInline
    <3>1. result'.type = "COMPLETE" => Work'[This] = <<>>
      <4>1. CASE EndComplete
        <5>1. Ctx.Retry = NoAR /\ AtEnd /\ Work' = Work
          BY <4>1 DEF EndComplete
        <5>2. PICK m \in Nat : Len(Work[This]) = m /\ (m = 0 <=> Work[This] = <<>>)
          BY <1>4, LenProperties, EmptySeq
        <5>3. Ctx.Pos = 1
          BY <1>2, <1>3, <5>1 DEF Known, Routing, RetriedPassed, Ctx
        <5> QED  BY <5>1, <5>2, <5>3 DEF AtEnd
      <4>2. CASE EndCancelRetry
        BY <1>5, <4>2
      <4>3. CASE EndRetry
        BY <4>3 DEF EndRetry, Leave, Return, Retry
      <4> QED  BY <2>6, <4>1, <4>2, <4>3
    <3> QED  BY <1>2, <2>2, <2>4, <2>6, <3>1 DEF ResultMeans
  <2> QED  BY <2>5, <2>6
<1> QED  BY <1>7, <1>8, <1>9, <1>10 DEF Positions

(* A new value is added to This and handed on. *)
LEMMA AddedValue ==
    ASSUME Known, Positions, AddNewValue
    PROVE  \E n \in Nat :
           /\ n >= 1 /\ Len(stack) = n /\ Len(stack') = n - 1 /\ (stack' = <<>> <=> n = 1)
           /\ \A k \in 1 .. n - 1 : /\ stack'[k] = stack[k] /\ stack[k].AR # This
                                    /\ stack[k].AR \in ARs
           /\ This \in ARs /\ stack' = Front(stack) /\ stack # <<>>
           /\ pc' = "return" /\ result' = result /\ result.VI \in VIs /\ result.type = "NEXT_VALUE"
           /\ AtCaller /\ IsSubset(Cur) /\ sys' = sys /\ Subsets' = Subsets
           /\ result.VI \notin ToSet(Set[This])
           /\ \A a \in ARs \ {This} : Set'[a] = Set[a]
           /\ Set'[This] = Append(Set[This], result.VI)
           /\ ToSet(Set'[This]) = ToSet(Set[This]) \cup {result.VI}
           /\ Len(Set'[This]) = Len(Set[This]) + 1
           /\ Set'[This][Len(Set[This]) + 1] = result.VI
           /\ \A w : w.AR \in ARs /\ w.i \in Nat /\ w.i <= Len(Set[w.AR]) => Taken(Set', w) = Taken(Set, w)
           /\ n = 1 => Work' = Work /\ cursor' = [cursor EXCEPT !.i = @ + 1]
           /\ n # 1 => cursor' = cursor
           /\ n # 1 =>
                LET b == stack[n - 1].AR
                    r == Running(n - 1)
                    u == Next1(r)
                IN  /\ b \in ARs /\ b # This /\ r \in ToSet(Work[b]) /\ r \in Works /\ r.AR = This /\ Exhausted(r)
                    /\ \A a \in ARs \ {b} : Work'[a] = Work[a]
                    /\ u \in Works /\ u.AR = This /\ u.alg = r.alg /\ u.i = r.i + 1
                    /\ (IsSubset(u) <=> IsSubset(r)) /\ (IsTransform(u) <=> IsTransform(r))
                    /\ u \in ToSet(Work'[b])
                    /\ ToSet(Work'[b]) \subseteq ToSet(Work[b]) \cup {u}
                    /\ ToSet(Work[b]) \subseteq ToSet(Work'[b]) \cup {r}
                    /\ Len(Work'[b]) = Len(Work[b])
                    /\ Taken(Set', u) = Taken(Set, r) \cup {result.VI}
                    /\ Cur' = u /\ This' = b /\ AtCaller'
                    /\ Work'[b][stack[n - 1].Pos] = u
                    /\ \A p \in 1 .. Len(Work[b]) : p # stack[n - 1].Pos => Work'[b][p] = Work[b][p]
<1>1. stack # <<>> /\ SuspendedKept /\ cursor'.AR = cursor.AR
  BY LeaveKept DEF Known
<1>2. /\ pc' = "return" /\ stack' = Front(stack) /\ UNCHANGED <<sys, Subsets>>
      /\ result' = result /\ result.type = "NEXT_VALUE" /\ pc = "return" /\ IsSubset(Cur) /\ AtCaller
      /\ Advance(Front(stack))
  BY DEF AddNewValue, Leave, Return, Returned, AtCaller
<1>3. PICK n \in Nat : /\ n >= 1
                       /\ Len(stack) = n
                       /\ Len(stack') = n - 1
                       /\ stack' = <<>> <=> n = 1
                       /\ \A k \in 1 .. n - 1 : stack'[k] = stack[k]
                       /\ Callee'.AR = This
  BY <1>1, <1>2, AfterLeave DEF Routing, Known
<1>4. This \in ARs /\ \A k \in 1 .. n - 1 : stack[k].AR # This /\ stack[k].AR \in ARs
  BY <1>1, <1>3, TopFrame DEF Known
<1>5. result.VI \in VIs /\ Set[This] \in Seq(VIs) /\ Len(Set[This]) \in Nat
  BY <1>2, <1>4, SetItems DEF Known, Recursion, ControlOK
<1>6. /\ Set'[This] = Append(Set[This], result.VI) /\ \A a \in ARs \ {This} : Set'[a] = Set[a]
      /\ result.VI \notin ToSet(Set[This])
  <2>1. Set \in [ARs -> Seq(VIs)]
    BY DEF Known, Recursion, TypeOK
  <2>2. Set' = [Set EXCEPT ![This] = Append(@, result.VI)] /\ ~Contains(Set[This], result.VI)
    BY DEF AddNewValue
  <2>3. result.VI \notin ToSet(Set[This])
    BY <2>2 DEF Contains, ToSet
  <2> QED  BY <1>4, <2>1, <2>2, <2>3
<1>7. /\ ToSet(Set'[This]) = ToSet(Set[This]) \cup {result.VI}
      /\ Len(Set'[This]) = Len(Set[This]) + 1
      /\ Set'[This][Len(Set[This]) + 1] = result.VI
      /\ \A j \in 1 .. Len(Set[This]) : Set'[This][j] = Set[This][j]
  BY <1>5, <1>6, ToSetAppend, AppendProperties
<1>8. ASSUME NEW w, w.AR \in ARs, w.i \in Nat, w.i <= Len(Set[w.AR])
      PROVE  Taken(Set', w) = Taken(Set, w)
  <2>1. CASE w.AR = This
    <3>1. \A j \in 1 .. w.i : Set'[This][j] = Set[This][j]
      <4> SUFFICES ASSUME NEW j \in 1 .. w.i
                   PROVE  j \in 1 .. Len(Set[This])
        BY <1>7
      <4>1. PICK m \in Nat : Len(Set[This]) = m
        BY <1>5
      <4> QED  BY <1>8, <2>1, <4>1
    <3> QED  BY <2>1, <3>1 DEF Taken
  <2>2. CASE w.AR # This
    BY <1>6, <1>8, <2>2 DEF Taken
  <2> QED  BY <2>1, <2>2
<1>9. CASE n = 1
  <2>1. Front(stack) = <<>>
    BY <1>2, <1>3, <1>9
  <2>2. Work' = Work /\ cursor' = [cursor EXCEPT !.i = @ + 1]
    BY <1>2, <2>1 DEF Advance
  <2> QED  BY <1>1, <1>2, <1>3, <1>4, <1>5, <1>6, <1>7, <1>8, <1>9, <2>2
<1>10. CASE n # 1
  <2> DEFINE b == stack[n - 1].AR
             r == Running(n - 1)
             u == Next1(r)
  <2>1. n - 1 \in 1 .. Len(stack) - 1 /\ n - 1 \in 1 .. n - 1 /\ n - 1 \in 1 .. Len(stack) /\ n - 1 < Len(stack)
        /\ n - 1 \in Nat /\ n \in 1 .. Len(stack)
    BY <1>3, <1>10
  <2>2. stack' # <<>> /\ Front(stack) # <<>> /\ Last(Front(stack)) = stack[n - 1]
    BY <1>2, <1>3, <1>10, <2>1 DEF Last
  <2>3. /\ b \in ARs /\ \A a \in ARs \ {b} : Work'[a] = Work[a]
        /\ u \in Works /\ u.AR = r.AR /\ u.kind = r.kind
        /\ u.alg = r.alg /\ u.i = r.i + 1
        /\ (IsSubset(u) <=> IsSubset(r)) /\ (IsTransform(u) <=> IsTransform(r))
        /\ u \in ToSet(Work'[b])
        /\ ToSet(Work'[b]) \subseteq ToSet(Work[b]) \cup {u}
        /\ ToSet(Work[b]) \subseteq ToSet(Work'[b]) \cup {r}
        /\ Len(Work'[b]) = Len(Work[b])
        /\ Work'[b][stack[n - 1].Pos] = u
        /\ \A p \in 1 .. Len(Work[b]) : p # stack[n - 1].Pos => Work'[b][p] = Work[b][p]
    BY <1>2, <2>1, <2>2, AdvanceItems DEF Known
  <2>4. r \in ToSet(Work[b]) /\ r \in Works /\ r.i \in Nat
    BY <2>1, RunningItem DEF Known
  <2>5. r.AR = This
    <3>1. r.AR = stack[(n - 1) + 1].AR
      BY <2>1 DEF Known, Recursion, IteratorsValid
    <3> QED  BY <1>3, <3>1 DEF This, Ctx
  <2>6. Exhausted(r)
    BY <2>1 DEF Positions, CallersWait
  <2>7. Taken(Set', u) = Taken(Set, r) \cup {result.VI}
    <3>1. r.i = Len(Set[This])
      BY <2>5, <2>6 DEF Exhausted
    <3>2. Taken(Set', r) = Taken(Set, r)
      BY <1>4, <1>5, <1>8, <2>5, <3>1
    <3>3. Taken(Set', u) = Taken(Set', r) \cup {Set'[r.AR][r.i + 1]}
      BY <2>4, TakenNext
    <3> QED  BY <1>7, <2>5, <3>1, <3>2, <3>3
  <2>8. Cur' = u /\ This' = b /\ AtCaller'
    BY <1>2, <1>3, <2>1, <2>2, <2>3 DEF Cur, This, Ctx, AtCaller
  <2>9. b # This
    BY <1>4, <2>1
  <2>10. cursor' = cursor
    BY <1>2, <2>2 DEF Advance
  <2> HIDE DEF b, r, u
  <2>11. /\ b \in ARs /\ b # This /\ r \in ToSet(Work[b]) /\ r \in Works /\ r.AR = This /\ Exhausted(r)
         /\ \A a \in ARs \ {b} : Work'[a] = Work[a]
         /\ u \in Works /\ u.AR = This /\ u.alg = r.alg /\ u.i = r.i + 1
         /\ (IsSubset(u) <=> IsSubset(r)) /\ (IsTransform(u) <=> IsTransform(r))
         /\ u \in ToSet(Work'[b])
         /\ ToSet(Work'[b]) \subseteq ToSet(Work[b]) \cup {u}
         /\ ToSet(Work[b]) \subseteq ToSet(Work'[b]) \cup {r}
         /\ Len(Work'[b]) = Len(Work[b])
         /\ Taken(Set', u) = Taken(Set, r) \cup {result.VI}
         /\ Cur' = u /\ This' = b /\ AtCaller'
         /\ Work'[b][stack[n - 1].Pos] = u
         /\ \A p \in 1 .. Len(Work[b]) : p # stack[n - 1].Pos => Work'[b][p] = Work[b][p]
    BY <2>3, <2>4, <2>5, <2>6, <2>7, <2>8, <2>9
  <2> QED  BY <1>1, <1>2, <1>3, <1>4, <1>5, <1>6, <1>7, <1>8, <1>10, <2>10, <2>11 DEF b, r, u
<1> QED  BY <1>9, <1>10

LEMMA AddNewValuePositions ==
    ASSUME Known, Positions, AddNewValue
    PROVE  Positions'
<1> DEFINE v == result.VI
<1>1. PICK n \in Nat :
         /\ n >= 1 /\ Len(stack) = n /\ Len(stack') = n - 1 /\ (stack' = <<>> <=> n = 1)
         /\ \A k \in 1 .. n - 1 : stack'[k] = stack[k] /\ stack[k].AR # This /\ stack[k].AR \in ARs
         /\ This \in ARs /\ pc' = "return" /\ result' = result /\ result.type = "NEXT_VALUE"
         /\ AtCaller /\ IsSubset(Cur)
         /\ \A a \in ARs \ {This} : Set'[a] = Set[a]
         /\ ToSet(Set'[This]) = ToSet(Set[This]) \cup {v}
         /\ \A w : w.AR \in ARs /\ w.i \in Nat /\ w.i <= Len(Set[w.AR]) => Taken(Set', w) = Taken(Set, w)
         /\ n = 1 => Work' = Work
         /\ n # 1 => cursor' = cursor
         /\ n # 1 =>
              LET b == stack[n - 1].AR
                  r == Running(n - 1)
                  u == Next1(r)
              IN  /\ b \in ARs /\ b # This /\ r \in ToSet(Work[b]) /\ r \in Works /\ r.AR = This
                  /\ \A a \in ARs \ {b} : Work'[a] = Work[a]
                  /\ u \in Works /\ u.AR = This
                  /\ (IsSubset(u) <=> IsSubset(r))
                  /\ ToSet(Work'[b]) \subseteq ToSet(Work[b]) \cup {u}
                  /\ Taken(Set', u) = Taken(Set, r) \cup {v}
                  /\ Cur' = u /\ This' = b /\ AtCaller'
  BY AddedValue
<1> HIDE DEF v
<1>2. \A a \in ARs : ToSet(Set[a]) \cup Handed(a) \subseteq ToSet(Set'[a])
  BY <1>1 DEF Handed, v
<1>3. ASSUME NEW a \in ARs, NEW w \in ToSet(Work[a]), IsSubset(w)
      PROVE  Taken(Set', w) \subseteq ToSet(Set'[a])
  <2>1. w.AR \in ARs /\ w.i \in Nat /\ w.i <= Len(Set[w.AR])
    BY ItemType, ItemInRange DEF Known
  <2>2. Taken(Set, w) \subseteq ToSet(Set[a]) \cup Handed(a)
    BY <1>3 DEF Positions, Seen
  <2> QED  BY <1>1, <1>2, <2>1, <2>2
<1>4. CASE n = 1
  <2>1. Seen'
    BY <1>1, <1>3, <1>4 DEF Seen
  <2>2. CallersWait' /\ ClientWaits' /\ ResultMeans'
    BY <1>1, <1>4 DEF CallersWait, ClientWaits, ResultMeans, AtCaller
  <2> QED  BY <2>1, <2>2 DEF Positions
<1>5. CASE n # 1
  <2> DEFINE b == stack[n - 1].AR
             r == Running(n - 1)
             u == Next1(r)
  <2>1. /\ b \in ARs /\ b # This /\ r \in ToSet(Work[b]) /\ r \in Works /\ r.AR = This
        /\ \A a \in ARs \ {b} : Work'[a] = Work[a]
        /\ u \in Works /\ u.AR = This
        /\ (IsSubset(u) <=> IsSubset(r))
        /\ ToSet(Work'[b]) \subseteq ToSet(Work[b]) \cup {u}
        /\ Taken(Set', u) = Taken(Set, r) \cup {v}
        /\ Cur' = u /\ This' = b /\ AtCaller'
    BY <1>1, <1>5
  <2>2. \A k \in 1 .. n - 2 : /\ k \in 1 .. Len(stack) - 1 /\ k \in 1 .. n - 1 /\ k + 1 \in 1 .. n - 1
                              /\ stack[k].AR # b
    <3> SUFFICES ASSUME NEW k \in 1 .. n - 2
                 PROVE  /\ k \in 1 .. Len(stack) - 1 /\ k \in 1 .. n - 1 /\ k + 1 \in 1 .. n - 1
                        /\ stack[k].AR # b
      OBVIOUS
    <3>1. k \in 1 .. n /\ n - 1 \in 1 .. n /\ k \in 1 .. Len(stack) - 1 /\ k \in 1 .. n - 1 /\ k + 1 \in 1 .. n - 1
      BY <1>1
    <3>2. EnumerationDepth[stack[k].AR] = k - 1 /\ EnumerationDepth[b] = (n - 1) - 1
      BY <1>1, <3>1 DEF Known, Recursion, DepthsMirrorStack
    <3> QED  BY <1>1, <3>1, <3>2
  <2> HIDE DEF b, r, u
  <2>3. Seen'
    <3> SUFFICES ASSUME NEW a \in ARs, NEW w \in ToSet(Work'[a]), IsSubset(w)
                 PROVE  Taken(Set', w) \subseteq ToSet(Set'[a]) \cup Handed(a)'
      BY DEF Seen
    <3>1. CASE w \in ToSet(Work[a])
      BY <1>3, <3>1
    <3>2. CASE w \notin ToSet(Work[a])
      <4>1. a = b /\ w = u /\ IsSubset(r)
        BY <2>1, <3>2
      <4>2. Handed(a)' = {v}
        BY <1>1, <2>1, <4>1 DEF Handed, v
      <4>3. Taken(Set, r) \subseteq ToSet(Set[b])
        <5>1. Handed(b) = {}
          BY <2>1 DEF Handed
        <5> QED  BY <2>1, <4>1, <5>1 DEF Positions, Seen
      <4> QED  BY <1>2, <2>1, <4>1, <4>2, <4>3
    <3> QED  BY <3>1, <3>2
  <2>4. CallersWait'
    <3> SUFFICES ASSUME NEW k \in 1 .. n - 2
                 PROVE  Exhausted(Running(k))'
      BY <1>1 DEF CallersWait
    <3>1. Running(k)' = Running(k)
      <4>1. stack'[k] = stack[k] /\ stack[k].AR \in ARs \ {b}
        BY <1>1, <2>2
      <4> QED  BY <2>1, <4>1 DEF Running
    <3>2. Running(k).AR = stack[k + 1].AR /\ stack[k + 1].AR \in ARs \ {This}
      BY <1>1, <2>2 DEF Known, Recursion, IteratorsValid
    <3>3. Exhausted(Running(k))
      BY <2>2 DEF Positions, CallersWait
    <3> QED  BY <1>1, <3>1, <3>2, <3>3 DEF Exhausted
  <2>5. ClientWaits'
    <3>1. stack # <<>> /\ 1 \in 1 .. n - 1
      BY <1>1, <1>5 DEF AtCaller
    <3>2. cursor.AR = stack[1].AR
      BY <3>1 DEF Known, Routing, RootIsCursor
    <3>3. cursor.AR \in ARs \ {This}
      BY <1>1, <3>1, <3>2
    <3> QED  BY <1>1, <1>5, <3>1, <3>3 DEF Positions, ClientWaits
  <2>6. ResultMeans'
    <3>1. v \in ToSet(Set'[This])
      BY <1>1
    <3> QED  BY <1>1, <2>1, <3>1 DEF ResultMeans, v
  <2> QED  BY <2>3, <2>4, <2>5, <2>6 DEF Positions
<1> QED  BY <1>4, <1>5

LEMMA InitPositions ==
    ASSUME Init
    PROVE  Positions
<1>1. Recursion /\ sys \in EquationSystems
  BY InitRecursion DEF Recursion, TypeOK
<1>2. Work = sys.work /\ stack = <<>> /\ Len(stack) = 0 /\ pc = "idle" /\ sys \in Systems
  BY EmptySeq DEF Init, StartsFrom
<1>3. ASSUME NEW a \in ARs, NEW w \in ToSet(Work[a])
      PROVE  Taken(Set, w) = {}
  <2>1. PICK k \in DOMAIN sys.work[a] : sys.work[a][k] = w
    BY <1>2 DEF ToSet
  <2>2. w.i = 0
    BY <1>2, <2>1, FreshAssumption
  <2> QED  BY <2>2 DEF Taken
<1> QED  BY <1>2, <1>3 DEF Positions, Seen, CallersWait, ClientWaits, ResultMeans, AtCaller

LEMMA NextPositions ==
    ASSUME Known, Ordered, Positions, [Next]_vars
    PROVE  Positions'
<1>1. ~EnterRewrite /\ pc # "rewrite" /\ ~(pc = "return" /\ result.type = "REWRITE")
  BY NoEnterRewrite DEF Ordered, NothingRewritten
<1>2. CASE Enter
  BY <1>1, <1>2, EnterPositions DEF Enter
<1>3. CASE Run
  BY <1>3, HandlePositions, LeavePositions DEF Run
<1>4. CASE Handle
  <2>1. ~(RewriteHere \/ RewriteBegin \/ RewriteKeep \/ RewriteDrop \/ RewriteSplice)
    BY <1>1 DEF RewriteHere, RewriteBegin, RewriteKeep, RewriteDrop, RewriteSplice, Returned
  <2> QED  BY <1>4, <2>1, HandlePositions, AddNewValuePositions DEF Handle
<1>5. CASE Answer \/ \E a \in ARs : \E i \in 0 .. Len(Set[a]) : Query(a, i)
  <2>1. pc' \in {"idle", "call"} /\ UNCHANGED <<Set, Work, stack>> /\ stack = <<>>
    BY <1>5 DEF Answer, Query, Goto, Known, Recursion, ControlOK
  <2>2. Len(stack) = 0
    BY <2>1, EmptySeq
  <2>3. \A a : Handed(a) = {} /\ Handed(a)' = {}
    BY <2>1 DEF Handed, AtCaller
  <2> QED  BY <2>1, <2>2, <2>3 DEF Positions, Seen, Taken, CallersWait, ClientWaits, ResultMeans, AtCaller
<1>6. CASE UNCHANGED vars
  <2>1. UNCHANGED <<Set, Work, stack, cursor, result, pc>>
    BY <1>6 DEF vars
  <2>2. This' = This /\ Cur' = Cur /\ (AtCaller <=> AtCaller')
    BY <2>1 DEF Cur, This, Ctx, AtCaller
  <2>3. \A a : Handed(a)' = Handed(a)
    BY <2>1, <2>2 DEF Handed
  <2>4. Seen'
    BY <2>1, <2>3 DEF Positions, Seen, Taken
  <2>5. CallersWait' /\ ClientWaits'
    BY <2>1 DEF Positions, CallersWait, ClientWaits, Exhausted, Running
  <2>6. ResultMeans'
    BY <2>1, <2>2 DEF Positions, ResultMeans, Exhausted
  <2> QED  BY <2>4, <2>5, <2>6 DEF Positions
<1> QED  BY <1>2, <1>3, <1>4, <1>5, <1>6 DEF Next, Step

-----------------------------------------------------------------------------
(* Retries: work that is passed over waits for activations below it, and   *)
(* for nothing else.                                                       *)

(* w can add nothing before an AR of Y, or one with a depth in lo .. hi,   *)
(* finds more.                                                             *)
Held(st, depth, Y, lo, hi, w) ==
    /\ w.i = Len(st[w.AR])
    /\ w.AR \in Y \/ (lo <= depth[w.AR] /\ depth[w.AR] <= hi)

Waiting(st, wk, depth, Y, lo, hi) ==
    \A a \in Y : \A w \in ToSet(wk[a]) : Held(st, depth, Y, lo, hi, w)

(* Why the activation at k has passed over work. *)
PassedFor(k, Y) ==
    LET lo == EnumerationDepth[stack[k].Retry]
    IN  /\ Waiting(Set, Work, EnumerationDepth, Y, lo, k - 1)
        /\ \A p \in 1 .. stack[k].Pos - 1 :
              Held(Set, EnumerationDepth, Y, lo, k - 1, Work[stack[k].AR][p])
        /\ AtCaller /\ result.type = "NEXT_VALUE" => This \notin Y

Waits ==
    /\ \A k \in 1 .. Len(stack) :
          stack[k].Retry # NoAR => \E Y \in SUBSET ARs : PassedFor(k, Y)
    /\ AtCaller /\ result.type = "RETRY" => \E Y \in SUBSET ARs :
          /\ Waiting(Set, Work, EnumerationDepth, Y, EnumerationDepth[result.AR], Depth)
          /\ Held(Set, EnumerationDepth, Y, EnumerationDepth[result.AR], Depth, Cur)
    /\ AtCaller /\ result.type = "INLINE" => EnumerationDepth[Cur.AR] = -1

LEMMA HeldByMore ==
    ASSUME NEW st, NEW depth, NEW Y, NEW lo \in Nat, NEW hi \in Int, NEW w,
           Held(st, depth, Y, lo, hi, w), depth[w.AR] \in Int,
           NEW Z, Y \subseteq Z, NEW l \in Nat, l <= lo
    PROVE  Held(st, depth, Z, l, hi, w)
BY DEF Held

LEMMA HeldStays ==
    ASSUME NEW st, NEW depth, NEW Y, NEW lo \in Nat, NEW hi \in Int, NEW w,
           Held(st, depth, Y, lo, hi, w), depth[w.AR] \in Int,
           NEW st2, NEW depth2,
           w.AR \in Y \/ depth[w.AR] \in 0 .. hi => st2[w.AR] = st[w.AR],
           depth[w.AR] \in 0 .. hi => depth2[w.AR] = depth[w.AR]
    PROVE  Held(st2, depth2, Y, lo, hi, w)
BY DEF Held

(* The list of an activation up to its position. *)
LEMMA PassedItems ==
    ASSUME Recursion, Routing, NEW k \in 1 .. Len(stack), pc # "rewrite"
    PROVE  /\ stack[k] \in Contexts /\ stack[k].AR \in ARs /\ stack[k].Pos \in Nat
           /\ \A p \in 1 .. stack[k].Pos - 1 :
                 /\ p \in 1 .. Len(Work[stack[k].AR])
                 /\ Work[stack[k].AR][p] \in ToSet(Work[stack[k].AR])
<1>1. stack[k] \in Contexts /\ stack[k].AR \in ARs /\ stack[k].Pos \in Nat
  <2>1. stack[k] \in Contexts
    BY ElementOfSeq, LenProperties DEF Recursion, TypeOK
  <2> QED  BY <2>1 DEF Contexts
<1>2. Work[stack[k].AR] \in Seq(Works)
  BY <1>1 DEF Recursion, TypeOK
<1>3. PICK m \in Nat : Len(Work[stack[k].AR]) = m /\ DOMAIN Work[stack[k].AR] = 1 .. m
  BY <1>2, LenProperties
<1>4. stack[k].Pos - 1 <= m
  <2>1. CASE k < Len(stack) \/ pc \in {"call", "return"}
    BY <1>1, <1>3, <2>1 DEF Recursion, IteratorsValid
  <2>2. CASE ~(k < Len(stack) \/ pc \in {"call", "return"})
    <3>1. Len(stack) \in Nat /\ k = Len(stack)
      BY <2>2, LenProperties DEF Recursion, TypeOK
    <3>2. Ctx = stack[k] /\ This = stack[k].AR /\ stack # <<>>
      BY <3>1, EmptySeq DEF Ctx, This
    <3>3. pc = "run"
      BY <2>2, <3>2 DEF Recursion, TypeOK, ControlOK
    <3> QED  BY <1>1, <1>3, <3>2, <3>3 DEF Routing, RetriedPassed
  <2> QED  BY <2>1, <2>2
<1>5. \A p \in 1 .. stack[k].Pos - 1 : p \in 1 .. m
  BY <1>1, <1>3, <1>4
<1>6. \A p \in 1 .. m : Work[stack[k].AR][p] \in ToSet(Work[stack[k].AR])
  BY <1>2, <1>3, ItemsOf
<1> QED  BY <1>1, <1>3, <1>5, <1>6

LEMMA RetryDepth ==
    ASSUME Recursion, Routing, NEW k \in 1 .. Len(stack), stack[k].Retry # NoAR
    PROVE  /\ stack[k].Retry \in ARs
           /\ EnumerationDepth[stack[k].Retry] \in Nat /\ EnumerationDepth[stack[k].Retry] <= k - 1
<1>1. stack[k] \in Contexts
  BY ElementOfSeq, LenProperties DEF Recursion, TypeOK
<1> QED  BY <1>1 DEF Contexts, Routing, RetriesBelow

(* What an activation waits for stays as long as the sets it waits for and *)
(* the activations below it do.                                            *)
LEMMA PassedStays ==
    ASSUME Recursion, Routing, pc # "rewrite", NEW k \in 1 .. Len(stack), stack[k].Retry # NoAR,
           NEW Y \in SUBSET ARs, PassedFor(k, Y), stack'[k] = stack[k],
           \A a \in ARs : EnumerationDepth[a] \in 0 .. k - 1 => EnumerationDepth'[a] = EnumerationDepth[a],
           \A a \in ARs : a \in Y \/ EnumerationDepth[a] \in 0 .. k - 1 => Set'[a] = Set[a],
           \A a \in Y : \A w \in ToSet(Work'[a]) : w \in ToSet(Work[a]) \/
               (/\ w.AR \in ARs
                /\ Held(Set, EnumerationDepth, Y, EnumerationDepth[stack[k].Retry], k - 1, w)),
           \A p \in 1 .. stack[k].Pos - 1 : Work'[stack[k].AR][p] = Work[stack[k].AR][p],
           AtCaller' /\ result'.type = "NEXT_VALUE" => This' \notin Y
    PROVE  PassedFor(k, Y)'
<1> DEFINE lo == EnumerationDepth[stack[k].Retry]
           a0 == stack[k].AR
<1>1. lo \in Nat /\ lo <= k - 1 /\ stack[k].Retry \in ARs /\ k \in Int
  BY RetryDepth
<1>2. EnumerationDepth'[stack'[k].Retry] = lo
  BY <1>1
<1>3. \A a \in ARs : EnumerationDepth[a] \in Int
  BY DEF Recursion, TypeOK
<1>4. ASSUME NEW w, w.AR \in ARs, Held(Set, EnumerationDepth, Y, lo, k - 1, w)
      PROVE  Held(Set', EnumerationDepth', Y, lo, k - 1, w)
  <2>1. k - 1 \in Int /\ EnumerationDepth[w.AR] \in Int
    BY <1>1, <1>3, <1>4
  <2> HIDE DEF lo
  <2> QED  BY <1>1, <1>4, <2>1, HeldStays
<1>5. Waiting(Set', Work', EnumerationDepth', Y, lo, k - 1)
  <2> SUFFICES ASSUME NEW a \in Y, NEW w \in ToSet(Work'[a])
               PROVE  Held(Set', EnumerationDepth', Y, lo, k - 1, w)
    BY DEF Waiting
  <2>1. w \in ToSet(Work[a]) => w.AR \in ARs /\ Held(Set, EnumerationDepth, Y, lo, k - 1, w)
    BY ItemType DEF PassedFor, Waiting
  <2> QED  BY <1>4, <2>1
<1>6. ASSUME NEW p \in 1 .. stack'[k].Pos - 1
      PROVE  Held(Set', EnumerationDepth', Y, lo, k - 1, Work'[stack'[k].AR][p])
  <2>1. Held(Set, EnumerationDepth, Y, lo, k - 1, Work[a0][p])
    BY DEF PassedFor
  <2>2. Work[a0][p].AR \in ARs
    BY PassedItems, ItemType
  <2> QED  BY <1>4, <2>1, <2>2
<1> QED  BY <1>2, <1>5, <1>6 DEF PassedFor

(* Steps that leave the activations, and the sets, as they are. *)
LEMMA StayWaits ==
    ASSUME Known, Waits, stack # <<>>, pc # "rewrite",
           UNCHANGED <<Set, EnumerationDepth, stack>>,
           ~(AtCaller' /\ result'.type \in {"NEXT_VALUE", "RETRY", "INLINE"}),
           \A a \in ARs \ {This} : Work'[a] = Work[a],
           \A p \in 1 .. Ctx.Pos - 1 : Work'[This][p] = Work[This][p],
           \A k \in 1 .. Len(stack) : \A Y \in SUBSET ARs :
               stack[k].Retry # NoAR /\ PassedFor(k, Y) /\ This \in Y =>
                   \A w \in ToSet(Work'[This]) : w \in ToSet(Work[This]) \/
                       (/\ w.AR \in ARs
                        /\ Held(Set, EnumerationDepth, Y, EnumerationDepth[stack[k].Retry], k - 1, w))
    PROVE  Waits'
<1>1. PICK n \in Nat : /\ n >= 1 /\ Len(stack) = n /\ Ctx = stack[n] /\ This = Ctx.AR
                       /\ \A k \in 1 .. n - 1 : stack[k].AR \in ARs /\ stack[k].AR # This
  BY TopFrame DEF Known
<1>2. ASSUME NEW k \in 1 .. n, stack'[k].Retry # NoAR
      PROVE  \E Y \in SUBSET ARs : PassedFor(k, Y)'
  <2>1. stack[k].Retry # NoAR /\ k \in 1 .. Len(stack)
    BY <1>1, <1>2
  <2>2. PICK Y \in SUBSET ARs : PassedFor(k, Y)
    BY <2>1 DEF Waits
  <2>3. \A p \in 1 .. stack[k].Pos - 1 : Work'[stack[k].AR][p] = Work[stack[k].AR][p]
    <3>1. CASE k = n
      BY <1>1, <3>1
    <3>2. CASE k # n
      <4>1. k \in 1 .. n - 1
        BY <3>2
      <4> QED  BY <1>1, <4>1
    <3> QED  BY <3>1, <3>2
  <2>4. \A a \in Y : \A w \in ToSet(Work'[a]) : w \in ToSet(Work[a]) \/
               (/\ w.AR \in ARs
                /\ Held(Set, EnumerationDepth, Y, EnumerationDepth[stack[k].Retry], k - 1, w))
    BY <2>1, <2>2
  <2>5. PassedFor(k, Y)'
    BY <2>1, <2>2, <2>3, <2>4, PassedStays DEF Known
  <2> QED  BY <2>5
<1>3. Len(stack') = n
  BY <1>1
<1> QED  BY <1>2, <1>3 DEF Waits

LEMMA HandleWaits ==
    ASSUME Known, Positions, Waits,
           \/ RunRecurse \/ SkipKnownValue \/ TransformToNothing \/ TransformToSubset
           \/ InlineSubset \/ DropInlined \/ EraseCompleted
    PROVE  Waits'
<1>1. /\ stack # <<>> /\ pc' \in {"call", "run"} /\ UNCHANGED <<Set, EnumerationDepth, stack>>
      /\ pc \in {"run", "return"}
  BY DEF RunRecurse, SkipKnownValue, TransformToNothing, TransformToSubset, InlineSubset, DropInlined,
         EraseCompleted, Returned, Goto, Known, Recursion, ControlOK
<1>2. ~AtCaller'
  BY <1>1 DEF AtCaller
<1>3. CASE RunRecurse \/ SkipKnownValue \/ TransformToNothing
  <2>1. Work' = Work
    BY <1>3 DEF RunRecurse, SkipKnownValue, TransformToNothing
  <2> QED  BY <1>1, <1>2, <2>1, StayWaits
<1>4. CASE DropInlined \/ EraseCompleted
  <2>1. pc = "return" /\ EraseCur
    BY <1>4 DEF DropInlined, EraseCompleted, Returned
  <2>2. /\ \A a \in ARs \ {This} : Work'[a] = Work[a]
        /\ ToSet(Work'[This]) \subseteq ToSet(Work[This])
        /\ \A p \in 1 .. Ctx.Pos - 1 : Work'[This][p] = Work[This][p]
    BY <1>1, <2>1, EraseCurItems DEF Known
  <2> QED  BY <1>1, <1>2, <2>2, StayWaits
<1>5. CASE TransformToSubset
  <2>1. /\ \A a \in ARs \ {This} : Work'[a] = Work[a]
        /\ \A p \in 1 .. Ctx.Pos - 1 : Work'[This][p] = Work[This][p]
    BY <1>5, PushItems DEF Known
  <2>2. AtCaller /\ result.type = "NEXT_VALUE"
    BY <1>5 DEF TransformToSubset, Returned, AtCaller
  <2>3. \A k : \A Y : PassedFor(k, Y) => This \notin Y
    BY <2>2 DEF PassedFor
  <2> QED  BY <1>1, <1>2, <2>1, <2>3, StayWaits
<1>6. CASE InlineSubset
  <2>1. AtCaller /\ result.type = "INLINE" /\ pc = "return" /\ IsSubset(Cur)
    BY <1>6 DEF InlineSubset, Returned, AtCaller
  <2>2. /\ \A a \in ARs \ {This} : Work'[a] = Work[a]
        /\ \A p \in 1 .. Ctx.Pos - 1 : Work'[This][p] = Work[This][p]
        /\ ToSet(Work'[This]) \subseteq ToSet(Work[This]) \cup {Inlined}
        /\ Inlined.AR = result.AR /\ Inlined.i = result.i /\ result.AR \in ARs
    BY <1>6, InlineItems DEF Known
  <2> DEFINE r == Work[Cur.AR][1]
  <2>3. Len(Work[Cur.AR]) = 1 /\ r.AR = result.AR /\ r.i = result.i
    BY <2>1 DEF Positions, ResultMeans
  <2>4. Cur \in ToSet(Work[This]) /\ Cur.AR \in ARs
    BY <1>1, <2>1, CurItem DEF Known
  <2>5. r \in ToSet(Work[Cur.AR])
    <3>1. Work[Cur.AR] \in Seq(Works) /\ 1 \in 1 .. Len(Work[Cur.AR])
      BY <2>3, <2>4 DEF Known, Recursion, TypeOK
    <3> QED  BY <3>1, ItemsOf
  <2> HIDE DEF r
  <2>6. ASSUME NEW k \in 1 .. Len(stack), NEW Y \in SUBSET ARs, stack[k].Retry # NoAR,
               PassedFor(k, Y), This \in Y
        PROVE  Held(Set, EnumerationDepth, Y, EnumerationDepth[stack[k].Retry], k - 1, Inlined)
    <3> DEFINE lo == EnumerationDepth[stack[k].Retry]
    <3>1. Waiting(Set, Work, EnumerationDepth, Y, lo, k - 1)
      BY <2>6 DEF PassedFor
    <3>2. lo \in Nat
      BY <2>6, RetryDepth DEF Known
    <3>3. EnumerationDepth[Cur.AR] = -1
      BY <2>1 DEF Waits
    <3> HIDE DEF lo
    <3>4. Held(Set, EnumerationDepth, Y, lo, k - 1, Cur)
      BY <2>4, <2>6, <3>1 DEF Waiting
    <3>5. Cur.AR \in Y
      BY <3>2, <3>3, <3>4 DEF Held
    <3>6. Held(Set, EnumerationDepth, Y, lo, k - 1, r)
      BY <2>5, <3>1, <3>5 DEF Waiting
    <3>7. Held(Set, EnumerationDepth, Y, lo, k - 1, Inlined)
      BY <2>2, <2>3, <3>6 DEF Held
    <3> QED  BY <3>7 DEF lo
  <2> QED  BY <1>1, <1>2, <2>2, <2>6, StayWaits
<1> QED  BY <1>3, <1>4, <1>5, <1>6

LEMMA EnterWaits ==
    ASSUME Known, Waits, EnterRetry \/ EnterCached \/ EnterRun
    PROVE  Waits'
<1>1. pc = "call" /\ Set' = Set
  BY DEF EnterRetry, EnterCached, EnterRun
<1>2. PICK n \in Nat : Len(stack) = n /\ (stack = <<>> <=> n = 0)
  BY StackLen DEF Known, Recursion
<1>3. stack # <<>> => /\ n \in 1 .. n /\ Ctx = stack[n] /\ This = Ctx.AR /\ This \in ARs
                      /\ Cur \in ToSet(Work[This]) /\ Cur.AR \in ARs /\ Depth = n - 1
                      /\ \A k \in 1 .. n - 1 : stack[k].AR \in ARs /\ stack[k].AR # This
  <2> SUFFICES ASSUME stack # <<>>
               PROVE  /\ n \in 1 .. n /\ Ctx = stack[n] /\ This = Ctx.AR /\ This \in ARs
                      /\ Cur \in ToSet(Work[This]) /\ Cur.AR \in ARs /\ Depth = n - 1
                      /\ \A k \in 1 .. n - 1 : stack[k].AR \in ARs /\ stack[k].AR # This
    OBVIOUS
  <2>1. Cur \in ToSet(Work[This]) /\ Cur.AR \in ARs
    BY <1>1, CurItem DEF Known
  <2> QED  BY <1>2, <2>1, TopFrame DEF Known
<1>4. CASE EnterRetry
  <2>1. /\ UNCHANGED <<Set, Work, EnumerationDepth, stack>> /\ result' = Retry(Callee.AR) /\ pc' = "return"
        /\ ~IsCached /\ isEnumerating(Callee.AR)
    BY <1>1, <1>4 DEF EnterRetry, Return
  <2>2. result'.type = "RETRY" /\ result'.AR = Callee.AR
    BY <2>1 DEF Retry
  <2>3. ASSUME NEW k \in 1 .. n, stack[k].Retry # NoAR
        PROVE  \E Y \in SUBSET ARs : PassedFor(k, Y)'
    <3>1. PICK Y \in SUBSET ARs : PassedFor(k, Y)
      BY <1>2, <2>3 DEF Waits
    <3> QED  BY <2>1, <2>2, <3>1 DEF PassedFor
  <2>4. ASSUME stack # <<>>
        PROVE  /\ Waiting(Set, Work, EnumerationDepth, {}, EnumerationDepth[Callee.AR], Depth)
               /\ Held(Set, EnumerationDepth, {}, EnumerationDepth[Callee.AR], Depth, Cur)
    <3>1. Callee.AR = Cur.AR /\ Exhausted(Cur)
      BY <1>1, <2>1, <2>4, CalleeExhausted DEF Callee, Known
    <3>2. EnumerationDepth[Cur.AR] <= Depth
      <4>1. EnumerationDepth[Cur.AR] \in Nat /\ EnumerationDepth[Cur.AR] < Len(stack)
        BY <1>3, <2>1, <2>4, <3>1 DEF isEnumerating, Known, Recursion, TypeOK, DepthsMirrorStack
      <4> QED  BY <1>2, <1>3, <2>4, <4>1
    <3>3. EnumerationDepth[Cur.AR] \in Int
      BY <1>3, <2>4 DEF Known, Recursion, TypeOK
    <3> QED  BY <3>1, <3>2, <3>3 DEF Waiting, Held, Exhausted
  <2>5. AtCaller' => stack # <<>> /\ Cur' = Cur /\ Depth' = Depth
    BY <2>1 DEF AtCaller, Cur, This, Ctx, Depth
  <2>6. AtCaller' => \E Y \in SUBSET ARs :
            /\ Waiting(Set, Work, EnumerationDepth, Y, EnumerationDepth[Callee.AR], Depth)
            /\ Held(Set, EnumerationDepth, Y, EnumerationDepth[Callee.AR], Depth, Cur)
    BY <2>4, <2>5
  <2> QED  BY <1>2, <2>1, <2>2, <2>3, <2>5, <2>6 DEF Waits
<1>5. CASE EnterRun
  <2> DEFINE new == [AR |-> Callee.AR, LTD |-> CalleeLTD, Pos |-> 1, Retry |-> NoAR]
  <2>1. /\ stack' = Append(stack, new)
        /\ EnumerationDepth' = [EnumerationDepth EXCEPT ![Callee.AR] = Len(stack)]
        /\ pc' = "run" /\ Work' = Work /\ ~isEnumerating(Callee.AR)
    BY <1>5 DEF EnterRun, Goto
  <2>2. stack \in Seq(Contexts)
    BY DEF Known, Recursion, TypeOK
  <2>3. Len(stack') = n + 1 /\ (\A k \in 1 .. n : stack'[k] = stack[k]) /\ stack'[n + 1].Retry = NoAR
    BY <1>2, <2>1, <2>2, LenProperties
  <2>4. Callee.AR \in ARs
    BY <1>1, CalleeType DEF Known
  <2>5. \A a \in ARs : EnumerationDepth[a] >= 0 => EnumerationDepth'[a] = EnumerationDepth[a]
    BY <2>1, <2>4 DEF isEnumerating, Known, Recursion, TypeOK
  <2>6. ~AtCaller'
    BY <2>1 DEF AtCaller
  <2>7. ASSUME NEW k \in 1 .. n + 1, stack'[k].Retry # NoAR
        PROVE  \E Y \in SUBSET ARs : PassedFor(k, Y)'
    <3>1. k \in 1 .. Len(stack) /\ stack'[k] = stack[k]
      BY <1>2, <2>3, <2>7
    <3>2. PICK Y \in SUBSET ARs : PassedFor(k, Y)
      BY <2>7, <3>1 DEF Waits
    <3>3. \A a \in ARs : EnumerationDepth[a] \in 0 .. k - 1 => EnumerationDepth'[a] = EnumerationDepth[a]
      BY <2>5
    <3>4. PassedFor(k, Y)'
      BY <1>1, <2>1, <2>6, <2>7, <3>1, <3>2, <3>3, PassedStays DEF Known
    <3> QED  BY <3>4
  <2> QED  BY <2>3, <2>6, <2>7 DEF Waits
<1>6. CASE EnterCached
  <2>1. /\ UNCHANGED <<Set, EnumerationDepth, stack>> /\ pc' = "return" /\ result'.type = "NEXT_VALUE"
        /\ Advance(stack) /\ Callee.i < Len(Set[Callee.AR])
    BY <1>1, <1>6 DEF EnterCached, Return, IsCached, NextValue
  <2>2. CASE stack = <<>>
    BY <1>2, <2>1, <2>2 DEF Waits, AtCaller
  <2>3. CASE stack # <<>>
    <3>1. This' = This /\ Last(stack) = stack[n] /\ Running(n) = Cur /\ n \in 1 .. Len(stack)
      BY <1>2, <1>3, <2>1, <2>3 DEF This, Ctx, Last, Running, Cur
    <3>2. /\ \A a \in ARs \ {This} : Work'[a] = Work[a]
          /\ \A p \in 1 .. Len(Work[This]) : p # stack[n].Pos => Work'[This][p] = Work[This][p]
      BY <1>1, <1>3, <2>1, <2>3, <3>1, AdvanceItems DEF Known
    <3>3. Cur.i # Len(Set[Cur.AR])
      <4>1. Callee.AR = Cur.AR /\ Callee.i = Cur.i
        BY <2>3 DEF Callee
      <4>2. Len(Set[Cur.AR]) \in Nat /\ Cur.i \in Nat
        BY <1>1, <2>3, CurItem, LenOfSet DEF Known
      <4> QED  BY <2>1, <4>1, <4>2
    <3>4. ASSUME NEW k \in 1 .. n, stack'[k].Retry # NoAR
          PROVE  \E Y \in SUBSET ARs : PassedFor(k, Y)'
      <4>1. k \in 1 .. Len(stack) /\ stack'[k] = stack[k]
        BY <1>2, <2>1
      <4>2. PICK Y \in SUBSET ARs : PassedFor(k, Y)
        BY <2>1, <3>4, <4>1 DEF Waits
      <4>3. This \notin Y
        BY <1>3, <2>3, <3>3, <4>2 DEF PassedFor, Waiting, Held
      <4>4. \A p \in 1 .. stack[k].Pos - 1 : Work'[stack[k].AR][p] = Work[stack[k].AR][p]
        <5>1. CASE k = n
          <6>1. \A p \in 1 .. stack[n].Pos - 1 : p \in 1 .. Len(Work[This]) /\ p # stack[n].Pos
            BY <1>1, <1>3, <2>3, <3>1, PassedItems DEF Known
          <6> QED  BY <1>3, <2>3, <3>2, <5>1, <6>1
        <5>2. CASE k # n
          <6>1. k \in 1 .. n - 1
            BY <5>2
          <6> QED  BY <1>3, <2>3, <3>2, <6>1
        <5> QED  BY <5>1, <5>2
      <4>5. \A a \in Y : Work'[a] = Work[a]
        BY <3>2, <4>3
      <4>6. PassedFor(k, Y)'
        BY <1>1, <2>1, <3>1, <3>4, <4>1, <4>2, <4>3, <4>4, <4>5, PassedStays DEF Known
      <4> QED  BY <4>6
    <3> QED  BY <1>2, <2>1, <3>4 DEF Waits
  <2> QED  BY <2>2, <2>3
<1> QED  BY <1>4, <1>5, <1>6

LEMMA LeaveWaits ==
    ASSUME Known, Positions, Waits, RunInline \/ EndComplete \/ EndCancelRetry \/ EndRetry
    PROVE  Waits'
<1>1. stack # <<>> /\ SuspendedKept /\ cursor'.AR = cursor.AR
  BY LeaveKept DEF Known
<1>2. /\ pc = "run" /\ pc' = "return" /\ stack' = Front(stack) /\ Set' = Set
      /\ EnumerationDepth' = [EnumerationDepth EXCEPT ![This] = -1]
      /\ result'.type # "NEXT_VALUE"
      /\ result'.type = "RETRY" => EndRetry /\ result'.AR = Ctx.Retry
  BY DEF RunInline, EndComplete, EndCancelRetry, EndRetry, Leave, Return, Inline, Complete, Retry
<1>3. PICK n \in Nat : /\ n >= 1
                       /\ Len(stack) = n
                       /\ Len(stack') = n - 1
                       /\ stack' = <<>> <=> n = 1
                       /\ \A k \in 1 .. n - 1 : stack'[k] = stack[k]
                       /\ Depth' = n - 2
                       /\ Callee'.AR = This
  BY <1>1, <1>2, AfterLeave DEF Routing, Known
<1>4. /\ Ctx = stack[n] /\ This = Ctx.AR /\ This \in ARs /\ Work[This] \in Seq(Works)
      /\ EnumerationDepth[This] = n - 1 /\ n \in 1 .. Len(stack)
      /\ \A k \in 1 .. n - 1 : stack[k].AR \in ARs /\ stack[k].AR # This
  BY <1>1, <1>3, TopFrame DEF Known
<1>5. /\ \A a \in ARs : EnumerationDepth[a] \in Int
      /\ \A a \in ARs \ {This} : EnumerationDepth'[a] = EnumerationDepth[a]
      /\ EnumerationDepth'[This] = -1
  BY <1>2, <1>4 DEF Known, Recursion, TypeOK
<1>6. /\ \A a \in ARs \ {This} : Work'[a] = Work[a]
      /\ \A a \in ARs : ToSet(Work'[a]) \subseteq ToSet(Work[a])
      /\ EndRetry => Work' = Work
  <2>1. CASE EndCancelRetry
    <3>1. Work'[This] = <<>> /\ \A a \in ARs \ {This} : Work'[a] = Work[a]
      BY <1>4, <2>1, SetWorkItems DEF EndCancelRetry, Known
    <3>2. ToSet(<<>>) = {}
      BY DEF ToSet
    <3>3. ~EndRetry
      BY <2>1 DEF EndRetry, EndCancelRetry
    <3> QED  BY <3>1, <3>2, <3>3
  <2>2. CASE ~EndCancelRetry
    <3>1. Work' = Work
      BY <2>2 DEF RunInline, EndComplete, EndRetry
    <3> QED  BY <3>1
  <2> QED  BY <2>1, <2>2
<1>7. ASSUME NEW k \in 1 .. n - 1, stack'[k].Retry # NoAR
      PROVE  \E Y \in SUBSET ARs : PassedFor(k, Y)'
  <2>1. stack[k].Retry # NoAR /\ stack'[k] = stack[k] /\ k \in 1 .. Len(stack)
    BY <1>3, <1>7
  <2>2. PICK Y \in SUBSET ARs : PassedFor(k, Y)
    BY <2>1 DEF Waits
  <2>3. \A a \in ARs : EnumerationDepth[a] \in 0 .. k - 1 => EnumerationDepth'[a] = EnumerationDepth[a]
    <3>1. ~(n - 1 <= k - 1)
      OBVIOUS
    <3> QED  BY <1>4, <1>5, <3>1
  <2>4. \A p \in 1 .. stack[k].Pos - 1 : Work'[stack[k].AR][p] = Work[stack[k].AR][p]
    BY <1>4, <1>6
  <2>5. PassedFor(k, Y)'
    BY <1>2, <1>6, <2>1, <2>2, <2>3, <2>4, PassedStays DEF Known
  <2> QED  BY <2>5
<1>8. ASSUME AtCaller'
      PROVE  /\ n - 1 \in 1 .. n - 1 /\ Cur' = Running(n - 1) /\ Cur'.AR = This
             /\ Exhausted(Running(n - 1)) /\ Running(n - 1).AR = This
  <2>1. stack' # <<>> /\ n - 1 \in 1 .. n - 1 /\ n - 1 \in 1 .. Len(stack) - 1
    BY <1>3, <1>8 DEF AtCaller
  <2>2. Cur' = Work'[stack[n - 1].AR][stack[n - 1].Pos] /\ Callee'.AR = Cur'.AR
    BY <1>3, <2>1 DEF Cur, This, Ctx, Callee
  <2>3. Cur' = Running(n - 1)
    BY <1>4, <1>6, <2>1, <2>2 DEF Running
  <2> QED  BY <1>3, <2>1, <2>2, <2>3 DEF Positions, CallersWait
<1>9. ASSUME AtCaller', result'.type = "RETRY"
      PROVE  \E Y \in SUBSET ARs :
                /\ Waiting(Set', Work', EnumerationDepth', Y, EnumerationDepth'[result'.AR], Depth')
                /\ Held(Set', EnumerationDepth', Y, EnumerationDepth'[result'.AR], Depth', Cur')
  <2> DEFINE lo == EnumerationDepth[Ctx.Retry]
  <2>1. EndRetry /\ result'.AR = Ctx.Retry /\ AtEnd /\ Ctx.Retry # NoAR /\ Ctx.Retry # This /\ Work' = Work
    BY <1>2, <1>6, <1>9 DEF EndRetry
  <2>2. Ctx.Retry \in ARs /\ lo \in Nat
    BY <1>4, <2>1, RetryDepth DEF Known
  <2>3. EnumerationDepth'[result'.AR] = lo
    BY <1>5, <2>1, <2>2
  <2>4. PICK Y \in SUBSET ARs : PassedFor(n, Y)
    BY <1>4, <2>1 DEF Waits
  <2>5. /\ Waiting(Set, Work, EnumerationDepth, Y, lo, n - 1)
        /\ \A p \in 1 .. Ctx.Pos - 1 : Held(Set, EnumerationDepth, Y, lo, n - 1, Work[This][p])
    BY <1>4, <2>4 DEF PassedFor
  <2> HIDE DEF lo
  <2>6. ASSUME NEW w, w.AR \in ARs, Held(Set, EnumerationDepth, Y, lo, n - 1, w)
        PROVE  Held(Set, EnumerationDepth', Y \cup {This}, lo, n - 2, w)
    <3>1. CASE w.AR = This
      BY <2>6, <3>1 DEF Held
    <3>2. CASE w.AR # This
      <4>1. EnumerationDepth[w.AR] # n - 1
        <5>1. EnumerationDepth[w.AR] # -1 => stack[EnumerationDepth[w.AR] + 1].AR = w.AR
          BY <2>6 DEF Known, Recursion, DepthsMirrorStack
        <5>2. n - 1 # -1 /\ (n - 1) + 1 = n
          BY <1>3
        <5>3. EnumerationDepth[w.AR] = n - 1 => stack[n].AR = w.AR
          BY <5>1, <5>2
        <5> QED  BY <1>4, <3>2, <5>3
      <4>2. EnumerationDepth'[w.AR] = EnumerationDepth[w.AR] /\ EnumerationDepth[w.AR] \in Int
        BY <1>5, <2>6, <3>2
      <4> QED  BY <2>2, <2>6, <4>1, <4>2 DEF Held
    <3> QED  BY <3>1, <3>2
  <2>7. ASSUME NEW w \in ToSet(Work[This])
        PROVE  Held(Set, EnumerationDepth, Y, lo, n - 1, w)
    <3>1. PICK m \in Nat : Len(Work[This]) = m
      BY <1>4, ItemsOf
    <3>2. PICK p \in 1 .. m : Work[This][p] = w
      BY <1>4, <3>1, ItemsOf
    <3>3. p \in 1 .. Ctx.Pos - 1
      <4>1. Ctx \in Contexts
        BY <1>1, TopFrame DEF Known
      <4>2. Ctx.Pos \in Nat
        BY <4>1 DEF Contexts
      <4> QED  BY <2>1, <3>1, <3>2, <4>2 DEF AtEnd
    <3> QED  BY <2>5, <3>2, <3>3
  <2>8. Waiting(Set, Work, EnumerationDepth', Y \cup {This}, lo, n - 2)
    <3> SUFFICES ASSUME NEW a \in Y \cup {This}, NEW w \in ToSet(Work[a])
                 PROVE  Held(Set, EnumerationDepth', Y \cup {This}, lo, n - 2, w)
      BY DEF Waiting
    <3>1. Held(Set, EnumerationDepth, Y, lo, n - 1, w)
      <4>1. a = This => Held(Set, EnumerationDepth, Y, lo, n - 1, w)
        BY <2>7
      <4>2. a \in Y => Held(Set, EnumerationDepth, Y, lo, n - 1, w)
        BY <2>5 DEF Waiting
      <4> QED  BY <4>1, <4>2
    <3>2. a \in ARs
      BY <1>4
    <3>3. w.AR \in ARs
      BY <3>2, ItemType DEF Known
    <3> QED  BY <2>6, <3>1, <3>3
  <2>9. Held(Set, EnumerationDepth', Y \cup {This}, lo, n - 2, Cur')
    BY <1>8, <1>9 DEF Held, Exhausted
  <2>10. Y \cup {This} \in SUBSET ARs
    BY <1>4
  <2> QED  BY <1>2, <1>3, <2>1, <2>3, <2>8, <2>9, <2>10
<1> QED  BY <1>3, <1>5, <1>7, <1>8, <1>9 DEF Waits

LEMMA AddNewValueWaits ==
    ASSUME Known, Positions, Waits, AddNewValue
    PROVE  Waits'
<1>1. PICK n \in Nat :
           /\ n >= 1 /\ Len(stack) = n /\ Len(stack') = n - 1
           /\ \A k \in 1 .. n - 1 : stack'[k] = stack[k] /\ stack[k].AR # This /\ stack[k].AR \in ARs
           /\ This \in ARs /\ stack # <<>>
           /\ pc' = "return" /\ result' = result /\ result.type = "NEXT_VALUE"
           /\ AtCaller
           /\ \A a \in ARs \ {This} : Set'[a] = Set[a]
           /\ n # 1 =>
                LET b == stack[n - 1].AR
                    r == Running(n - 1)
                    u == Next1(r)
                IN  /\ b \in ARs /\ b # This /\ r \in ToSet(Work[b]) /\ r.AR = This
                    /\ \A a \in ARs \ {b} : Work'[a] = Work[a]
                    /\ This' = b
                    /\ \A p \in 1 .. Len(Work[b]) : p # stack[n - 1].Pos => Work'[b][p] = Work[b][p]
  BY AddedValue
<1>2. /\ EnumerationDepth[This] = n - 1 /\ pc = "return"
      /\ EnumerationDepth' = [EnumerationDepth EXCEPT ![This] = -1]
  <2>1. EnumerationDepth[This] = n - 1
    BY <1>1, TopFrame DEF Known
  <2> QED  BY <2>1 DEF AddNewValue, Leave, Returned
<1>3. ASSUME NEW k \in 1 .. n - 1, stack'[k].Retry # NoAR
      PROVE  \E Y \in SUBSET ARs : PassedFor(k, Y)'
  <2> DEFINE b == stack[n - 1].AR
             r == Running(n - 1)
             lo == EnumerationDepth[stack[k].Retry]
  <2>1. /\ n # 1 /\ k \in 1 .. Len(stack) /\ stack[k].Retry # NoAR /\ stack'[k] = stack[k]
        /\ b \in ARs /\ r \in ToSet(Work[b]) /\ r.AR = This
        /\ \A a \in ARs \ {b} : Work'[a] = Work[a]
        /\ This' = b
        /\ \A p \in 1 .. Len(Work[b]) : p # stack[n - 1].Pos => Work'[b][p] = Work[b][p]
    BY <1>1, <1>3
  <2>2. PICK Y \in SUBSET ARs : PassedFor(k, Y)
    BY <2>1 DEF Waits
  <2>3. This \notin Y
    BY <1>1, <2>2 DEF PassedFor
  <2>4. ~(n - 1 <= k - 1)
    OBVIOUS
  <2>5. b \notin Y
    <3>1. b \in Y => Held(Set, EnumerationDepth, Y, lo, k - 1, r)
      BY <2>1, <2>2 DEF PassedFor, Waiting
    <3> QED  BY <1>2, <2>1, <2>3, <2>4, <3>1 DEF Held
  <2> HIDE DEF b, r, lo
  <2>6. \A a \in ARs : EnumerationDepth[a] \in 0 .. k - 1 => a # This /\ EnumerationDepth'[a] = EnumerationDepth[a]
    <3>1. EnumerationDepth \in [ARs -> Nat \cup {-1}]
      BY DEF Known, Recursion, TypeOK
    <3> QED  BY <1>1, <1>2, <2>4, <3>1
  <2>7. \A p \in 1 .. stack[k].Pos - 1 : Work'[stack[k].AR][p] = Work[stack[k].AR][p]
    <3> SUFFICES ASSUME NEW p \in 1 .. stack[k].Pos - 1
                 PROVE  Work'[stack[k].AR][p] = Work[stack[k].AR][p]
      OBVIOUS
    <3>1. CASE stack[k].AR # b
      BY <1>1, <2>1, <3>1
    <3>2. CASE stack[k].AR = b
      <4>1. p \in 1 .. Len(Work[b]) /\ stack[k].Pos \in Nat
        BY <1>2, <2>1, <3>2, PassedItems DEF Known
      <4>2. k = n - 1
        <5>1. EnumerationDepth[stack[k].AR] = k - 1 /\ EnumerationDepth[b] = (n - 1) - 1
          BY <1>1, <2>1 DEF b, Known, Recursion, DepthsMirrorStack
        <5> QED  BY <1>1, <3>2, <5>1
      <4>3. p # stack[n - 1].Pos
        BY <4>1, <4>2
      <4> QED  BY <2>1, <3>2, <4>1, <4>3
    <3> QED  BY <3>1, <3>2
  <2>8. \A a \in Y : Work'[a] = Work[a]
    BY <2>1, <2>5
  <2>9. \A a \in ARs : a \in Y \/ EnumerationDepth[a] \in 0 .. k - 1 => Set'[a] = Set[a]
    BY <1>1, <2>3, <2>6
  <2>10. PassedFor(k, Y)'
    BY <1>2, <2>1, <2>2, <2>5, <2>6, <2>7, <2>8, <2>9, PassedStays DEF Known
  <2> QED  BY <2>10
<1> QED  BY <1>1, <1>3 DEF Waits

LEMMA SkipRetriedWaits ==
    ASSUME Known, Waits, SkipRetried
    PROVE  Waits'
<1>1. /\ stack # <<>> /\ AtCaller /\ result.type = "RETRY" /\ pc = "return" /\ pc' = "run"
      /\ UNCHANGED <<Set, Work, EnumerationDepth>>
  BY DEF SkipRetried, Returned, AtCaller, Goto
<1>2. PICK n \in Nat : /\ n >= 1 /\ Len(stack) = n /\ Ctx = stack[n] /\ This = Ctx.AR /\ Ctx \in Contexts
                       /\ Depth = n - 1 /\ n \in 1 .. Len(stack)
  BY <1>1, TopFrame DEF Known
<1> DEFINE new == CancellationPoint(Ctx.Retry, result.AR)
           c == [Ctx EXCEPT !.Pos = @ + 1, !.Retry = CancellationPoint(@, result.AR)]
<1>3. stack' = [stack EXCEPT ![n] = c] /\ c.AR = This /\ c.Pos = Ctx.Pos + 1 /\ c.Retry = new
  BY <1>2 DEF SkipRetried, Ctx, Contexts
<1>4. Len(stack') = n /\ stack'[n] = c /\ \A k \in 1 .. n - 1 : stack'[k] = stack[k]
  BY <1>2, <1>3, LenProperties DEF Known, Recursion, TypeOK
<1>5. ~AtCaller'
  BY <1>1 DEF AtCaller
<1>6. ASSUME NEW k \in 1 .. n - 1, stack'[k].Retry # NoAR
      PROVE  \E Y \in SUBSET ARs : PassedFor(k, Y)'
  <2>1. stack[k].Retry # NoAR /\ stack'[k] = stack[k] /\ k \in 1 .. Len(stack)
    BY <1>2, <1>4, <1>6
  <2>2. PICK Y \in SUBSET ARs : PassedFor(k, Y)
    BY <2>1 DEF Waits
  <2>3. PassedFor(k, Y)'
    BY <1>1, <1>5, <2>1, <2>2, PassedStays DEF Known
  <2> QED  BY <2>3
<1>7. \E Y \in SUBSET ARs : PassedFor(n, Y)'
  <2>1. PICK Z \in SUBSET ARs :
            /\ Waiting(Set, Work, EnumerationDepth, Z, EnumerationDepth[result.AR], n - 1)
            /\ Held(Set, EnumerationDepth, Z, EnumerationDepth[result.AR], n - 1, Cur)
    BY <1>1, <1>2 DEF Waits
  <2>2. result.AR \in ARs /\ EnumerationDepth[result.AR] \in Nat
    BY <1>1, TargetDepth DEF Known
  <2>3. Ctx.Pos \in Nat /\ Cur = Work[This][Ctx.Pos]
    BY <1>2 DEF Contexts, Cur
  <2>4. Cur.AR \in ARs /\ \A a \in ARs : EnumerationDepth[a] \in Int
    BY <1>1, CurItem DEF Known, Recursion, TypeOK
  <2>5. CASE Ctx.Retry = NoAR
    <3>1. new = result.AR
      BY <2>5 DEF CancellationPoint
    <3>2. Ctx.Pos = 1
      BY <1>1, <1>2, <2>5 DEF Known, Routing, RetriedPassed
    <3>3. \A p \in 1 .. c.Pos - 1 : p = Ctx.Pos
      BY <1>3, <3>2
    <3>4. PassedFor(n, Z)'
      BY <1>1, <1>3, <1>4, <1>5, <2>1, <2>3, <3>1, <3>3 DEF PassedFor
    <3> QED  BY <3>4
  <2>6. CASE Ctx.Retry # NoAR
    <3>1. PICK Y \in SUBSET ARs : PassedFor(n, Y)
      BY <1>2, <2>6 DEF Waits
    <3> DEFINE lo == EnumerationDepth[Ctx.Retry]
               hi == EnumerationDepth[result.AR]
               l  == EnumerationDepth[new]
    <3>2. Ctx.Retry \in ARs /\ lo \in Nat
      BY <1>2, <2>6, RetryDepth DEF Known
    <3>3. l \in Nat /\ l <= lo /\ l <= hi /\ hi \in Nat
      BY <2>2, <2>6, <3>2 DEF CancellationPoint
    <3>4. /\ Waiting(Set, Work, EnumerationDepth, Y, lo, n - 1)
          /\ \A p \in 1 .. Ctx.Pos - 1 : Held(Set, EnumerationDepth, Y, lo, n - 1, Work[This][p])
      BY <1>2, <3>1 DEF PassedFor
    <3> HIDE DEF lo, l, new, c
    <3>5. ASSUME NEW w, w.AR \in ARs,
                 \/ Held(Set, EnumerationDepth, Y, lo, n - 1, w)
                 \/ Held(Set, EnumerationDepth, Z, hi, n - 1, w)
          PROVE  Held(Set, EnumerationDepth, Y \cup Z, l, n - 1, w)
      <4>1. Y \subseteq Y \cup Z /\ Z \subseteq Y \cup Z /\ n - 1 \in Int /\ EnumerationDepth[w.AR] \in Int
        BY <2>4, <3>5
      <4> HIDE DEF hi
      <4> QED  BY <3>2, <3>3, <3>5, <4>1, HeldByMore
    <3>6. Waiting(Set, Work, EnumerationDepth, Y \cup Z, l, n - 1)
      <4> SUFFICES ASSUME NEW a \in Y \cup Z, NEW w \in ToSet(Work[a])
                   PROVE  Held(Set, EnumerationDepth, Y \cup Z, l, n - 1, w)
        BY DEF Waiting
      <4>1. \/ Held(Set, EnumerationDepth, Y, lo, n - 1, w)
            \/ Held(Set, EnumerationDepth, Z, hi, n - 1, w)
        BY <2>1, <3>4 DEF Waiting
      <4>2. w.AR \in ARs
        BY ItemType DEF Known
      <4> QED  BY <3>5, <4>1, <4>2
    <3>7. ASSUME NEW p \in 1 .. c.Pos - 1
          PROVE  Held(Set, EnumerationDepth, Y \cup Z, l, n - 1, Work[This][p])
      <4>1. CASE p = Ctx.Pos
        BY <2>1, <2>3, <2>4, <3>5, <4>1
      <4>2. CASE p # Ctx.Pos
        <5>1. p \in 1 .. Ctx.Pos - 1
          BY <1>3, <2>3, <4>2
        <5>2. Work[This][p].AR \in ARs
          <6>1. /\ stack[n].AR \in ARs
                /\ Work[stack[n].AR][p] \in ToSet(Work[stack[n].AR])
            BY <1>1, <1>2, <5>1, PassedItems DEF Known
          <6> QED  BY <1>2, <6>1, ItemType DEF Known
        <5> QED  BY <3>4, <3>5, <5>1, <5>2
      <4> QED  BY <4>1, <4>2
    <3>8. PassedFor(n, Y \cup Z)'
      BY <1>1, <1>3, <1>4, <1>5, <3>6, <3>7 DEF PassedFor, l
    <3> QED  BY <3>8
  <2> QED  BY <2>5, <2>6
<1>8. ASSUME NEW k \in 1 .. n, stack'[k].Retry # NoAR
      PROVE  \E Y \in SUBSET ARs : PassedFor(k, Y)'
  <2>1. k = n \/ k \in 1 .. n - 1
    OBVIOUS
  <2> QED  BY <1>6, <1>7, <1>8, <2>1
<1> QED  BY <1>4, <1>5, <1>8 DEF Waits

LEMMA InitWaits ==
    ASSUME Init
    PROVE  Waits
<1>1. stack = <<>> /\ Len(stack) = 0
  BY EmptySeq DEF Init, StartsFrom
<1> QED  BY <1>1 DEF Waits, AtCaller

LEMMA NextWaits ==
    ASSUME Known, Ordered, Positions, Waits, [Next]_vars
    PROVE  Waits'
<1>1. ~EnterRewrite /\ pc # "rewrite" /\ ~(pc = "return" /\ result.type = "REWRITE")
  BY NoEnterRewrite DEF Ordered, NothingRewritten
<1>2. CASE Enter
  BY <1>1, <1>2, EnterWaits DEF Enter
<1>3. CASE Run
  BY <1>3, HandleWaits, LeaveWaits DEF Run
<1>4. CASE Handle
  <2>1. ~(RewriteHere \/ RewriteBegin \/ RewriteKeep \/ RewriteDrop \/ RewriteSplice)
    BY <1>1 DEF RewriteHere, RewriteBegin, RewriteKeep, RewriteDrop, RewriteSplice, Returned
  <2> QED  BY <1>4, <2>1, HandleWaits, AddNewValueWaits, SkipRetriedWaits DEF Handle
<1>5. CASE Answer \/ \E a \in ARs : \E i \in 0 .. Len(Set[a]) : Query(a, i)
  <2>1. stack' = <<>>
    BY <1>5 DEF Answer, Query, Known, Recursion, ControlOK
  <2>2. Len(stack') = 0
    BY <2>1, EmptySeq
  <2> QED  BY <2>1, <2>2 DEF Waits, AtCaller
<1>6. CASE UNCHANGED vars
  <2>1. UNCHANGED <<Set, Work, EnumerationDepth, stack, result, pc>>
    BY <1>6 DEF vars
  <2>2. This' = This /\ Cur' = Cur /\ (AtCaller <=> AtCaller') /\ Depth' = Depth
    BY <2>1 DEF Cur, This, Ctx, AtCaller, Depth
  <2>3. \A k, Y : PassedFor(k, Y) => PassedFor(k, Y)'
    BY <2>1, <2>2 DEF PassedFor
  <2>4. \A k \in 1 .. Len(stack') : stack'[k].Retry # NoAR => \E Y \in SUBSET ARs : PassedFor(k, Y)'
    BY <2>1, <2>3 DEF Waits
  <2> QED  BY <2>1, <2>2, <2>4 DEF Waits
<1> QED  BY <1>2, <1>3, <1>4, <1>5, <1>6 DEF Next, Step

-----------------------------------------------------------------------------
(* What is left to do determines the solution: any sets that have what was *)
(* found and that the work left asks nothing more of hold the whole        *)
(* solution.                                                               *)

Families == [ARs -> SUBSET VIs]

(* A transform asks nothing for the values that it was applied to. *)
Asks(res, st, S, a, w) ==
    IF IsSubset(w)
    THEN S[w.AR] \subseteq S[a]
    ELSE \A v \in S[w.AR] \ Taken(st, w) :
            res[w.alg][v] # NoAR => S[res[w.alg][v]] \subseteq S[a]

Meets(res, st, ws, S) ==
    \A a \in ARs : ToSet(st[a]) \subseteq S[a] /\ \A w \in ws[a] : Asks(res, st, S, a, w)

IsLeast(res, st, ws, T) ==
    /\ T \in Families /\ Meets(res, st, ws, T)
    /\ \A S \in Families : Meets(res, st, ws, S) => \A a \in ARs : T[a] \subseteq S[a]

AllResults == [Algs -> [VIs -> ARs \cup {NoAR}]]

LEMMA WorkType ==
    ASSUME NEW w \in Works
    PROVE  /\ w.AR \in ARs /\ w.i \in Nat /\ (IsSubset(w) <=> ~IsTransform(w))
           /\ ~IsSubset(w) => w.alg \in Algs
BY DEF Works, SubsetWorks, TransformWorks, IsSubset, IsTransform

LEMMA LeastMeets ==
    ASSUME NEW res \in AllResults, NEW st, NEW ws,
           \A a \in ARs : ToSet(st[a]) \subseteq VIs, \A a \in ARs : ws[a] \subseteq Works
    PROVE  \E T : IsLeast(res, st, ws, T)
<1> DEFINE T == [a \in ARs |-> {v \in VIs : \A S \in Families : Meets(res, st, ws, S) => v \in S[a]}]
<1>1. T \in Families
  BY DEF Families
<1>2. \A S \in Families : Meets(res, st, ws, S) => \A a \in ARs : T[a] \subseteq S[a]
  OBVIOUS
<1>3. ASSUME NEW a \in ARs
      PROVE  ToSet(st[a]) \subseteq T[a]
  BY DEF Meets
<1>4. ASSUME NEW a \in ARs, NEW w \in ws[a]
      PROVE  Asks(res, st, T, a, w)
  <2>1. w \in Works
    OBVIOUS
  <2>2. CASE IsSubset(w)
    <3>1. \A S \in Families : Meets(res, st, ws, S) => S[w.AR] \subseteq S[a]
      BY <1>4, <2>2 DEF Meets, Asks
    <3>2. T[w.AR] \subseteq T[a]
      BY <2>1, <3>1, WorkType
    <3> HIDE DEF T
    <3> QED  BY <2>2, <3>2 DEF Asks
  <2>3. CASE ~IsSubset(w)
    <3> SUFFICES ASSUME NEW v \in T[w.AR] \ Taken(st, w), res[w.alg][v] # NoAR
                 PROVE  T[res[w.alg][v]] \subseteq T[a]
      <4> HIDE DEF T
      <4> QED  BY <2>3 DEF Asks
    <3>1. v \in VIs /\ res[w.alg][v] \in ARs /\ w.AR \in ARs
      BY <2>1, <2>3, WorkType DEF AllResults
    <3>2. \A S \in Families : Meets(res, st, ws, S) => v \in S[w.AR] \ Taken(st, w)
      BY <1>2, <3>1
    <3>3. \A S \in Families : Meets(res, st, ws, S) => S[res[w.alg][v]] \subseteq S[a]
      <4> HIDE DEF T
      <4> QED  BY <1>4, <2>3, <3>2 DEF Meets, Asks
    <3> QED  BY <3>1, <3>3
  <2> QED  BY <2>2, <2>3
<1> HIDE DEF T
<1>5. Meets(res, st, ws, T)
  BY <1>3, <1>4 DEF Meets
<1> QED  BY <1>1, <1>2, <1>5 DEF IsLeast

(* What some ARs can do with, the least sets do not exceed. *)
LEMMA Cut ==
    ASSUME NEW res \in AllResults, NEW st, NEW ws, \A a \in ARs : ws[a] \subseteq Works,
           NEW T, IsLeast(res, st, ws, T),
           NEW D \in Families, \A a \in ARs : ToSet(st[a]) \subseteq D[a] /\ D[a] \subseteq T[a],
           \A a \in ARs : D[a] = T[a] \/ \A w \in ws[a] : Asks(res, st, D, a, w)
    PROVE  \A a \in ARs : T[a] = D[a]
<1>1. ASSUME NEW a \in ARs, NEW w \in ws[a]
      PROVE  Asks(res, st, D, a, w)
  <2>1. CASE D[a] = T[a]
    <3>1. w \in Works /\ Asks(res, st, T, a, w)
      BY DEF IsLeast, Meets
    <3>2. CASE IsSubset(w)
      BY <2>1, <3>1, <3>2, WorkType DEF Asks
    <3>3. CASE ~IsSubset(w)
      <4> SUFFICES ASSUME NEW v \in D[w.AR] \ Taken(st, w), res[w.alg][v] # NoAR
                   PROVE  D[res[w.alg][v]] \subseteq D[a]
        BY <3>3 DEF Asks
      <4>1. v \in T[w.AR] \ Taken(st, w) /\ v \in VIs /\ w.alg \in Algs
        BY <3>1, <3>3, WorkType DEF Families
      <4>2. res[w.alg][v] \in ARs
        BY <4>1 DEF AllResults
      <4>3. T[res[w.alg][v]] \subseteq T[a]
        BY <3>1, <3>3, <4>1 DEF Asks
      <4> QED  BY <2>1, <4>2, <4>3
    <3> QED  BY <3>2, <3>3
  <2> QED  BY <2>1
<1>2. Meets(res, st, ws, D)
  BY <1>1 DEF Meets
<1> QED  BY <1>2 DEF IsLeast

LEMMA Exact ==
    ASSUME NEW res \in AllResults, NEW st, NEW ws, \A a \in ARs : ws[a] \subseteq Works,
           NEW T, IsLeast(res, st, ws, T),
           NEW x \in ARs, \A w \in ws[x] : IsSubset(w)
    PROVE  T[x] = ToSet(st[x]) \cup UNION {T[w.AR] : w \in ws[x]}
<1> DEFINE E == ToSet(st[x]) \cup UNION {T[w.AR] : w \in ws[x]}
           D == [T EXCEPT ![x] = E]
<1>1. T \in Families /\ \A a \in ARs : ToSet(st[a]) \subseteq T[a]
  BY DEF IsLeast, Meets
<1>2. ASSUME NEW w \in ws[x]
      PROVE  T[w.AR] \subseteq T[x] /\ T[w.AR] \subseteq E /\ w.AR \in ARs
  <2>1. w \in Works /\ IsSubset(w)
    OBVIOUS
  <2>2. T[w.AR] \subseteq T[x]
    BY <2>1 DEF IsLeast, Meets, Asks
  <2> QED  BY <2>1, <2>2, WorkType
<1>3. E \subseteq T[x]
  BY <1>1, <1>2
<1>4. ToSet(st[x]) \subseteq E
  OBVIOUS
<1> HIDE DEF E
<1>5. D \in Families /\ D[x] = E /\ \A a \in ARs \ {x} : D[a] = T[a]
  BY <1>1, <1>3 DEF Families
<1> HIDE DEF D
<1>6. ASSUME NEW w \in ws[x]
      PROVE  Asks(res, st, D, x, w)
  <2>1. D[w.AR] \subseteq D[x]
    BY <1>2, <1>5, <1>6
  <2>2. IsSubset(w)
    OBVIOUS
  <2> QED  BY <2>1, <2>2 DEF Asks
<1>7. \A a \in ARs : ToSet(st[a]) \subseteq D[a] /\ D[a] \subseteq T[a]
  BY <1>1, <1>3, <1>4, <1>5
<1>8. \A a \in ARs : D[a] = T[a] \/ \A w \in ws[a] : Asks(res, st, D, a, w)
  BY <1>5, <1>6
<1>9. \A a \in ARs : T[a] = D[a]
  BY <1>5, <1>7, <1>8, Cut
<1> QED  BY <1>5, <1>9 DEF E

(* An AR without work, and one with a subset as its only work. *)
LEMMA ExactOne ==
    ASSUME NEW res \in AllResults, NEW st, NEW ws, \A a \in ARs : ws[a] \subseteq Works,
           NEW T, IsLeast(res, st, ws, T), NEW x \in ARs
    PROVE  /\ ws[x] = {} => T[x] = ToSet(st[x])
           /\ \A w : ws[x] = {w} /\ IsSubset(w) => T[x] = ToSet(st[x]) \cup T[w.AR]
<1>1. (\A w \in ws[x] : IsSubset(w)) => T[x] = ToSet(st[x]) \cup UNION {T[w.AR] : w \in ws[x]}
  BY Exact
<1>2. ASSUME ws[x] = {}
      PROVE  T[x] = ToSet(st[x])
  BY <1>1, <1>2
<1>3. ASSUME NEW w, ws[x] = {w}, IsSubset(w)
      PROVE  T[x] = ToSet(st[x]) \cup T[w.AR]
  <2>1. UNION {T[u.AR] : u \in {w}} = T[w.AR]
    OBVIOUS
  <2> QED  BY <1>1, <1>3, <2>1
<1> QED  BY <1>2, <1>3

(* The AR that an algorithm has for the value that is handed to a          *)
(* transform is asked for like a subset.                                   *)
Pending(a) == IF AtCaller /\ result.type = "NEXT_VALUE" /\ IsTransform(Cur) /\ a = This /\ Analyzed # NoAR
              THEN {SubsetWork(Analyzed)} ELSE {}

Todo == [a \in ARs |-> ToSet(Work[a]) \cup Pending(a)]

NothingLost ==
    \A S \in Families : Meets(sys.results, Set, Todo, S) => \A a \in ARs : Whole[a] \subseteq S[a]

LEMMA TodoType ==
    Recursion =>
        /\ sys.results \in AllResults
        /\ \A a \in ARs : /\ ToSet(Set[a]) \subseteq VIs /\ Todo[a] \subseteq Works
                          /\ ToSet(Work[a]) \subseteq Todo[a]
        /\ ~(AtCaller /\ result.type = "NEXT_VALUE" /\ IsTransform(Cur)) =>
               \A a \in ARs : Todo[a] = ToSet(Work[a])
<1> SUFFICES ASSUME Recursion
             PROVE  /\ sys.results \in AllResults
                    /\ \A a \in ARs : /\ ToSet(Set[a]) \subseteq VIs /\ Todo[a] \subseteq Works
                                      /\ ToSet(Work[a]) \subseteq Todo[a]
                    /\ ~(AtCaller /\ result.type = "NEXT_VALUE" /\ IsTransform(Cur)) =>
                           \A a \in ARs : Todo[a] = ToSet(Work[a])
  OBVIOUS
<1>1. sys.results \in AllResults
  BY DEF Recursion, TypeOK, EquationSystems, AllResults
<1>2. \A a \in ARs : Pending(a) \subseteq Works
  <2> SUFFICES ASSUME AtCaller, result.type = "NEXT_VALUE", IsTransform(Cur), Analyzed # NoAR
               PROVE  SubsetWork(Analyzed) \in Works
    BY DEF Pending
  <2> QED  BY TransformedType DEF AtCaller, Returned
<1>3. \A a \in ARs : ToSet(Set[a]) \subseteq VIs /\ ToSet(Work[a]) \subseteq Works
  BY SetItems, ItemType
<1> QED  BY <1>1, <1>2, <1>3 DEF Todo, Pending

LEMMA TodoAfter ==
    Recursion' =>
        /\ sys'.results \in AllResults
        /\ \A a \in ARs : /\ ToSet(Set'[a]) \subseteq VIs /\ Todo'[a] \subseteq Works
                          /\ ToSet(Work'[a]) \subseteq Todo'[a]
        /\ ~(AtCaller' /\ result'.type = "NEXT_VALUE" /\ IsTransform(Cur')) =>
               \A a \in ARs : Todo'[a] = ToSet(Work'[a])
<1>1. (Recursion =>
        /\ sys.results \in AllResults
        /\ \A a \in ARs : /\ ToSet(Set[a]) \subseteq VIs /\ Todo[a] \subseteq Works
                          /\ ToSet(Work[a]) \subseteq Todo[a]
        /\ ~(AtCaller /\ result.type = "NEXT_VALUE" /\ IsTransform(Cur)) =>
               \A a \in ARs : Todo[a] = ToSet(Work[a]))'
  BY TodoType, PTL
<1> QED  BY <1>1

LEMMA SoundMeets ==
    Known => Whole \in Families /\ Meets(sys.results, Set, Todo, Whole)
<1> SUFFICES ASSUME Known
             PROVE  Whole \in Families /\ Meets(sys.results, Set, Todo, Whole)
  OBVIOUS
<1>1. /\ Whole \in Families /\ Sound(Whole)
      /\ \A a \in ARs : ToSet(Set[a]) \subseteq Whole[a] /\ Work[a] \in Seq(SoundWorks(Whole, a))
  BY KnownWhole DEF Known, Families, Sound, SetsSound, WorksSound
<1> HIDE DEF Whole
<1>2. ASSUME NEW a \in ARs, NEW w \in ToSet(Work[a])
      PROVE  Asks(sys.results, Set, Whole, a, w) /\ Satisfies(sys.results, Whole, a, w)
  <2>1. w \in SoundWorks(Whole, a)
    BY <1>1, ItemsOf
  <2> QED  BY <2>1 DEF SoundWorks, Satisfies, Asks
<1>3. ASSUME NEW a \in ARs, NEW w \in Pending(a)
      PROVE  Asks(sys.results, Set, Whole, a, w)
  <2>1. /\ AtCaller /\ result.type = "NEXT_VALUE" /\ IsTransform(Cur) /\ a = This /\ Analyzed # NoAR
        /\ w = SubsetWork(Analyzed)
    BY <1>3 DEF Pending
  <2>2. Cur \in ToSet(Work[This]) /\ ~IsSubset(Cur) /\ Callee.AR = Cur.AR
    BY <2>1, CurItem DEF Known, AtCaller, Callee
  <2>3. result.VI \in Whole[Cur.AR]
    BY <1>1, <2>1, <2>2 DEF Sound, ResultSound, AtCaller
  <2>4. Satisfies(sys.results, Whole, This, Cur)
    BY <1>2, <2>1, <2>2
  <2>5. Whole[Analyzed] \subseteq Whole[This]
    BY <2>1, <2>2, <2>3, <2>4 DEF Satisfies, Analyzed
  <2> QED  BY <2>1, <2>5 DEF Asks, SubsetWork, IsSubset
<1> QED  BY <1>1, <1>2, <1>3 DEF Meets, Todo

LEMMA CompleteByLeast ==
    ASSUME Known, Known', sys' = sys, NothingLost,
           \A a \in ARs : ToSet(Set[a]) \subseteq ToSet(Set'[a]),
           \A T : IsLeast(sys.results, Set', Todo', T) /\ (\A a \in ARs : T[a] \subseteq Whole[a])
                      => \A a \in ARs : \A w \in Todo[a] : Asks(sys.results, Set, T, a, w)
    PROVE  NothingLost'
<1>1. Whole' = Whole
  BY DEF Whole
<1>2. Recursion'
  BY DEF Known
<1>3. (Known => Whole \in Families /\ Meets(sys.results, Set, Todo, Whole))'
  BY SoundMeets, PTL
<1>4. PICK T : IsLeast(sys.results, Set', Todo', T)
  BY <1>2, LeastMeets, TodoAfter
<1>5. T \in Families /\ \A a \in ARs : T[a] \subseteq Whole[a]
  BY <1>1, <1>3, <1>4 DEF IsLeast
<1>6. \A a \in ARs : Whole[a] \subseteq T[a]
  <2>1. \A a \in ARs : ToSet(Set'[a]) \subseteq T[a]
    BY <1>4 DEF IsLeast, Meets
  <2>2. Meets(sys.results, Set, Todo, T)
    BY <1>4, <1>5, <2>1 DEF Meets
  <2> QED  BY <1>5, <2>2 DEF NothingLost
<1>7. \A S \in Families : Meets(sys.results, Set', Todo', S) => \A a \in ARs : T[a] \subseteq S[a]
  BY <1>4 DEF IsLeast
<1> QED  BY <1>1, <1>6, <1>7 DEF NothingLost

(* An AR without work has all its values. *)
LEMMA DoneAreWhole ==
    Known /\ NothingLost => \A a \in ARs : Work[a] = <<>> => ToSet(Set[a]) = Whole[a]
<1> SUFFICES ASSUME Known, NothingLost, NEW a \in ARs, Work[a] = <<>>
             PROVE  ToSet(Set[a]) = Whole[a]
  OBVIOUS
<1> DEFINE S == [Whole EXCEPT ![a] = ToSet(Set[a])]
<1>1. /\ Whole \in Families /\ Meets(sys.results, Set, Todo, Whole)
      /\ ToSet(Set[a]) \subseteq Whole[a]
  BY SoundMeets DEF Meets
<1>2. S \in Families /\ S[a] = ToSet(Set[a]) /\ \A b \in ARs \ {a} : S[b] = Whole[b]
  BY <1>1 DEF Families
<1>3. \A b \in ARs : S[b] \subseteq Whole[b]
  BY <1>1, <1>2
<1> HIDE DEF S
<1>4. Todo[a] = {}
  <2>1. ToSet(Work[a]) = {}
    BY DEF ToSet
  <2>2. Pending(a) = {}
    <3>1. AtCaller => Cur \in ToSet(Work[This])
      BY CurItem DEF AtCaller, Known
    <3> QED  BY <2>1, <3>1 DEF Pending
  <2> QED  BY <2>1, <2>2 DEF Todo
<1>5. sys.results \in AllResults /\ \A b \in ARs : Todo[b] \subseteq Works
  BY TodoType DEF Known
<1>6. ASSUME NEW b \in ARs \ {a}, NEW w \in Todo[b]
      PROVE  Asks(sys.results, Set, S, b, w)
  <2>1. Asks(sys.results, Set, Whole, b, w) /\ w \in Works
    BY <1>1, <1>5 DEF Meets
  <2>2. CASE IsSubset(w)
    BY <1>2, <1>3, <2>1, <2>2, WorkType DEF Asks
  <2>3. CASE ~IsSubset(w)
    <3> SUFFICES ASSUME NEW v \in S[w.AR] \ Taken(Set, w), sys.results[w.alg][v] # NoAR
                 PROVE  S[sys.results[w.alg][v]] \subseteq S[b]
      BY <2>3 DEF Asks
    <3>1. w.AR \in ARs /\ w.alg \in Algs
      BY <2>1, <2>3, WorkType
    <3>2. v \in Whole[w.AR] \ Taken(Set, w) /\ v \in VIs
      BY <1>2, <1>3, <3>1 DEF Families
    <3>3. sys.results[w.alg][v] \in ARs
      BY <1>5, <3>1, <3>2 DEF AllResults
    <3>4. Whole[sys.results[w.alg][v]] \subseteq Whole[b]
      BY <2>1, <2>3, <3>2 DEF Asks
    <3> QED  BY <1>2, <1>3, <3>3, <3>4
  <2> QED  BY <2>2, <2>3
<1>7. Meets(sys.results, Set, Todo, S)
  <2>1. \A b \in ARs : ToSet(Set[b]) \subseteq S[b]
    BY <1>1, <1>2 DEF Meets
  <2>2. \A b \in ARs : \A w \in Todo[b] : Asks(sys.results, Set, S, b, w)
    BY <1>4, <1>6
  <2> QED  BY <2>1, <2>2 DEF Meets
<1>8. Whole[a] \subseteq S[a]
  BY <1>2, <1>7 DEF NothingLost
<1> QED  BY <1>1, <1>2, <1>8

LEMMA NextKnown ==
    ASSUME Known, [Next]_vars
    PROVE  Known' /\ sys' = sys
<1>1. sys' = sys
  BY DEF Next, Step, Enter, EnterRewrite, EnterCached, EnterRetry, EnterRun,
         Run, RunInline, RunRecurse, EndComplete, EndCancelRetry, EndRetry,
         Handle, AddNewValue, SkipKnownValue, TransformToNothing, TransformToSubset,
         InlineSubset, DropInlined, SkipRetried, EraseCompleted,
         RewriteHere, RewriteBegin, RewriteKeep, RewriteDrop, RewriteSplice, Answer, Query, vars
<1>2. Recursion' /\ Routing' /\ EverySound' /\ InRange'
  BY NextRecursion, NextRouting, NextSound, NextInRange DEF Known
<1> QED  BY <1>1, <1>2 DEF Known

LEMMA OneItem ==
    ASSUME NEW T, NEW s \in Seq(T), Len(s) = 1
    PROVE  ToSet(s) = {s[1]}
<1>1. \A k \in 1 .. Len(s) : k = 1
  OBVIOUS
<1>2. 1 \in 1 .. Len(s)
  OBVIOUS
<1> QED  BY <1>1, <1>2, ItemsOf

(* The least sets that meet what is left to do when no value is handed on. *)
LEMMA LeastAfter ==
    ASSUME Known', sys' = sys, ~(pc' = "return" /\ result'.type = "NEXT_VALUE"),
           NEW T, IsLeast(sys.results, Set', Todo', T)
    PROVE  /\ \A a \in ARs : ToSet(Set'[a]) \subseteq T[a]
           /\ \A a \in ARs : \A w \in ToSet(Work'[a]) : Asks(sys.results, Set', T, a, w)
           /\ \A a \in ARs : Work'[a] = <<>> => T[a] = ToSet(Set'[a])
           /\ \A a \in ARs : Len(Work'[a]) = 1 /\ IsSubset(Work'[a][1]) =>
                  T[a] = ToSet(Set'[a]) \cup T[Work'[a][1].AR]
<1>1. Recursion'
  BY DEF Known
<1>2. /\ sys.results \in AllResults
      /\ \A a \in ARs : Todo'[a] \subseteq Works /\ Todo'[a] = ToSet(Work'[a])
      /\ \A a \in ARs : Work'[a] \in Seq(Works)
  BY <1>1, TodoAfter DEF AtCaller, Recursion, TypeOK
<1>3. /\ \A a \in ARs : ToSet(Set'[a]) \subseteq T[a]
      /\ \A a \in ARs : \A w \in ToSet(Work'[a]) : Asks(sys.results, Set', T, a, w)
  BY <1>2 DEF IsLeast, Meets
<1>4. ASSUME NEW a \in ARs
      PROVE  /\ Todo'[a] = {} => T[a] = ToSet(Set'[a])
             /\ \A w : Todo'[a] = {w} /\ IsSubset(w) => T[a] = ToSet(Set'[a]) \cup T[w.AR]
  BY <1>2, ExactOne
<1>5. ASSUME NEW a \in ARs, Work'[a] = <<>>
      PROVE  T[a] = ToSet(Set'[a])
  <2>1. ToSet(Work'[a]) = {}
    BY <1>5 DEF ToSet
  <2> QED  BY <1>2, <1>4, <2>1
<1>6. ASSUME NEW a \in ARs, Len(Work'[a]) = 1, IsSubset(Work'[a][1])
      PROVE  T[a] = ToSet(Set'[a]) \cup T[Work'[a][1].AR]
  <2>1. ToSet(Work'[a]) = {Work'[a][1]}
    BY <1>2, <1>6, OneItem
  <2> QED  BY <1>2, <1>4, <1>6, <2>1
<1> QED  BY <1>3, <1>5, <1>6

(* Steps that leave the lists alone, and hand on nothing to a transform. *)
LEMMA SameLost ==
    ASSUME Known, Known', sys' = sys, NothingLost, Work' = Work,
           \A a \in ARs : ToSet(Set[a]) \subseteq ToSet(Set'[a]),
           \A w : w.AR \in ARs /\ w.i \in Nat /\ w.i <= Len(Set[w.AR]) => Taken(Set', w) = Taken(Set, w),
           ~(AtCaller /\ result.type = "NEXT_VALUE" /\ IsTransform(Cur) /\ Analyzed # NoAR)
    PROVE  NothingLost'
<1>1. Recursion'
  BY DEF Known
<1>2. \A a \in ARs : Todo[a] = ToSet(Work[a]) /\ ToSet(Work'[a]) \subseteq Todo'[a]
  BY <1>1, TodoAfter, TodoType DEF Known, Todo, Pending
<1>3. ASSUME NEW T, IsLeast(sys.results, Set', Todo', T), NEW a \in ARs, NEW w \in Todo[a]
      PROVE  Asks(sys.results, Set, T, a, w)
  <2>1. w \in ToSet(Work[a]) /\ w \in Todo'[a]
    BY <1>2
  <2>2. Asks(sys.results, Set', T, a, w)
    BY <1>3, <2>1 DEF IsLeast, Meets
  <2>3. Taken(Set', w) = Taken(Set, w)
    BY <2>1, ItemType, ItemInRange DEF Known
  <2> QED  BY <2>2, <2>3 DEF Asks
<1> QED  BY <1>3, CompleteByLeast

(* An Enumerator is advanced past a value, which is handed to its work. *)
LEMMA AdvancedLost ==
    ASSUME Known, Known', sys' = sys, NothingLost,
           \A a \in ARs : ToSet(Set[a]) \subseteq ToSet(Set'[a]),
           \A a \in ARs : Todo[a] = ToSet(Work[a]),
           \A w : w.AR \in ARs /\ w.i \in Nat /\ w.i <= Len(Set[w.AR]) => Taken(Set', w) = Taken(Set, w),
           NEW b \in ARs, NEW r \in ToSet(Work[b]), NEW u, NEW v,
           \A a \in ARs \ {b} : Work'[a] = Work[a],
           ToSet(Work[b]) \subseteq ToSet(Work'[b]) \cup {r}, u \in ToSet(Work'[b]),
           u.AR = r.AR, u.alg = r.alg, IsSubset(u) <=> IsSubset(r), IsTransform(u) <=> IsTransform(r),
           Taken(Set', u) = Taken(Set, r) \cup {v},
           AtCaller', result'.type = "NEXT_VALUE", result'.VI = v, Cur' = u, This' = b
    PROVE  NothingLost'
<1>1. Recursion'
  BY DEF Known
<1>2. ASSUME NEW T, IsLeast(sys.results, Set', Todo', T), NEW a \in ARs, NEW w \in Todo[a]
      PROVE  Asks(sys.results, Set, T, a, w)
  <2>1. w \in ToSet(Work[a])
    OBVIOUS
  <2>2. Taken(Set', w) = Taken(Set, w)
    BY <2>1, ItemType, ItemInRange DEF Known
  <2>3. CASE w \in ToSet(Work'[a])
    <3>1. w \in Todo'[a]
      BY <1>1, <2>3, TodoAfter
    <3>2. Asks(sys.results, Set', T, a, w)
      BY <1>2, <3>1 DEF IsLeast, Meets
    <3> QED  BY <2>2, <3>2 DEF Asks
  <2>4. CASE w \notin ToSet(Work'[a])
    <3>1. a = b /\ w = r
      BY <2>1, <2>4
    <3>2. u \in Todo'[b]
      BY <1>1, TodoAfter
    <3>3. Asks(sys.results, Set', T, b, u)
      BY <1>2, <3>2 DEF IsLeast, Meets
    <3>4. CASE IsSubset(r)
      BY <3>1, <3>3, <3>4 DEF Asks
    <3>5. CASE ~IsSubset(r)
      <4>1. IsTransform(u)
        BY <3>5, ItemType DEF Known
      <4>2. sys.results[r.alg][v] # NoAR => SubsetWork(sys.results[r.alg][v]) \in Todo'[b]
        BY <4>1 DEF Todo, Pending, Analyzed
      <4>3. sys.results[r.alg][v] # NoAR => T[sys.results[r.alg][v]] \subseteq T[b]
        <5>1. SubsetWork(sys.results[r.alg][v]) \in Todo'[b] =>
                  Asks(sys.results, Set', T, b, SubsetWork(sys.results[r.alg][v]))
          BY <1>2 DEF IsLeast, Meets
        <5> QED  BY <4>2, <5>1 DEF Asks, SubsetWork, IsSubset
      <4>4. \A x \in T[r.AR] \ Taken(Set, r) : x = v \/ x \in T[u.AR] \ Taken(Set', u)
        OBVIOUS
      <4>5. ~IsSubset(u)
        BY <3>5
      <4> QED  BY <3>1, <3>3, <3>5, <4>3, <4>4, <4>5 DEF Asks
    <3> QED  BY <3>4, <3>5
  <2> QED  BY <2>3, <2>4
<1> QED  BY <1>2, CompleteByLeast

-----------------------------------------------------------------------------
(* A subset that an AR was once given need not be pushed again: whatever   *)
(* the work left in it and below the subset can do with contains what the  *)
(* subset contributes.                                                     *)

Fits(e, st, wk, S, a, s) ==
    /\ \A x \in ARs : ToSet(st[x]) \subseteq S[x] /\ S[x] \subseteq LeastSolution(e)[x]
    /\ \A x \in Lower(e, s) \cup {s} : Len(wk[x]) = 1 /\ IsSubset(wk[x][1]) =>
           S[x] = ToSet(st[x]) \cup S[wk[x][1].AR]
    /\ \A w \in ToSet(wk[a]) : IsSubset(w) /\ w.AR \in Lower(e, s) \cup {s} => S[w.AR] \subseteq S[a]

Covered ==
    \A a \in ARs : Work[a] # <<>> =>
        \A s \in Subsets[a] : \A S \in Families : Fits(sys, Set, Work, S, a, s) => S[s] \subseteq S[a]

LEMMA LeastLeft ==
    ASSUME Known, NothingLost,
           ~(AtCaller /\ result.type = "NEXT_VALUE" /\ IsTransform(Cur)), NEW a \in ARs, NEW w \in Todo[a]
    PROVE  w \in ToSet(Work[a])
BY TodoType DEF Known

LEMMA TransformToNothingLost ==
    ASSUME Known, Known', sys' = sys, NothingLost, Covered, TransformToNothing
    PROVE  NothingLost'
<1>1. /\ pc' = "call" /\ UNCHANGED <<Set, Work>> /\ stack # <<>> /\ pc = "return"
      /\ Analyzed # NoAR => Analyzed = This \/ Analyzed \in Subsets[This]
  BY DEF TransformToNothing, Goto, Returned, prepareForSubset
<1>2. CASE Analyzed = NoAR
  BY <1>1, <1>2, SameLost
<1>3. CASE Analyzed # NoAR
  <2> SUFFICES ASSUME NEW T, IsLeast(sys.results, Set', Todo', T),
                      \A a \in ARs : T[a] \subseteq Whole[a],
                      NEW a \in ARs, NEW w \in Todo[a]
               PROVE  Asks(sys.results, Set, T, a, w)
    BY <1>1, CompleteByLeast
  <2>1. /\ \A b \in ARs : ToSet(Set[b]) \subseteq T[b]
        /\ \A b \in ARs : \A u \in ToSet(Work[b]) : Asks(sys.results, Set, T, b, u)
        /\ \A b \in ARs : Len(Work[b]) = 1 /\ IsSubset(Work[b][1]) =>
               T[b] = ToSet(Set[b]) \cup T[Work[b][1].AR]
    BY <1>1, LeastAfter
  <2>2. CASE w \in ToSet(Work[a])
    BY <2>1, <2>2
  <2>3. CASE w \notin ToSet(Work[a])
    <3>1. a = This /\ w = SubsetWork(Analyzed)
      BY <2>3 DEF Todo, Pending
    <3>2. T[Analyzed] \subseteq T[This]
      <4>1. CASE Analyzed = This
        BY <4>1
      <4>2. CASE Analyzed \in Subsets[This]
        <5>1. \A x \in Lower(sys, Analyzed) \cup {Analyzed} : x \in ARs
          BY <1>3, <3>1, <4>2, LowerType DEF Known, Recursion, TypeOK
        <5>2. Fits(sys, Set, Work, T, This, Analyzed)
          BY <2>1, <3>1, <5>1 DEF Fits, Asks, Whole
        <5>3. Work[This] # <<>>
          <6>1. Cur \in ToSet(Work[This])
            BY <1>1, CurItem DEF Known
          <6> QED  BY <6>1 DEF ToSet
        <5>4. T \in Families
          BY DEF IsLeast
        <5> QED  BY <3>1, <4>2, <5>2, <5>3, <5>4 DEF Covered
      <4> QED  BY <1>1, <1>3, <4>1, <4>2
    <3> QED  BY <3>1, <3>2 DEF Asks, SubsetWork, IsSubset
  <2> QED  BY <2>2, <2>3
<1> QED  BY <1>2, <1>3

LEMMA TransformToSubsetLost ==
    ASSUME Known, Known', sys' = sys, NothingLost, TransformToSubset
    PROVE  NothingLost'
<1>1. pc' = "run" /\ Set' = Set
  BY DEF TransformToSubset, Goto
<1>2. /\ \A a \in ARs \ {This} : Work'[a] = Work[a]
      /\ ToSet(Work'[This]) = ToSet(Work[This]) \cup {SubsetWork(Analyzed)}
  BY PushItems DEF Known
<1> SUFFICES ASSUME NEW T, IsLeast(sys.results, Set', Todo', T), NEW a \in ARs, NEW w \in Todo[a]
             PROVE  Asks(sys.results, Set, T, a, w)
  BY <1>1, CompleteByLeast
<1>3. \A b \in ARs : \A u \in ToSet(Work'[b]) : Asks(sys.results, Set, T, b, u)
  BY <1>1, LeastAfter
<1>4. w \in ToSet(Work'[a])
  BY <1>2 DEF Todo, Pending
<1> QED  BY <1>3, <1>4

LEMMA EnterCachedLost ==
    ASSUME Known, Known', sys' = sys, NothingLost, EnterCached
    PROVE  NothingLost'
<1>1. /\ result' = NextValue(Set[Callee.AR][Callee.i + 1]) /\ pc' = "return" /\ stack' = stack
      /\ Advance(stack) /\ pc = "call" /\ Set' = Set
  BY DEF EnterCached, Return
<1>2. PICK n \in Nat : Len(stack) = n /\ (stack = <<>> <=> n = 0)
  BY StackLen DEF Known, Recursion
<1>3. ~AtCaller
  BY <1>1 DEF AtCaller
<1>4. CASE stack = <<>>
  <2>1. Work' = Work
    BY <1>1, <1>4 DEF Advance
  <2> QED  BY <1>1, <1>3, <2>1, SameLost
<1>5. CASE stack # <<>>
  <2> DEFINE r == Running(n)
             u == Next1(r)
             b == stack[n].AR
             v == Set[r.AR][r.i + 1]
  <2>1. n \in 1 .. Len(stack) /\ Last(stack) = stack[n] /\ b = This /\ r = Cur /\ n >= 1
    BY <1>2, <1>5 DEF Last, Running, Cur, This, Ctx
  <2>2. /\ b \in ARs /\ \A a \in ARs \ {b} : Work'[a] = Work[a]
        /\ u \in Works /\ u.AR = r.AR
        /\ u.alg = r.alg
        /\ (IsSubset(u) <=> IsSubset(r)) /\ (IsTransform(u) <=> IsTransform(r))
        /\ u \in ToSet(Work'[b])
        /\ ToSet(Work[b]) \subseteq ToSet(Work'[b]) \cup {r}
        /\ Work'[b][stack[n].Pos] = u
    BY <1>1, <1>5, <2>1, AdvanceItems DEF Known
  <2>3. r \in ToSet(Work[b]) /\ r \in Works
    BY <1>1, <2>1, RunningItem DEF Known
  <2>4. Taken(Set', u) = Taken(Set, r) \cup {v}
    BY <1>1, <2>3, TakenNext
  <2>5. Cur' = u /\ This' = b /\ AtCaller'
    BY <1>1, <1>2, <1>5, <2>2 DEF Cur, This, Ctx, AtCaller
  <2>6. result'.type = "NEXT_VALUE" /\ result'.VI = v
    BY <1>1, <1>5, <2>1 DEF NextValue, Callee
  <2>7. \A a \in ARs : Todo[a] = ToSet(Work[a])
    BY <1>3, TodoType DEF Known
  <2> HIDE DEF r, u, b, v
  <2> QED  BY <1>1, <2>2, <2>3, <2>4, <2>5, <2>6, <2>7, AdvancedLost
<1> QED  BY <1>4, <1>5

LEMMA AddNewValueLost ==
    ASSUME Known, Known', sys' = sys, Positions, NothingLost, AddNewValue
    PROVE  NothingLost'
<1>1. PICK n \in Nat :
           /\ n >= 1
           /\ This \in ARs /\ result' = result /\ result.type = "NEXT_VALUE"
           /\ AtCaller /\ IsSubset(Cur)
           /\ \A a \in ARs \ {This} : Set'[a] = Set[a]
           /\ ToSet(Set'[This]) = ToSet(Set[This]) \cup {result.VI}
           /\ \A w : w.AR \in ARs /\ w.i \in Nat /\ w.i <= Len(Set[w.AR]) => Taken(Set', w) = Taken(Set, w)
           /\ n = 1 => Work' = Work
           /\ n # 1 =>
                LET b == stack[n - 1].AR
                    r == Running(n - 1)
                    u == Next1(r)
                IN  /\ b \in ARs /\ r \in ToSet(Work[b])
                    /\ \A a \in ARs \ {b} : Work'[a] = Work[a]
                    /\ u.AR = This /\ r.AR = This /\ u.alg = r.alg
                    /\ (IsSubset(u) <=> IsSubset(r)) /\ (IsTransform(u) <=> IsTransform(r))
                    /\ u \in ToSet(Work'[b])
                    /\ ToSet(Work[b]) \subseteq ToSet(Work'[b]) \cup {r}
                    /\ Taken(Set', u) = Taken(Set, r) \cup {result.VI}
                    /\ Cur' = u /\ This' = b /\ AtCaller'
  BY AddedValue
<1>2. \A a \in ARs : ToSet(Set[a]) \subseteq ToSet(Set'[a])
  BY <1>1
<1>3. ~IsTransform(Cur)
  BY <1>1, CurItem DEF Known, AtCaller
<1>4. \A a \in ARs : Todo[a] = ToSet(Work[a])
  BY <1>3, TodoType DEF Known
<1>5. CASE n = 1
  BY <1>1, <1>2, <1>3, <1>5, SameLost
<1>6. CASE n # 1
  <2> DEFINE b == stack[n - 1].AR
             r == Running(n - 1)
             u == Next1(r)
             v == result.VI
  <2>1. /\ b \in ARs /\ r \in ToSet(Work[b])
        /\ \A a \in ARs \ {b} : Work'[a] = Work[a]
        /\ u.AR = r.AR /\ u.alg = r.alg
        /\ (IsSubset(u) <=> IsSubset(r)) /\ (IsTransform(u) <=> IsTransform(r))
        /\ u \in ToSet(Work'[b])
        /\ ToSet(Work[b]) \subseteq ToSet(Work'[b]) \cup {r}
        /\ Taken(Set', u) = Taken(Set, r) \cup {v}
        /\ Cur' = u /\ This' = b /\ AtCaller' /\ result'.type = "NEXT_VALUE" /\ result'.VI = v
    BY <1>1, <1>6
  <2> HIDE DEF r, u, b, v
  <2> QED  BY <1>1, <1>2, <1>4, <2>1, AdvancedLost
<1> QED  BY <1>5, <1>6

(* What the subset that runs has at an INLINE. *)
LEMMA InlineMeans ==
    ASSUME Known, Ordered, Positions, InlineSubset \/ DropInlined
    PROVE  /\ stack # <<>> /\ pc = "return" /\ This \in ARs /\ Cur \in ToSet(Work[This]) /\ IsSubset(Cur)
           /\ Cur.AR \in Lower(sys, This) /\ Cur.AR # This /\ Cur.AR \in ARs
           /\ result.AR \in Lower(sys, Cur.AR) /\ result.AR \in Lower(sys, This)
           /\ ToSet(Set[Cur.AR]) \subseteq ToSet(Set[This])
           /\ Len(Work[Cur.AR]) = 1 /\ IsSubset(Work[Cur.AR][1]) /\ Work[Cur.AR][1].AR = result.AR
<1>1. stack # <<>> /\ pc = "return" /\ IsSubset(Cur) /\ result.type = "INLINE" /\ AtCaller
  BY DEF InlineSubset, DropInlined, Returned, AtCaller
<1>2. This \in ARs /\ Cur \in ToSet(Work[This]) /\ Cur.AR \in ARs
  BY <1>1, CurItem DEF Known
<1>3. Cur.AR \in Lower(sys, This) /\ Callee.AR = Cur.AR
  BY <1>1, CurDown DEF Callee
<1>4. result.AR \in Lower(sys, Cur.AR)
  BY <1>1, <1>3 DEF Ordered, NothingRewritten
<1>5. result.AR \in Lower(sys, This)
  BY <1>3, <1>4, LowerTransitive
<1>6. Cur.AR # This
  <2>1. sys \in EquationSystems /\ NoSubsetCycles(sys)
    BY DEF Known, Recursion, TypeOK
  <2> QED  BY <1>2, <1>3, <2>1, LowerIrreflexive
<1>7. /\ Exhausted(Cur) /\ Len(Work[Cur.AR]) = 1 /\ IsSubset(Work[Cur.AR][1])
      /\ Work[Cur.AR][1].AR = result.AR
  BY <1>1 DEF Positions, ResultMeans
<1>8. ToSet(Set[Cur.AR]) \subseteq ToSet(Set[This])
  <2>1. Taken(Set, Cur) = ToSet(Set[Cur.AR])
    BY <1>2, <1>7, TakenAll DEF Known
  <2>2. Taken(Set, Cur) \subseteq ToSet(Set[This]) \cup Handed(This)
    BY <1>1, <1>2 DEF Positions, Seen
  <2>3. Handed(This) = {}
    BY <1>1 DEF Handed
  <2> QED  BY <2>1, <2>2, <2>3
<1> QED  BY <1>1, <1>2, <1>3, <1>4, <1>5, <1>6, <1>7, <1>8

LEMMA InlineSubsetLost ==
    ASSUME Known, Known', sys' = sys, Ordered, Positions, NothingLost, InlineSubset
    PROVE  NothingLost'
<1>1. pc' = "call" /\ Set' = Set /\ result.type = "INLINE"
  BY DEF InlineSubset, Goto, Returned
<1>2. /\ This \in ARs /\ IsSubset(Cur) /\ Cur.AR # This /\ Cur.AR \in ARs
      /\ ToSet(Set[Cur.AR]) \subseteq ToSet(Set[This])
      /\ Len(Work[Cur.AR]) = 1 /\ IsSubset(Work[Cur.AR][1]) /\ Work[Cur.AR][1].AR = result.AR
  BY InlineMeans
<1>3. /\ \A a \in ARs \ {This} : Work'[a] = Work[a]
      /\ IsSubset(Inlined) /\ Inlined.AR = result.AR /\ Inlined \in ToSet(Work'[This])
      /\ ToSet(Work[This]) \subseteq ToSet(Work'[This]) \cup {Cur}
  BY InlineItems DEF Known
<1> SUFFICES ASSUME NEW T, IsLeast(sys.results, Set', Todo', T), NEW a \in ARs, NEW w \in Todo[a]
             PROVE  Asks(sys.results, Set, T, a, w)
  BY <1>1, CompleteByLeast
<1>4. /\ \A b \in ARs : ToSet(Set[b]) \subseteq T[b]
      /\ \A b \in ARs : \A u \in ToSet(Work'[b]) : Asks(sys.results, Set, T, b, u)
      /\ \A b \in ARs : Len(Work'[b]) = 1 /\ IsSubset(Work'[b][1]) =>
             T[b] = ToSet(Set[b]) \cup T[Work'[b][1].AR]
  BY <1>1, LeastAfter
<1>5. w \in ToSet(Work[a])
  BY <1>1, LeastLeft
<1>6. CASE w \in ToSet(Work'[a])
  BY <1>4, <1>6
<1>7. CASE w \notin ToSet(Work'[a])
  <2>1. a = This /\ w = Cur
    BY <1>3, <1>5, <1>7
  <2>2. T[Cur.AR] = ToSet(Set[Cur.AR]) \cup T[result.AR]
    BY <1>2, <1>3, <1>4
  <2>3. T[result.AR] \subseteq T[This]
    BY <1>2, <1>3, <1>4 DEF Asks
  <2>4. T[Cur.AR] \subseteq T[This]
    BY <1>2, <1>4, <2>2, <2>3
  <2> QED  BY <1>2, <2>1, <2>4 DEF Asks
<1> QED  BY <1>6, <1>7

LEMMA DropInlinedLost ==
    ASSUME Known, Known', sys' = sys, Ordered, Positions, NothingLost, Covered, DropInlined
    PROVE  NothingLost'
<1>1. /\ pc' = "run" /\ Set' = Set /\ result.type = "INLINE" /\ EraseCur
      /\ result.AR = This \/ result.AR \in Subsets[This]
  BY DEF DropInlined, Goto, Returned, prepareForSubset
<1> DEFINE c == Cur.AR
           s == result.AR
<1>2. /\ This \in ARs /\ Cur \in ToSet(Work[This]) /\ IsSubset(Cur) /\ c # This /\ c \in ARs
      /\ s \in Lower(sys, c) /\ s \in Lower(sys, This) /\ stack # <<>> /\ pc = "return"
      /\ ToSet(Set[c]) \subseteq ToSet(Set[This])
      /\ Len(Work[c]) = 1 /\ IsSubset(Work[c][1]) /\ Work[c][1].AR = s
  BY InlineMeans
<1>3. /\ \A a \in ARs \ {This} : Work'[a] = Work[a]
      /\ ToSet(Work[This]) \subseteq ToSet(Work'[This]) \cup {Cur}
  BY <1>1, <1>2, EraseCurItems DEF Known
<1> SUFFICES ASSUME NEW T, IsLeast(sys.results, Set', Todo', T),
                    \A a \in ARs : T[a] \subseteq Whole[a],
                    NEW a \in ARs, NEW w \in Todo[a]
             PROVE  Asks(sys.results, Set, T, a, w)
  BY <1>1, CompleteByLeast
<1>4. /\ \A b \in ARs : ToSet(Set[b]) \subseteq T[b]
      /\ \A b \in ARs : \A u \in ToSet(Work'[b]) : Asks(sys.results, Set, T, b, u)
      /\ \A b \in ARs : Len(Work'[b]) = 1 /\ IsSubset(Work'[b][1]) =>
             T[b] = ToSet(Set[b]) \cup T[Work'[b][1].AR]
  BY <1>1, LeastAfter
<1>5. w \in ToSet(Work[a])
  BY <1>1, LeastLeft
<1>6. CASE w \in ToSet(Work'[a])
  BY <1>4, <1>6
<1>7. CASE w \notin ToSet(Work'[a])
  <2>1. a = This /\ w = Cur
    BY <1>3, <1>5, <1>7
  <2>2. T[c] = ToSet(Set[c]) \cup T[s]
    BY <1>2, <1>3, <1>4
  <2>3. sys \in EquationSystems /\ NoSubsetCycles(sys)
    BY DEF Known, Recursion, TypeOK
  <2>4. This \notin Lower(sys, This) /\ c \notin Lower(sys, c)
    BY <1>2, <2>3, LowerIrreflexive
  <2>5. s \in Subsets[This]
    BY <1>1, <1>2, <2>4
  <2>6. \A x \in Lower(sys, s) \cup {s} : x \in ARs /\ x # This /\ x # c
    <3>1. \A x \in Lower(sys, s) : x \in Lower(sys, This) /\ x \in Lower(sys, c) /\ x \in ARs
      BY <1>2, LowerTransitive, LowerType
    <3>2. s \in ARs
      BY <1>2, LowerType
    <3> QED  BY <1>2, <2>4, <3>1, <3>2
  <2> HIDE DEF c, s
  <2>7. Fits(sys, Set, Work, T, This, s)
    <3>1. \A x \in Lower(sys, s) \cup {s} : Len(Work[x]) = 1 /\ IsSubset(Work[x][1]) =>
             T[x] = ToSet(Set[x]) \cup T[Work[x][1].AR]
      BY <1>3, <1>4, <2>6
    <3>2. ASSUME NEW u \in ToSet(Work[This]), IsSubset(u), u.AR \in Lower(sys, s) \cup {s}
          PROVE  T[u.AR] \subseteq T[This]
      <4>1. u # Cur
        BY <2>6, <3>2 DEF c
      <4>2. u \in ToSet(Work'[This])
        BY <1>3, <4>1
      <4>3. Asks(sys.results, Set, T, This, u)
        BY <1>2, <1>4, <4>2
      <4> QED  BY <3>2, <4>3 DEF Asks
    <3> QED  BY <1>4, <3>1, <3>2 DEF Fits, Whole
  <2>8. Work[This] # <<>>
    BY <1>2 DEF ToSet
  <2>9. T[s] \subseteq T[This]
    <3>1. T \in Families
      BY DEF IsLeast
    <3> QED  BY <1>2, <2>5, <2>7, <2>8, <3>1 DEF Covered
  <2>10. T[c] \subseteq T[This]
    BY <1>2, <1>4, <2>2, <2>9
  <2> QED  BY <1>2, <2>1, <2>10 DEF Asks, c
<1> QED  BY <1>6, <1>7

LEMMA EraseCompletedLost ==
    ASSUME Known, Known', sys' = sys, Positions, NothingLost, EraseCompleted
    PROVE  NothingLost'
<1>1. pc' = "run" /\ Set' = Set /\ result.type = "COMPLETE" /\ EraseCur /\ stack # <<>> /\ pc = "return" /\ AtCaller
  BY DEF EraseCompleted, Goto, Returned, AtCaller
<1>2. This \in ARs /\ Cur \in ToSet(Work[This]) /\ Cur.AR \in ARs
  BY <1>1, CurItem DEF Known
<1>3. Work[Cur.AR] = <<>> /\ Exhausted(Cur)
  BY <1>1 DEF Positions, ResultMeans
<1>4. Cur.AR # This
  BY <1>2, <1>3 DEF ToSet
<1>5. Taken(Set, Cur) = ToSet(Set[Cur.AR])
  BY <1>2, <1>3, TakenAll DEF Known
<1>6. /\ \A a \in ARs \ {This} : Work'[a] = Work[a]
      /\ ToSet(Work[This]) \subseteq ToSet(Work'[This]) \cup {Cur}
  BY <1>1, EraseCurItems DEF Known
<1> SUFFICES ASSUME NEW T, IsLeast(sys.results, Set', Todo', T), NEW a \in ARs, NEW w \in Todo[a]
             PROVE  Asks(sys.results, Set, T, a, w)
  BY <1>1, CompleteByLeast
<1>7. /\ \A b \in ARs : ToSet(Set[b]) \subseteq T[b]
      /\ \A b \in ARs : \A u \in ToSet(Work'[b]) : Asks(sys.results, Set, T, b, u)
      /\ \A b \in ARs : Work'[b] = <<>> => T[b] = ToSet(Set[b])
  BY <1>1, LeastAfter
<1>8. w \in ToSet(Work[a])
  BY <1>1, LeastLeft
<1>9. CASE w \in ToSet(Work'[a])
  BY <1>7, <1>9
<1>10. CASE w \notin ToSet(Work'[a])
  <2>1. a = This /\ w = Cur
    BY <1>6, <1>8, <1>10
  <2>2. T[Cur.AR] = Taken(Set, Cur)
    BY <1>2, <1>3, <1>4, <1>5, <1>6, <1>7
  <2>3. IsSubset(Cur) => Taken(Set, Cur) \subseteq ToSet(Set[This])
    <3>1. Handed(This) = {}
      BY <1>1 DEF Handed
    <3> QED  BY <1>2, <3>1 DEF Positions, Seen
  <2>4. IsSubset(Cur) => T[Cur.AR] \subseteq T[This]
    BY <1>2, <1>7, <2>2, <2>3
  <2> QED  BY <2>1, <2>2, <2>4 DEF Asks
<1> QED  BY <1>9, <1>10

(* Everything that is waited for has been passed as far as it is found. *)
LEMMA EndCancelRetryLost ==
    ASSUME Known, Known', sys' = sys, Positions, Waits, NothingLost, EndCancelRetry
    PROVE  NothingLost'
<1>1. /\ stack # <<>> /\ Set' = Set /\ pc = "run" /\ AtEnd /\ Ctx.Retry = This
      /\ SetWork(<<>>) /\ result'.type = "COMPLETE"
  BY LeaveKept DEF EndCancelRetry, Leave, Return, Complete, Known
<1>2. PICK n \in Nat : /\ n >= 1 /\ Len(stack) = n /\ Ctx = stack[n] /\ This = Ctx.AR /\ This \in ARs
                       /\ EnumerationDepth[This] = n - 1 /\ n \in 1 .. Len(stack) /\ Work[This] \in Seq(Works)
                       /\ Ctx \in Contexts
  BY <1>1, TopFrame DEF Known
<1>3. Work'[This] = <<>> /\ (\A a \in ARs \ {This} : Work'[a] = Work[a]) /\ ToSet(Work'[This]) = {}
  <2>1. Work'[This] = <<>> /\ \A a \in ARs \ {This} : Work'[a] = Work[a]
    BY <1>1, <1>2, SetWorkItems DEF Known
  <2> QED  BY <2>1 DEF ToSet
<1>4. PICK Y \in SUBSET ARs : PassedFor(n, Y)
  <2>1. This # NoAR
    BY <1>2, NullsAssumption
  <2> QED  BY <1>1, <1>2, <2>1 DEF Waits
<1> DEFINE Z == Y \cup {This}
<1>5. ASSUME NEW w, w.AR \in ARs, Held(Set, EnumerationDepth, Y, n - 1, n - 1, w)
      PROVE  w.AR \in Z /\ Exhausted(w)
  <2>1. ASSUME EnumerationDepth[w.AR] = n - 1
        PROVE  w.AR = This
    <3>1. EnumerationDepth[w.AR] # -1 => stack[EnumerationDepth[w.AR] + 1].AR = w.AR
      BY <1>5 DEF Known, Recursion, DepthsMirrorStack
    <3>2. n - 1 # -1 /\ (n - 1) + 1 = n
      BY <1>2
    <3>3. stack[n].AR = w.AR
      BY <2>1, <3>1, <3>2
    <3> QED  BY <1>2, <3>3
  <2>2. EnumerationDepth[w.AR] \in Int
    BY <1>5 DEF Known, Recursion, TypeOK
  <2>3. Exhausted(w)
    BY <1>5 DEF Held, Exhausted
  <2> QED  BY <1>2, <1>5, <2>1, <2>2, <2>3 DEF Held
<1>6. ASSUME NEW a \in Z, NEW w \in ToSet(Work[a])
      PROVE  w.AR \in Z /\ w.AR \in ARs /\ Taken(Set, w) = ToSet(Set[w.AR])
  <2>1. a \in ARs
    BY <1>2
  <2>2. w.AR \in ARs
    BY <2>1, ItemType DEF Known
  <2>3. a \in Y => Held(Set, EnumerationDepth, Y, n - 1, n - 1, w)
    BY <1>1, <1>2, <1>4 DEF PassedFor, Waiting
  <2>4. a = This => Held(Set, EnumerationDepth, Y, n - 1, n - 1, w)
    <3>1. PICK m \in Nat : Len(Work[This]) = m
      BY <1>2, ItemsOf
    <3>2. a = This => \E p \in 1 .. m : Work[This][p] = w
      BY <1>2, <3>1, ItemsOf
    <3>3. \A p \in 1 .. m : p \in 1 .. Ctx.Pos - 1
      <4>1. Ctx.Pos \in Nat
        BY <1>2 DEF Contexts
      <4> QED  BY <1>1, <3>1, <4>1 DEF AtEnd
    <3> QED  BY <1>1, <1>2, <1>4, <3>2, <3>3 DEF PassedFor
  <2>5. w.AR \in Z /\ Exhausted(w)
    BY <1>5, <2>2, <2>3, <2>4
  <2> QED  BY <2>2, <2>5, TakenAll DEF Known
<1>7. ASSUME NEW a \in Z, NEW w \in ToSet(Work[a]), IsSubset(w)
      PROVE  ToSet(Set[w.AR]) \subseteq ToSet(Set[a])
  <2>1. Handed(a) = {}
    BY <1>1 DEF Handed, AtCaller
  <2>2. a \in ARs
    BY <1>2
  <2>3. Taken(Set, w) \subseteq ToSet(Set[a]) \cup Handed(a)
    BY <1>7, <2>2 DEF Positions, Seen
  <2> QED  BY <1>6, <2>1, <2>3
<1> SUFFICES ASSUME NEW T, IsLeast(sys.results, Set', Todo', T), NEW a \in ARs, NEW w \in Todo[a]
             PROVE  Asks(sys.results, Set, T, a, w)
  BY <1>1, CompleteByLeast
<1>8. /\ \A b \in ARs : ToSet(Set[b]) \subseteq T[b]
      /\ \A b \in ARs : \A u \in ToSet(Work'[b]) : Asks(sys.results, Set, T, b, u)
  BY <1>1, LeastAfter
<1>9. w \in ToSet(Work[a])
  BY <1>1, LeastLeft DEF AtCaller
<1> HIDE DEF Z
<1>10. \A x \in Z : T[x] = ToSet(Set[x])
  <2> DEFINE D == [x \in ARs |-> IF x \in Z THEN ToSet(Set[x]) ELSE T[x]]
  <2>1. Z \in SUBSET ARs
    BY <1>2 DEF Z
  <2>2. T \in Families
    BY DEF IsLeast
  <2>3. D \in Families /\ \A x \in ARs : ToSet(Set[x]) \subseteq D[x] /\ D[x] \subseteq T[x]
    BY <1>8, <2>2, TodoType DEF Families, Known
  <2>4. (\A x \in Z : D[x] = ToSet(Set[x])) /\ (\A x \in ARs \ Z : D[x] = T[x])
    BY <2>1
  <2> HIDE DEF D
  <2>5. ASSUME NEW x \in Z, NEW u \in ToSet(Work'[x])
        PROVE  Asks(sys.results, Set, D, x, u)
    <3>1. u \in ToSet(Work[x])
      BY <1>3, <2>1, <2>5
    <3>2. u.AR \in Z /\ Taken(Set, u) = ToSet(Set[u.AR]) /\ D[u.AR] = ToSet(Set[u.AR]) /\ D[x] = ToSet(Set[x])
      BY <1>6, <2>4, <3>1
    <3>3. IsSubset(u) => D[u.AR] \subseteq D[x]
      BY <1>7, <3>1, <3>2
    <3> QED  BY <3>2, <3>3 DEF Asks
  <2>6. Recursion'
    BY DEF Known
  <2>7. sys.results \in AllResults /\ \A b \in ARs : Todo'[b] \subseteq Works /\ Todo'[b] = ToSet(Work'[b])
    BY <1>1, <2>6, TodoAfter
  <2>8. \A x \in ARs : D[x] = T[x] \/ \A u \in Todo'[x] : Asks(sys.results, Set', D, x, u)
    BY <1>1, <2>4, <2>5, <2>7
  <2>9. \A x \in ARs : T[x] = D[x]
    <3>1. \A x \in ARs : ToSet(Set'[x]) \subseteq D[x] /\ D[x] \subseteq T[x]
      BY <1>1, <2>3
    <3>2. D \in Families /\ sys.results \in AllResults
      BY <2>3, <2>7
    <3>3. \A x \in ARs : Todo'[x] \subseteq Works
      BY <2>7
    <3>4. IsLeast(sys.results, Set', Todo', T)
      OBVIOUS
    <3> QED  BY ONLY <2>8, <3>1, <3>2, <3>3, <3>4, Cut
  <2> QED  BY <2>1, <2>4, <2>9
<1>11. CASE a = This
  <2>1. a \in Z
    BY <1>11 DEF Z
  <2>2. T[w.AR] = Taken(Set, w)
    BY <1>6, <1>9, <1>10, <2>1
  <2>3. IsSubset(w) => T[w.AR] \subseteq T[a]
    BY <1>6, <1>7, <1>9, <1>10, <2>1
  <2> QED  BY <2>2, <2>3 DEF Asks
<1>12. CASE a # This
  BY <1>3, <1>8, <1>9, <1>12
<1> QED  BY <1>11, <1>12

LEMMA InitLost ==
    ASSUME Init
    PROVE  NothingLost
<1>1. Set = sys.set /\ Work = sys.work /\ pc = "idle" /\ sys \in Systems
  BY DEF Init, StartsFrom
<1>2. Recursion
  BY InitRecursion
<1>3. \A a \in ARs : Todo[a] = ToSet(Work[a])
  BY <1>1, <1>2, TodoType DEF AtCaller
<1>4. ASSUME NEW S \in Families, Meets(sys.results, Set, Todo, S), NEW a \in ARs, NEW k \in DOMAIN Work[a]
      PROVE  Satisfies(sys.results, S, a, Work[a][k])
  <2> DEFINE w == Work[a][k]
  <2>1. w \in ToSet(Work[a])
    BY DEF ToSet
  <2>2. w.i = 0
    BY <1>1, FreshAssumption
  <2> HIDE DEF w
  <2>3. Taken(Set, w) = {}
    BY <2>2 DEF Taken
  <2>4. Asks(sys.results, Set, S, a, w)
    BY <1>3, <1>4, <2>1 DEF Meets
  <2>5. Satisfies(sys.results, S, a, w)
    BY <2>3, <2>4 DEF Asks, Satisfies
  <2> QED  BY <2>5 DEF w
<1>5. ASSUME NEW S \in Families, Meets(sys.results, Set, Todo, S)
      PROVE  S \in Solutions(sys)
  BY <1>1, <1>4, <1>5 DEF Solutions, IsSolution, Families, Meets
<1>6. sys \in EquationSystems
  BY <1>2 DEF Recursion, TypeOK
<1> QED  BY <1>5, <1>6, LeastSolutionIsSolution DEF NothingLost, Whole

LEMMA NextLost ==
    ASSUME Known, Ordered, Positions, Waits, Covered, NothingLost, [Next]_vars
    PROVE  NothingLost'
<1>1. ~EnterRewrite /\ pc # "rewrite" /\ ~(pc = "return" /\ result.type = "REWRITE")
  BY NoEnterRewrite DEF Ordered, NothingRewritten
<1>2. Known' /\ sys' = sys
  BY NextKnown
<1>3. ASSUME UNCHANGED <<Set, Work>>,
             ~(AtCaller /\ result.type = "NEXT_VALUE" /\ IsTransform(Cur) /\ Analyzed # NoAR)
      PROVE  NothingLost'
  <2>1. \A w : Taken(Set', w) = Taken(Set, w)
    BY <1>3
  <2> QED  BY <1>2, <1>3, <2>1, SameLost
<1>4. CASE Enter
  <2>1. EnterRetry \/ EnterRun => pc = "call" /\ UNCHANGED <<Set, Work>>
    BY DEF EnterRetry, EnterRun
  <2>2. EnterRetry \/ EnterRun => NothingLost'
    BY <1>3, <2>1 DEF AtCaller
  <2> QED  BY <1>1, <1>2, <1>4, <2>2, EnterCachedLost DEF Enter
<1>5. CASE Run
  <2>1. RunInline \/ RunRecurse \/ EndComplete \/ EndRetry => pc = "run" /\ UNCHANGED <<Set, Work>>
    BY DEF RunInline, RunRecurse, EndComplete, EndRetry
  <2>2. RunInline \/ RunRecurse \/ EndComplete \/ EndRetry => NothingLost'
    BY <1>3, <2>1 DEF AtCaller
  <2> QED  BY <1>2, <1>5, <2>2, EndCancelRetryLost DEF Run
<1>6. CASE Handle
  <2>1. ~(RewriteHere \/ RewriteBegin \/ RewriteKeep \/ RewriteDrop \/ RewriteSplice)
    BY <1>1 DEF RewriteHere, RewriteBegin, RewriteKeep, RewriteDrop, RewriteSplice, Returned
  <2>2. SkipRetried => NothingLost'
    BY <1>3 DEF SkipRetried, Returned
  <2>3. ASSUME SkipKnownValue
        PROVE  NothingLost'
    <3>1. stack # <<>> /\ pc = "return" /\ IsSubset(Cur) /\ UNCHANGED <<Set, Work>>
      BY <2>3 DEF SkipKnownValue, Returned
    <3>2. ~IsTransform(Cur)
      BY <3>1, CurItem DEF Known
    <3> QED  BY <1>3, <3>1, <3>2
  <2> QED  BY <1>2, <1>6, <2>1, <2>2, <2>3, AddNewValueLost, TransformToNothingLost, TransformToSubsetLost,
              InlineSubsetLost, DropInlinedLost, EraseCompletedLost DEF Handle
<1>7. CASE Answer \/ \E a \in ARs : \E i \in 0 .. Len(Set[a]) : Query(a, i)
  <2>1. UNCHANGED <<Set, Work>> /\ ~AtCaller
    BY <1>7 DEF Answer, Query, AtCaller
  <2> QED  BY <1>3, <2>1
<1>8. CASE UNCHANGED vars
  <2>1. UNCHANGED <<sys, Set, Work, stack, result, pc>>
    BY <1>8 DEF vars
  <2>2. This' = This /\ Cur' = Cur /\ Analyzed' = Analyzed /\ (AtCaller <=> AtCaller')
    BY <2>1 DEF Cur, This, Ctx, AtCaller, Analyzed
  <2>3. \A a : Pending(a)' = Pending(a)
    BY <2>1, <2>2 DEF Pending
  <2>4. Todo' = Todo
    BY <2>1, <2>3 DEF Todo
  <2> QED  BY <2>1, <2>4 DEF NothingLost, Whole
<1> QED  BY <1>4, <1>5, <1>6, <1>7, <1>8 DEF Next, Step

LEMMA DoneAfter ==
    ASSUME Known', NothingLost', sys' = sys
    PROVE  \A a \in ARs : Work'[a] = <<>> => ToSet(Set'[a]) = Whole[a]
<1>1. (Known /\ NothingLost => \A a \in ARs : Work[a] = <<>> => ToSet(Set[a]) = Whole[a])'
  BY DoneAreWhole, PTL
<1>2. Whole' = Whole
  BY DEF Whole
<1> QED  BY <1>1, <1>2

LEMMA CoveredByFits ==
    ASSUME sys' = sys, Covered, \A a \in ARs : Work'[a] # <<>> => Work[a] # <<>>,
           \A a \in ARs : \A s \in Subsets'[a] : \A S \in Families :
               Work'[a] # <<>> /\ Fits(sys, Set', Work', S, a, s) =>
                   S[s] \subseteq S[a] \/ (s \in Subsets[a] /\ Fits(sys, Set, Work, S, a, s))
    PROVE  Covered'
BY DEF Covered

(* Steps that leave the lists as long as they are, and what they are about. *)
LEMMA SameCovered ==
    ASSUME Recursion, sys' = sys, Subsets' = Subsets, Covered,
           \A a \in ARs : Work'[a] # <<>> => Work[a] # <<>>,
           \A a \in ARs : ToSet(Set[a]) \subseteq ToSet(Set'[a]),
           \A a \in ARs : \A w \in ToSet(Work[a]) : IsSubset(w) =>
               \E u \in ToSet(Work'[a]) : IsSubset(u) /\ u.AR = w.AR,
           \A x \in ARs : Len(Work[x]) = 1 /\ IsSubset(Work[x][1]) =>
               /\ Len(Work'[x]) = 1 /\ IsSubset(Work'[x][1]) /\ Work'[x][1].AR = Work[x][1].AR
               /\ Work[x][1].AR \in ARs
               /\ ToSet(Set'[x]) \subseteq ToSet(Set[x]) \cup ToSet(Set[Work[x][1].AR])
    PROVE  Covered'
<1> SUFFICES ASSUME NEW a \in ARs, NEW s \in Subsets'[a], NEW S \in Families, Fits(sys, Set', Work', S, a, s)
             PROVE  Fits(sys, Set, Work, S, a, s)
  BY CoveredByFits
<1>1. \A x \in ARs : ToSet(Set'[x]) \subseteq S[x] /\ S[x] \subseteq LeastSolution(sys)[x]
  BY DEF Fits
<1>2. ASSUME NEW x \in Lower(sys, s) \cup {s}, x \in ARs, Len(Work[x]) = 1, IsSubset(Work[x][1])
      PROVE  S[x] = ToSet(Set[x]) \cup S[Work[x][1].AR]
  <2>1. S[x] = ToSet(Set'[x]) \cup S[Work[x][1].AR]
    BY <1>2 DEF Fits
  <2>2. ToSet(Set[Work[x][1].AR]) \subseteq S[Work[x][1].AR]
    BY <1>1, <1>2
  <2> QED  BY <1>2, <2>1, <2>2
<1>3. ASSUME NEW w \in ToSet(Work[a]), IsSubset(w), w.AR \in Lower(sys, s) \cup {s}
      PROVE  S[w.AR] \subseteq S[a]
  <2>1. PICK u \in ToSet(Work'[a]) : IsSubset(u) /\ u.AR = w.AR
    BY <1>3
  <2> QED  BY <1>3, <2>1 DEF Fits
<1>4. Lower(sys, s) \cup {s} \subseteq ARs
  BY LowerType DEF Recursion, TypeOK
<1> QED  BY <1>1, <1>2, <1>3, <1>4 DEF Fits

(* The activation and the query change, and the lists and sets do not. *)
LEMMA UnchangedCovered ==
    ASSUME Covered, UNCHANGED <<sys, Set, Work, Subsets>>
    PROVE  Covered'
BY DEF Covered

LEMMA AdvancedCovered ==
    ASSUME Known, Known', sys' = sys, Subsets' = Subsets, Covered,
           \A a \in ARs : ToSet(Set[a]) \subseteq ToSet(Set'[a]),
           \A x \in ARs : Len(Work[x]) = 1 /\ IsSubset(Work[x][1]) =>
               ToSet(Set'[x]) \subseteq ToSet(Set[x]) \cup ToSet(Set[Work[x][1].AR]),
           NEW b \in ARs, NEW p \in 1 .. Len(Work[b]), NEW u, NEW r, r = Work[b][p],
           \A a \in ARs \ {b} : Work'[a] = Work[a],
           Len(Work'[b]) = Len(Work[b]), Work'[b][p] = u,
           u.AR = r.AR, IsSubset(u) <=> IsSubset(r),
           u \in ToSet(Work'[b]), ToSet(Work[b]) \subseteq ToSet(Work'[b]) \cup {r}
    PROVE  Covered'
<1>1. Recursion /\ \A a \in ARs : Work[a] \in Seq(Works) /\ Work'[a] \in Seq(Works)
  BY DEF Known, Recursion, TypeOK
<1>2. \A a \in ARs : Work'[a] # <<>> => Work[a] # <<>>
  <2>1. p \in 1 .. Len(Work[b]) => Work[b] # <<>>
    <3>1. Len(<<>>) = 0
      BY EmptySeq
    <3> QED  BY <3>1
  <2> QED  BY <2>1
<1>3. ASSUME NEW a \in ARs, NEW w \in ToSet(Work[a]), IsSubset(w)
      PROVE  \E x \in ToSet(Work'[a]) : IsSubset(x) /\ x.AR = w.AR
  <2>1. CASE w \in ToSet(Work'[a])
    BY <1>3, <2>1
  <2>2. CASE w \notin ToSet(Work'[a])
    <3>1. a = b /\ w = r
      BY <2>2
    <3> QED  BY <1>3, <3>1
  <2> QED  BY <2>1, <2>2
<1>4. ASSUME NEW x \in ARs, Len(Work[x]) = 1, IsSubset(Work[x][1])
      PROVE  /\ Len(Work'[x]) = 1 /\ IsSubset(Work'[x][1]) /\ Work'[x][1].AR = Work[x][1].AR
             /\ Work[x][1].AR \in ARs
             /\ ToSet(Set'[x]) \subseteq ToSet(Set[x]) \cup ToSet(Set[Work[x][1].AR])
  <2>1. Work[x][1].AR \in ARs
    <3>1. Work[x][1] \in ToSet(Work[x])
      BY <1>1, <1>4, OneItem
    <3> QED  BY <1>1, <3>1, ItemType
  <2>2. x = b => p = 1
    BY <1>4
  <2> QED  BY <1>4, <2>1, <2>2
<1> QED  BY <1>1, <1>2, <1>3, <1>4, SameCovered

LEMMA EnterCachedCovered ==
    ASSUME Known, Known', sys' = sys, Covered, EnterCached
    PROVE  Covered'
<1>1. /\ stack' = stack /\ Advance(stack) /\ pc = "call" /\ Set' = Set /\ Subsets' = Subsets
  BY DEF EnterCached
<1>2. PICK n \in Nat : Len(stack) = n /\ (stack = <<>> <=> n = 0)
  BY StackLen DEF Known, Recursion
<1>3. CASE stack = <<>>
  <2>1. Work' = Work
    BY <1>1, <1>3 DEF Advance
  <2> QED  BY <1>1, <2>1, UnchangedCovered
<1>4. CASE stack # <<>>
  <2> DEFINE r == Running(n)
             u == Next1(r)
             b == stack[n].AR
             p == stack[n].Pos
  <2>1. n \in 1 .. Len(stack) /\ Last(stack) = stack[n]
    BY <1>2, <1>4 DEF Last
  <2>2. /\ b \in ARs /\ \A a \in ARs \ {b} : Work'[a] = Work[a]
        /\ u.AR = r.AR /\ (IsSubset(u) <=> IsSubset(r))
        /\ u \in ToSet(Work'[b])
        /\ ToSet(Work[b]) \subseteq ToSet(Work'[b]) \cup {r}
        /\ Len(Work'[b]) = Len(Work[b]) /\ Work'[b][p] = u
    BY <1>1, <1>4, <2>1, AdvanceItems DEF Known
  <2>3. p \in 1 .. Len(Work[b])
    BY <1>1, <2>1, RunningItem DEF Known
  <2>4. r = Work[b][p]
    BY DEF Running
  <2> HIDE DEF r, u, b, p
  <2>5. \A a \in ARs : ToSet(Set[a]) \subseteq ToSet(Set'[a])
    BY <1>1
  <2>6. \A x \in ARs : Len(Work[x]) = 1 /\ IsSubset(Work[x][1]) =>
            ToSet(Set'[x]) \subseteq ToSet(Set[x]) \cup ToSet(Set[Work[x][1].AR])
    BY <1>1
  <2> QED  BY <1>1, <2>2, <2>3, <2>4, <2>5, <2>6, AdvancedCovered
<1> QED  BY <1>3, <1>4

LEMMA AddNewValueCovered ==
    ASSUME Known, Known', sys' = sys, Positions, Covered, AddNewValue
    PROVE  Covered'
<1>1. PICK n \in Nat :
           /\ n >= 1 /\ Len(stack) = n
           /\ This \in ARs /\ result.type = "NEXT_VALUE" /\ stack # <<>>
           /\ AtCaller /\ Subsets' = Subsets
           /\ \A a \in ARs \ {This} : Set'[a] = Set[a]
           /\ ToSet(Set'[This]) = ToSet(Set[This]) \cup {result.VI}
           /\ n = 1 => Work' = Work
           /\ n # 1 =>
                LET b == stack[n - 1].AR
                    r == Running(n - 1)
                    u == Next1(r)
                IN  /\ b \in ARs
                    /\ \A a \in ARs \ {b} : Work'[a] = Work[a]
                    /\ u.AR = This /\ r.AR = This
                    /\ (IsSubset(u) <=> IsSubset(r))
                    /\ u \in ToSet(Work'[b])
                    /\ ToSet(Work[b]) \subseteq ToSet(Work'[b]) \cup {r}
                    /\ Len(Work'[b]) = Len(Work[b])
                    /\ Work'[b][stack[n - 1].Pos] = u
  BY AddedValue
<1>2. result.VI \in ToSet(Set[Cur.AR]) /\ pc = "return"
  BY <1>1 DEF Positions, ResultMeans, AtCaller
<1>3. \A a \in ARs : ToSet(Set[a]) \subseteq ToSet(Set'[a])
  BY <1>1
<1>4. Recursion /\ \A a \in ARs : Work[a] \in Seq(Works)
  BY DEF Known, Recursion, TypeOK
<1>5. ASSUME NEW x \in ARs, Len(Work[x]) = 1, IsSubset(Work[x][1])
      PROVE  ToSet(Set'[x]) \subseteq ToSet(Set[x]) \cup ToSet(Set[Work[x][1].AR])
  <2>1. CASE x = This
    <3>1. Cur \in ToSet(Work[This])
      BY <1>1, <1>2, <1>4, CurItem
    <3>2. Cur = Work[x][1]
      BY <1>4, <1>5, <2>1, <3>1, OneItem
    <3> QED  BY <1>1, <1>2, <2>1, <3>2
  <2>2. CASE x # This
    BY <1>1, <2>2
  <2> QED  BY <2>1, <2>2
<1>6. CASE n = 1
  <2>1. \A a \in ARs : \A w \in ToSet(Work[a]) : IsSubset(w) =>
               \E u \in ToSet(Work'[a]) : IsSubset(u) /\ u.AR = w.AR
    BY <1>1, <1>6
  <2>2. \A x \in ARs : Len(Work[x]) = 1 /\ IsSubset(Work[x][1]) => Work[x][1].AR \in ARs
    BY <1>4, OneItem, ItemType
  <2>3. \A a \in ARs : Work'[a] # <<>> => Work[a] # <<>>
    BY <1>1, <1>6
  <2>4. \A x \in ARs : Len(Work[x]) = 1 /\ IsSubset(Work[x][1]) =>
               /\ Len(Work'[x]) = 1 /\ IsSubset(Work'[x][1]) /\ Work'[x][1].AR = Work[x][1].AR
               /\ Work[x][1].AR \in ARs
               /\ ToSet(Set'[x]) \subseteq ToSet(Set[x]) \cup ToSet(Set[Work[x][1].AR])
    BY <1>1, <1>5, <1>6, <2>2
  <2>5. Subsets' = Subsets
    BY <1>1
  <2> QED  BY <1>3, <1>4, <2>1, <2>3, <2>4, <2>5, SameCovered
<1>7. CASE n # 1
  <2> DEFINE b == stack[n - 1].AR
             r == Running(n - 1)
             u == Next1(r)
             p == stack[n - 1].Pos
  <2>1. /\ b \in ARs /\ \A a \in ARs \ {b} : Work'[a] = Work[a]
        /\ u.AR = r.AR /\ (IsSubset(u) <=> IsSubset(r))
        /\ u \in ToSet(Work'[b])
        /\ ToSet(Work[b]) \subseteq ToSet(Work'[b]) \cup {r}
        /\ Len(Work'[b]) = Len(Work[b]) /\ Work'[b][p] = u
    BY <1>1, <1>7
  <2>2. p \in 1 .. Len(Work[b])
    <3>1. n - 1 \in 1 .. Len(stack)
      BY <1>1, <1>7
    <3> QED  BY <1>2, <1>4, <3>1, RunningItem
  <2>3. r = Work[b][p]
    BY DEF Running
  <2>4. Subsets' = Subsets
    BY <1>1
  <2> HIDE DEF r, u, b, p
  <2> QED  BY <1>3, <1>5, <2>1, <2>2, <2>3, <2>4, AdvancedCovered
<1> QED  BY <1>6, <1>7

LEMMA InitCovered ==
    ASSUME Init
    PROVE  Covered
<1> SUFFICES ASSUME NEW a \in ARs, NEW s \in Subsets[a], NEW S \in Families, Fits(sys, Set, Work, S, a, s)
             PROVE  S[s] \subseteq S[a]
  BY DEF Covered
<1>1. \E w \in ToSet(Work[a]) : IsSubset(w) /\ w.AR = s
  BY DEF Init, StartsFrom
<1> QED  BY <1>1 DEF Fits

LEMMA TransformToSubsetCovered ==
    ASSUME Known, sys' = sys, Covered, TransformToSubset
    PROVE  Covered'
<1>1. /\ Set' = Set /\ stack # <<>> /\ pc = "return" /\ IsTransform(Cur) /\ NoteSubset(This, Analyzed)
  BY DEF TransformToSubset, Returned
<1>2. /\ This \in ARs /\ Analyzed \in ARs
      /\ \A a \in ARs \ {This} : Work'[a] = Work[a]
      /\ ToSet(Work'[This]) = ToSet(Work[This]) \cup {SubsetWork(Analyzed)}
  BY PushItems DEF Known
<1>3. Cur \in ToSet(Work[This]) /\ ~IsSubset(Cur) /\ Work[This] # <<>>
  <2>1. Cur \in ToSet(Work[This]) /\ ~IsSubset(Cur)
    BY <1>1, CurItem DEF Known
  <2> QED  BY <2>1 DEF ToSet
<1>4. /\ \A a \in ARs \ {This} : Subsets'[a] = Subsets[a]
      /\ Subsets'[This] \subseteq Subsets[This] \cup {Analyzed}
      /\ \A a \in ARs : Work[a] \in Seq(Works)
  BY <1>1, <1>2 DEF NoteSubset, Known, Recursion, TypeOK
<1>5. \A a \in ARs : Work'[a] # <<>> => Work[a] # <<>>
  BY <1>2, <1>3
<1>6. ~(Len(Work[This]) = 1 /\ IsSubset(Work[This][1]))
  <2>1. Len(Work[This]) = 1 => Cur = Work[This][1]
    BY <1>2, <1>3, <1>4, OneItem
  <2> QED  BY <1>3, <2>1
<1> SUFFICES ASSUME NEW a \in ARs, NEW s \in Subsets'[a], NEW S \in Families, Fits(sys, Set, Work', S, a, s),
                    ~(S[s] \subseteq S[a])
             PROVE  s \in Subsets[a] /\ Fits(sys, Set, Work, S, a, s)
  BY <1>1, <1>5, CoveredByFits
<1>7. s \in Subsets[a]
  <2>1. a = This /\ s = Analyzed => S[s] \subseteq S[a]
    <3>1. IsSubset(SubsetWork(Analyzed)) /\ SubsetWork(Analyzed).AR = Analyzed
      BY DEF SubsetWork, IsSubset
    <3> QED  BY <1>2, <3>1 DEF Fits
  <2> QED  BY <1>4, <2>1
<1>8. \A x \in Lower(sys, s) \cup {s} : x \in ARs
  BY <1>7, LowerType DEF Known, Recursion, TypeOK
<1>9. \A x \in Lower(sys, s) \cup {s} : Len(Work[x]) = 1 /\ IsSubset(Work[x][1]) =>
         S[x] = ToSet(Set[x]) \cup S[Work[x][1].AR]
  BY <1>2, <1>6, <1>8 DEF Fits
<1>10. \A w \in ToSet(Work[a]) : IsSubset(w) /\ w.AR \in Lower(sys, s) \cup {s} => S[w.AR] \subseteq S[a]
  BY <1>2 DEF Fits
<1> QED  BY <1>7, <1>9, <1>10 DEF Fits

LEMMA InlineSubsetCovered ==
    ASSUME Known, sys' = sys, Ordered, Positions, Covered, InlineSubset
    PROVE  Covered'
<1>1. Set' = Set /\ NoteSubset(This, result.AR)
  BY DEF InlineSubset
<1> DEFINE c == Cur.AR
           r == result.AR
<1>2. /\ This \in ARs /\ Cur \in ToSet(Work[This]) /\ IsSubset(Cur) /\ c # This /\ c \in ARs
      /\ c \in Lower(sys, This) /\ r \in Lower(sys, c)
      /\ ToSet(Set[c]) \subseteq ToSet(Set[This])
      /\ Len(Work[c]) = 1 /\ IsSubset(Work[c][1]) /\ Work[c][1].AR = r
  BY InlineMeans
<1>3. /\ \A a \in ARs \ {This} : Work'[a] = Work[a]
      /\ IsSubset(Inlined) /\ Inlined.AR = r /\ Inlined \in ToSet(Work'[This])
      /\ ToSet(Work[This]) \subseteq ToSet(Work'[This]) \cup {Cur}
      /\ Len(Work'[This]) = Len(Work[This]) /\ Work'[This][Ctx.Pos] = Inlined
  BY InlineItems DEF Known
<1>4. /\ \A a \in ARs \ {This} : Subsets'[a] = Subsets[a]
      /\ Subsets'[This] \subseteq Subsets[This] \cup {r}
      /\ \A a \in ARs : Work[a] \in Seq(Works)
  BY <1>1, <1>2 DEF NoteSubset, Known, Recursion, TypeOK
<1>5. \A a \in ARs : Work'[a] # <<>> => Work[a] # <<>>
  <2>1. Work[This] # <<>>
    BY <1>2 DEF ToSet
  <2> QED  BY <1>3, <2>1
<1>6. Len(Work[This]) = 1 => Work'[This][1] = Inlined /\ Work[This][1] = Cur
  <2>1. Len(Work[This]) = 1 => Cur = Work[This][1]
    BY <1>2, <1>4, OneItem
  <2>2. Len(Work[This]) = 1 => Ctx.Pos = 1
    <3>1. Ctx.Pos \in 1 .. Len(Work[This])
      BY CurType DEF Known, InlineSubset, Returned
    <3> QED  BY <3>1
  <2> QED  BY <1>3, <2>1, <2>2
<1> HIDE DEF c, r
<1> SUFFICES ASSUME NEW a \in ARs, NEW s \in Subsets'[a], NEW S \in Families, Fits(sys, Set, Work', S, a, s),
                    ~(S[s] \subseteq S[a])
             PROVE  s \in Subsets[a] /\ Fits(sys, Set, Work, S, a, s)
  BY <1>1, <1>5, CoveredByFits
<1>7. s \in Subsets[a]
  <2>1. a = This /\ s = r => S[s] \subseteq S[a]
    BY <1>3 DEF Fits
  <2> QED  BY <1>4, <2>1
<1>8. /\ \A x \in Lower(sys, s) \cup {s} : x \in ARs
      /\ \A x \in ARs : ToSet(Set[x]) \subseteq S[x]
  BY <1>7, LowerType DEF Known, Recursion, TypeOK, Fits
<1>9. \A x \in Lower(sys, s) \cup {s} : \A y \in Lower(sys, x) : y \in Lower(sys, s) \cup {s}
  BY LowerTransitive
<1>10. c \in Lower(sys, s) \cup {s} => S[c] = ToSet(Set[c]) \cup S[r]
  BY <1>2, <1>3 DEF Fits
<1>11. ASSUME NEW x \in Lower(sys, s) \cup {s}, Len(Work[x]) = 1, IsSubset(Work[x][1])
       PROVE  S[x] = ToSet(Set[x]) \cup S[Work[x][1].AR]
  <2>1. CASE x = This
    <3>1. Len(Work'[x]) = 1 /\ Work'[x][1] = Inlined /\ Work[x][1] = Cur
      BY <1>3, <1>6, <1>11, <2>1
    <3>2. S[x] = ToSet(Set[x]) \cup S[r]
      BY <1>3, <3>1 DEF Fits
    <3>3. S[c] = ToSet(Set[c]) \cup S[r]
      BY <1>2, <1>9, <1>10, <2>1
    <3> QED  BY <1>2, <2>1, <3>1, <3>2, <3>3 DEF c
  <2>2. CASE x # This
    BY <1>3, <1>8, <1>11, <2>2 DEF Fits
  <2> QED  BY <2>1, <2>2
<1>12. ASSUME NEW w \in ToSet(Work[a]), IsSubset(w), w.AR \in Lower(sys, s) \cup {s}
       PROVE  S[w.AR] \subseteq S[a]
  <2>1. CASE w \in ToSet(Work'[a])
    BY <1>12, <2>1 DEF Fits
  <2>2. CASE w \notin ToSet(Work'[a])
    <3>1. a = This /\ w = Cur /\ w.AR = c
      BY <1>3, <2>2 DEF c
    <3>2. r \in Lower(sys, s) \cup {s}
      BY <1>2, <1>9, <1>12, <3>1
    <3>3. S[r] \subseteq S[a]
      BY <1>3, <3>1, <3>2 DEF Fits
    <3>4. S[c] = ToSet(Set[c]) \cup S[r]
      BY <1>10, <1>12, <3>1
    <3> QED  BY <1>2, <1>8, <3>1, <3>3, <3>4
  <2> QED  BY <2>1, <2>2
<1> QED  BY <1>7, <1>11, <1>12 DEF Fits

(* The last work of an AR is gone: it has all that its subset can have.    *)
LEMMA EmptiedFits ==
    ASSUME Known, Known', sys' = sys, NothingLost', Set' = Set, NEW b \in ARs, Work'[b] = <<>>,
           NEW S, \A x \in ARs : ToSet(Set[x]) \subseteq S[x] /\ S[x] \subseteq Whole[x],
           NEW w \in ToSet(Work[b]), IsSubset(w)
    PROVE  S[b] = ToSet(Set[b]) \cup S[w.AR]
<1>1. ToSet(Set[b]) = Whole[b]
  BY DoneAfter
<1>2. w \in Todo[b] /\ w.AR \in ARs
  BY TodoType, ItemType DEF Known
<1>3. Asks(sys.results, Set, Whole, b, w)
  BY <1>2, SoundMeets DEF Meets
<1>4. Whole[w.AR] \subseteq Whole[b]
  BY <1>3 DEF Asks
<1>5. S[w.AR] \subseteq Whole[b] /\ S[b] = Whole[b]
  BY <1>1, <1>2, <1>4
<1> QED  BY <1>1, <1>5

(* Steps that erase work of the innermost activation. *)
LEMMA ErasedCovered ==
    ASSUME Known, Known', sys' = sys, NothingLost', Covered, UNCHANGED <<Set, Subsets>>,
           This \in ARs, Work[This] # <<>>,
           \A a \in ARs \ {This} : Work'[a] = Work[a],
           Work'[This] = <<>> \/ Len(Work[This]) # 1,
           \A s \in Subsets[This] : \A S \in Families : Work'[This] # <<>> /\ Fits(sys, Set, Work', S, This, s) =>
               \A w \in ToSet(Work[This]) : IsSubset(w) /\ w.AR \in Lower(sys, s) \cup {s} =>
                   S[w.AR] \subseteq S[This]
    PROVE  Covered'
<1>1. \A a \in ARs : Work'[a] # <<>> => Work[a] # <<>>
  OBVIOUS
<1> SUFFICES ASSUME NEW a \in ARs, Work'[a] # <<>>, NEW s \in Subsets[a], NEW S \in Families,
                    Fits(sys, Set, Work', S, a, s)
             PROVE  Fits(sys, Set, Work, S, a, s)
  BY <1>1, CoveredByFits
<1>2. /\ \A x \in Lower(sys, s) \cup {s} : x \in ARs
      /\ \A b \in ARs : Work[b] \in Seq(Works)
  BY LowerType DEF Known, Recursion, TypeOK
<1>3. \A x \in ARs : ToSet(Set[x]) \subseteq S[x] /\ S[x] \subseteq Whole[x]
  BY DEF Fits, Whole
<1>4. ASSUME NEW x \in Lower(sys, s) \cup {s}, Len(Work[x]) = 1, IsSubset(Work[x][1])
      PROVE  S[x] = ToSet(Set[x]) \cup S[Work[x][1].AR]
  <2>1. CASE x = This
    <3>1. Work[x][1] \in ToSet(Work[This])
      BY <1>2, <1>4, <2>1, OneItem
    <3> QED  BY <1>3, <1>4, <2>1, <3>1, EmptiedFits
  <2>2. CASE x # This
    BY <1>2, <1>4, <2>2 DEF Fits
  <2> QED  BY <2>1, <2>2
<1>5. ASSUME NEW w \in ToSet(Work[a]), IsSubset(w), w.AR \in Lower(sys, s) \cup {s}
      PROVE  S[w.AR] \subseteq S[a]
  <2>1. CASE a = This
    BY <1>5, <2>1
  <2>2. CASE a # This
    BY <1>5, <2>2 DEF Fits
  <2> QED  BY <2>1, <2>2
<1> QED  BY <1>4, <1>5, <1>3 DEF Fits, Whole

LEMMA ErasedLast ==
    ASSUME Known, Known', This \in ARs, Len(Work'[This]) = Len(Work[This]) - 1
    PROVE  Work'[This] = <<>> \/ Len(Work[This]) # 1
<1>1. Work'[This] \in Seq(Works) /\ Work[This] \in Seq(Works)
  BY DEF Known, Recursion, TypeOK
<1>2. Len(Work[This]) = 1 => Len(Work'[This]) = 0
  OBVIOUS
<1> QED  BY <1>1, <1>2, EmptySeq

LEMMA DropInlinedCovered ==
    ASSUME Known, Known', sys' = sys, Ordered, Positions, NothingLost', Covered, DropInlined
    PROVE  Covered'
<1>1. /\ UNCHANGED <<Set, Subsets>> /\ EraseCur
      /\ result.AR = This \/ result.AR \in Subsets[This]
  BY DEF DropInlined, prepareForSubset
<1> DEFINE c == Cur.AR
           r == result.AR
<1>2. /\ This \in ARs /\ Cur \in ToSet(Work[This]) /\ IsSubset(Cur) /\ c # This /\ c \in ARs
      /\ c \in Lower(sys, This) /\ r \in Lower(sys, c) /\ r \in Lower(sys, This)
      /\ stack # <<>> /\ pc = "return"
      /\ ToSet(Set[c]) \subseteq ToSet(Set[This])
      /\ Len(Work[c]) = 1 /\ IsSubset(Work[c][1]) /\ Work[c][1].AR = r
  BY InlineMeans
<1>3. /\ \A a \in ARs \ {This} : Work'[a] = Work[a]
      /\ ToSet(Work[This]) \subseteq ToSet(Work'[This]) \cup {Cur}
      /\ Len(Work'[This]) = Len(Work[This]) - 1
  BY <1>1, <1>2, EraseCurItems DEF Known
<1>4. Work[This] # <<>>
  BY <1>2 DEF ToSet
<1>5. Work'[This] = <<>> \/ Len(Work[This]) # 1
  BY <1>2, <1>3, ErasedLast
<1>6. This \notin Lower(sys, This) /\ c \notin Lower(sys, c)
  <2>1. sys \in EquationSystems /\ NoSubsetCycles(sys)
    BY DEF Known, Recursion, TypeOK
  <2> QED  BY <1>2, <2>1, LowerIrreflexive
<1>7. r \in Subsets[This]
  BY <1>1, <1>2, <1>6
<1>8. \A x \in Lower(sys, r) \cup {r} : x \in ARs /\ x # This /\ x # c
  <2>1. \A x \in Lower(sys, r) : x \in Lower(sys, This) /\ x \in Lower(sys, c) /\ x \in ARs
    BY <1>2, LowerTransitive, LowerType
  <2>2. r \in ARs
    BY <1>2, LowerType
  <2> QED  BY <1>2, <1>6, <2>1, <2>2
<1>9. ASSUME NEW s \in Subsets[This], NEW S \in Families, Fits(sys, Set, Work', S, This, s),
             NEW w \in ToSet(Work[This]), IsSubset(w), w.AR \in Lower(sys, s) \cup {s}
      PROVE  S[w.AR] \subseteq S[This]
  <2>1. CASE w \in ToSet(Work'[This])
    BY <1>9, <2>1 DEF Fits
  <2>2. CASE w \notin ToSet(Work'[This])
    <3>1. w.AR = c /\ c \in Lower(sys, s) \cup {s}
      BY <1>3, <1>9, <2>2
    <3> HIDE DEF c, r
    <3>2. \A x \in Lower(sys, r) \cup {r} : x \in Lower(sys, s) \cup {s}
      BY <1>2, <3>1, LowerTransitive
    <3>3. S[c] = ToSet(Set[c]) \cup S[r]
      BY <1>2, <1>3, <3>1, <1>9 DEF Fits
    <3>4. Fits(sys, Set, Work, S, This, r)
      <4>1. \A x \in Lower(sys, r) \cup {r} : Len(Work[x]) = 1 /\ IsSubset(Work[x][1]) =>
               S[x] = ToSet(Set[x]) \cup S[Work[x][1].AR]
        BY <1>3, <1>8, <1>9, <3>2 DEF Fits
      <4>2. ASSUME NEW u \in ToSet(Work[This]), IsSubset(u), u.AR \in Lower(sys, r) \cup {r}
            PROVE  S[u.AR] \subseteq S[This]
        <5>1. u # Cur
          BY <1>8, <4>2 DEF c
        <5>2. u \in ToSet(Work'[This])
          BY <1>3, <5>1
        <5> QED  BY <1>9, <3>2, <4>2, <5>2 DEF Fits
      <4> QED  BY <1>9, <4>1, <4>2 DEF Fits
    <3>5. S[r] \subseteq S[This]
      BY <1>2, <1>4, <1>7, <3>4 DEF Covered
    <3>6. ToSet(Set[This]) \subseteq S[This]
      BY <1>2, <1>9 DEF Fits
    <3> QED  BY <1>2, <3>1, <3>3, <3>5, <3>6
  <2> QED  BY <2>1, <2>2
<1> QED  BY <1>1, <1>2, <1>3, <1>4, <1>5, <1>9, ErasedCovered

LEMMA EraseCompletedCovered ==
    ASSUME Known, Known', sys' = sys, Positions, NothingLost, NothingLost', Covered, EraseCompleted
    PROVE  Covered'
<1>1. /\ UNCHANGED <<Set, Subsets>> /\ EraseCur /\ stack # <<>> /\ pc = "return" /\ AtCaller
      /\ result.type = "COMPLETE"
  BY DEF EraseCompleted, Returned, AtCaller
<1>2. This \in ARs /\ Cur \in ToSet(Work[This]) /\ Cur.AR \in ARs /\ Work[This] # <<>>
  <2>1. This \in ARs /\ Cur \in ToSet(Work[This]) /\ Cur.AR \in ARs
    BY <1>1, CurItem DEF Known
  <2> QED  BY <2>1 DEF ToSet
<1>3. /\ \A a \in ARs \ {This} : Work'[a] = Work[a]
      /\ ToSet(Work[This]) \subseteq ToSet(Work'[This]) \cup {Cur}
      /\ Len(Work'[This]) = Len(Work[This]) - 1
  BY <1>1, EraseCurItems DEF Known
<1>4. Work'[This] = <<>> \/ Len(Work[This]) # 1
  BY <1>2, <1>3, ErasedLast
<1>5. Work[Cur.AR] = <<>> /\ Exhausted(Cur)
  BY <1>1 DEF Positions, ResultMeans
<1>6. ToSet(Set[Cur.AR]) = Whole[Cur.AR] /\ Taken(Set, Cur) = ToSet(Set[Cur.AR])
  BY <1>2, <1>5, DoneAreWhole, TakenAll DEF Known
<1>7. IsSubset(Cur) => Whole[Cur.AR] \subseteq ToSet(Set[This])
  <2>1. Handed(This) = {}
    BY <1>1 DEF Handed
  <2> QED  BY <1>2, <1>6, <2>1 DEF Positions, Seen
<1>8. ASSUME NEW s \in Subsets[This], NEW S \in Families, Fits(sys, Set, Work', S, This, s),
             NEW w \in ToSet(Work[This]), IsSubset(w), w.AR \in Lower(sys, s) \cup {s}
      PROVE  S[w.AR] \subseteq S[This]
  <2>1. CASE w \in ToSet(Work'[This])
    BY <1>8, <2>1 DEF Fits
  <2>2. CASE w \notin ToSet(Work'[This])
    <3>1. w = Cur
      BY <1>3, <1>8, <2>2
    <3>2. S[Cur.AR] \subseteq Whole[Cur.AR] /\ ToSet(Set[This]) \subseteq S[This]
      BY <1>2, <1>8 DEF Fits, Whole
    <3> QED  BY <1>7, <1>8, <3>1, <3>2
  <2> QED  BY <2>1, <2>2
<1> QED  BY <1>1, <1>2, <1>3, <1>4, <1>8, ErasedCovered

LEMMA EndCancelRetryCovered ==
    ASSUME Known, Known', sys' = sys, NothingLost', Covered, EndCancelRetry
    PROVE  Covered'
<1>1. /\ stack # <<>> /\ UNCHANGED <<Set, Subsets>> /\ SetWork(<<>>) /\ pc = "run"
      /\ Ctx.Retry = This /\ AtEnd
  BY LeaveKept DEF EndCancelRetry, Known
<1>2. This \in ARs
  BY <1>1, TopFrame DEF Known
<1>3. Work'[This] = <<>> /\ \A a \in ARs \ {This} : Work'[a] = Work[a]
  BY <1>1, <1>2, SetWorkItems DEF Known
<1>4. CASE Work[This] = <<>>
  <2>1. Work' = Work
    BY <1>1, <1>2, <1>4 DEF SetWork, Known, Recursion, TypeOK
  <2> QED  BY <1>1, <2>1, UnchangedCovered
<1>5. CASE Work[This] # <<>>
  BY <1>1, <1>2, <1>3, <1>5, ErasedCovered
<1> QED  BY <1>4, <1>5

LEMMA NextCovered ==
    ASSUME Known, Ordered, Positions, NothingLost, NothingLost', Covered, [Next]_vars
    PROVE  Covered'
<1>1. ~EnterRewrite /\ pc # "rewrite" /\ ~(pc = "return" /\ result.type = "REWRITE")
  BY NoEnterRewrite DEF Ordered, NothingRewritten
<1>2. Known' /\ sys' = sys
  BY NextKnown
<1>3. CASE Enter
  <2>1. EnterRetry \/ EnterRun => UNCHANGED <<sys, Set, Work, Subsets>>
    BY DEF EnterRetry, EnterRun
  <2> QED  BY <1>1, <1>2, <1>3, <2>1, UnchangedCovered, EnterCachedCovered DEF Enter
<1>4. CASE Run
  <2>1. RunInline \/ RunRecurse \/ EndComplete \/ EndRetry => UNCHANGED <<sys, Set, Work, Subsets>>
    BY DEF RunInline, RunRecurse, EndComplete, EndRetry
  <2> QED  BY <1>2, <1>4, <2>1, UnchangedCovered, EndCancelRetryCovered DEF Run
<1>5. CASE Handle
  <2>1. ~(RewriteHere \/ RewriteBegin \/ RewriteKeep \/ RewriteDrop \/ RewriteSplice)
    BY <1>1 DEF RewriteHere, RewriteBegin, RewriteKeep, RewriteDrop, RewriteSplice, Returned
  <2>2. SkipRetried \/ SkipKnownValue \/ TransformToNothing => UNCHANGED <<sys, Set, Work, Subsets>>
    BY DEF SkipRetried, SkipKnownValue, TransformToNothing
  <2> QED  BY <1>2, <1>5, <2>1, <2>2, UnchangedCovered, AddNewValueCovered, TransformToSubsetCovered,
              InlineSubsetCovered, DropInlinedCovered, EraseCompletedCovered DEF Handle
<1>6. CASE Answer \/ \E a \in ARs : \E i \in 0 .. Len(Set[a]) : Query(a, i)
  BY <1>6, UnchangedCovered DEF Answer, Query
<1>7. CASE UNCHANGED vars
  BY <1>7, UnchangedCovered DEF vars
<1> QED  BY <1>3, <1>4, <1>5, <1>6, <1>7 DEF Next, Step

-----------------------------------------------------------------------------
(* The invariant. *)

Completeness == Known /\ Ordered /\ Positions /\ Waits /\ NothingLost /\ Covered

LEMMA InitCompleteness ==
    ASSUME Init, NoSubsetCycles(sys)
    PROVE  Completeness
BY InitRecursion, InitRouting, InitSound, InitInRange, InitOrdered, InitPositions, InitWaits,
   InitLost, InitCovered DEF Completeness, Known

LEMMA NextCompleteness ==
    ASSUME Completeness, [Next]_vars
    PROVE  Completeness'
<1>1. Known' /\ Ordered' /\ Positions' /\ Waits'
  BY NextKnown, NextOrdered, NextPositions, NextWaits DEF Completeness
<1>2. NothingLost'
  BY NextLost DEF Completeness
<1>3. Covered'
  BY <1>2, NextCovered DEF Completeness
<1> QED  BY <1>1, <1>2, <1>3 DEF Completeness

-----------------------------------------------------------------------------
(* What else a client may do: ask for more before it has looked at a       *)
(* value, or, at the sole subset of the set it enumerates, give up.        *)

AskAgain ==
    /\ pc = "return" /\ stack = <<>> /\ result.type = "NEXT_VALUE"
    /\ Goto("call")
    /\ UNCHANGED <<sys, Set, Work, Subsets, EnumerationDepth, stack, cursor>>

GiveUp ==
    /\ pc = "run" /\ Depth = 0 /\ ~AtEnd /\ IsSubset(Cur)
    /\ stack' = <<>>
    /\ EnumerationDepth' = [EnumerationDepth EXCEPT ![This] = -1]
    /\ Goto("idle")
    /\ cursor' = Nobody
    /\ UNCHANGED <<sys, Set, Work, Subsets>>

(* Nothing is being enumerated for the client any more. *)
LEMMA ClientCompleteness ==
    ASSUME Completeness, Recursion', CursorInRange', ~AtCaller,
           stack' = <<>>, pc' \in {"idle", "call"}, UNCHANGED <<sys, Set, Work, Subsets>>
    PROVE  Completeness'
<1>1. Len(stack') = 0 /\ ~AtCaller'
  BY EmptySeq DEF AtCaller
<1>2. Recursion /\ Routing /\ EverySound /\ InRange /\ NoSubsetCycles(sys)
  BY DEF Completeness, Known
<1>3. Routing'
  BY <1>1 DEF Routing, RootIsCursor, ResultRouted, RetriesBelow, RetriedPassed
<1>4. EverySound'
  <2> SUFFICES ASSUME NEW S \in Solutions(sys), Sound(S)
               PROVE  Sound(S)'
    BY <1>2 DEF EverySound
  <2>1. WorksSound(S)'
    BY SameWorkSound DEF Sound
  <2> QED  BY <1>1, <2>1 DEF Sound, SetsSound, ResultSound, ChainSound
<1>5. InRange'
  BY <1>2, SameWorkInRange DEF InRange, ResultInRange
<1>6. Known' /\ Known
  BY <1>2, <1>3, <1>4, <1>5 DEF Known
<1>7. Ordered'
  BY <1>1, SameDown DEF Completeness, Ordered, ChainDown, NothingRewritten
<1>8. Positions'
  <2>1. \A a : Handed(a) = {} /\ Handed(a)' = {}
    BY <1>1 DEF Handed
  <2>2. \A w : Taken(Set, w)' = Taken(Set, w)
    BY DEF Taken
  <2>3. Seen
    BY DEF Completeness, Positions
  <2>4. Seen'
    BY <2>1, <2>2, <2>3 DEF Seen
  <2>5. CallersWait' /\ ClientWaits' /\ ResultMeans'
    BY <1>1 DEF CallersWait, ClientWaits, ResultMeans
  <2> QED  BY <2>4, <2>5 DEF Positions
<1>9. Waits'
  BY <1>1 DEF Waits
<1>10. NothingLost'
  <2>1. \A w : Taken(Set', w) = Taken(Set, w)
    OBVIOUS
  <2> QED  BY <1>6, <2>1, SameLost DEF Completeness
<1>11. Covered'
  BY UnchangedCovered DEF Completeness
<1> QED  BY <1>6, <1>7, <1>8, <1>9, <1>10, <1>11 DEF Completeness

LEMMA AskAgainCompleteness ==
    ASSUME Completeness, AskAgain
    PROVE  Completeness'
<1>1. /\ stack = <<>> /\ stack' = <<>> /\ pc = "return" /\ pc' = "call" /\ result' = NoResult
      /\ UNCHANGED <<sys, Set, Work, Subsets, EnumerationDepth, cursor>>
  BY DEF AskAgain, Goto
<1>2. Recursion /\ Len(stack') = 0
  BY <1>1, EmptySeq DEF Completeness, Known
<1>3. TypeOK'
  BY <1>1, <1>2 DEF Recursion, TypeOK, NoResult, EnumerationResults, ResultTypes
<1>4. ControlOK'
  BY <1>1, <1>2 DEF Recursion, ControlOK, NoResult
<1>5. DepthsMirrorStack'
  BY <1>1, <1>2, FramesUnchanged DEF Recursion
<1>6. IteratorsValid'
  BY <1>1, <1>2 DEF IteratorsValid
<1>7. CursorInRange'
  BY <1>1 DEF Completeness, Known, InRange, CursorInRange
<1>8. Recursion' /\ ~AtCaller
  BY <1>1, <1>3, <1>4, <1>5, <1>6 DEF Recursion, AtCaller
<1> QED  BY <1>1, <1>7, <1>8, ClientCompleteness

LEMMA GiveUpCompleteness ==
    ASSUME Completeness, GiveUp
    PROVE  Completeness'
<1>1. /\ pc = "run" /\ stack' = <<>> /\ pc' = "idle" /\ result' = NoResult /\ cursor' = Nobody
      /\ EnumerationDepth' = [EnumerationDepth EXCEPT ![This] = -1] /\ Depth = 0
      /\ UNCHANGED <<sys, Set, Work, Subsets>>
  BY DEF GiveUp, Goto
<1>2. Recursion /\ Len(stack') = 0 /\ stack # <<>>
  BY <1>1, EmptySeq DEF Completeness, Known, Recursion, ControlOK
<1>3. /\ This \in ARs /\ stack[1] = Ctx /\ This = Ctx.AR /\ Len(stack) = 1
      /\ EnumerationDepth \in [ARs -> Nat \cup {-1}]
  <2>1. PICK n \in Nat : /\ Len(stack) = n /\ Ctx = stack[n] /\ This = Ctx.AR /\ This \in ARs
                         /\ Depth = n - 1
    BY <1>2, TopFrame
  <2>2. n = 1
    BY <1>1, <2>1
  <2> QED  BY <1>2, <2>1, <2>2 DEF Recursion, TypeOK
<1>4. TypeOK'
  BY <1>1, <1>2, <1>3 DEF Recursion, TypeOK, NoResult, EnumerationResults, ResultTypes, Nobody, Enumerators
<1>5. ControlOK'
  BY <1>1, <1>2 DEF ControlOK, NoResult
<1>6. \A a \in ARs : EnumerationDepth'[a] = -1
  <2> SUFFICES ASSUME NEW a \in ARs, EnumerationDepth[a] # -1
               PROVE  a = This
    BY <1>1, <1>3
  <2>1. EnumerationDepth[a] \in Nat /\ EnumerationDepth[a] < 1 /\ stack[EnumerationDepth[a] + 1].AR = a
    BY <1>2, <1>3 DEF Recursion, DepthsMirrorStack
  <2>2. EnumerationDepth[a] + 1 = 1
    BY <2>1
  <2> QED  BY <1>3, <2>1, <2>2
<1>7. DepthsMirrorStack'
  BY <1>2, <1>6 DEF DepthsMirrorStack
<1>8. IteratorsValid'
  BY <1>2 DEF IteratorsValid
<1>9. CursorInRange'
  BY <1>1 DEF CursorInRange
<1>10. Recursion' /\ ~AtCaller
  BY <1>1, <1>4, <1>5, <1>7, <1>8 DEF Recursion, AtCaller
<1> QED  BY <1>1, <1>9, <1>10, ClientCompleteness

-----------------------------------------------------------------------------
(* What is left between queries.                                           *)

LEMMA LeftAsksNoMore ==
    ASSUME Completeness, pc = "idle",
           NEW S \in Solutions([set |-> Set, work |-> Work, results |-> sys.results])
    PROVE  \A a \in ARs : Whole[a] \subseteq S[a]
<1> DEFINE left == [set |-> Set, work |-> Work, results |-> sys.results]
<1>1. S \in Families /\ IsSolution(left, S)
  BY DEF Solutions, Families
<1>2. /\ Recursion /\ \A a \in ARs : Work[a] \in Seq(Works) /\ Todo[a] = ToSet(Work[a])
  BY TodoType DEF Completeness, Known, Recursion, TypeOK, AtCaller
<1>3. ASSUME NEW a \in ARs, NEW w \in Todo[a]
      PROVE  Asks(sys.results, Set, S, a, w)
  <2>1. PICK k \in DOMAIN Work[a] : Work[a][k] = w
    BY <1>2, ItemsOf
  <2>2. Satisfies(sys.results, S, a, w)
    BY <1>1, <2>1 DEF IsSolution
  <2> QED  BY <2>2 DEF Satisfies, Asks
<1>4. \A a \in ARs : ToSet(Set[a]) \subseteq S[a]
  BY <1>1 DEF IsSolution
<1>5. Meets(sys.results, Set, Todo, S)
  BY <1>3, <1>4 DEF Meets
<1> QED  BY <1>1, <1>5 DEF Completeness, NothingLost

LEMMA WholeIsLeft ==
    ASSUME Completeness
    PROVE  Whole \in Solutions([set |-> Set, work |-> Work, results |-> sys.results])
<1>1. /\ Whole \in Families /\ Sound(Whole)
      /\ \A a \in ARs : ToSet(Set[a]) \subseteq Whole[a] /\ Work[a] \in Seq(SoundWorks(Whole, a))
  BY KnownWhole DEF Completeness, Known, Families, Sound, SetsSound, WorksSound
<1> HIDE DEF Whole
<1>2. ASSUME NEW a \in ARs, NEW k \in DOMAIN Work[a]
      PROVE  Satisfies(sys.results, Whole, a, Work[a][k])
  <2>1. Work[a][k] \in SoundWorks(Whole, a)
    BY <1>1, ElementOfSeq, LenProperties
  <2> QED  BY <2>1 DEF SoundWorks
<1> QED  BY <1>1, <1>2 DEF Solutions, IsSolution, Families

(* What a query leaves behind, the values and the rest of the work, is a   *)
(* system of equations with the solution of the one it started from.       *)
LEMMA LeftIsWhole ==
    ASSUME Completeness, pc = "idle"
    PROVE  LeastSolution([set |-> Set, work |-> Work, results |-> sys.results]) = Whole
<1> DEFINE left == [set |-> Set, work |-> Work, results |-> sys.results]
<1>1. left \in EquationSystems
  BY DEF Completeness, Known, Recursion, TypeOK, EquationSystems
<1>2. /\ LeastSolution(left) \in Solutions(left)
      /\ \A S \in Solutions(left) : \A a \in ARs : LeastSolution(left)[a] \subseteq S[a]
  BY <1>1, LeastSolutionIsSolution
<1>3. \A a \in ARs : LeastSolution(left)[a] \subseteq Whole[a]
  BY <1>2, WholeIsLeft
<1>4. \A a \in ARs : Whole[a] \subseteq LeastSolution(left)[a]
  BY <1>2, LeftAsksNoMore
<1>5. LeastSolution(left) \in [ARs -> SUBSET VIs] /\ Whole \in [ARs -> SUBSET VIs]
  BY <1>2, WholeIsLeft DEF Solutions
<1> HIDE DEF left, Whole
<1>6. LeastSolution(left) = Whole
  BY <1>3, <1>4, <1>5
<1> QED  BY <1>6 DEF left
===============================================================================
