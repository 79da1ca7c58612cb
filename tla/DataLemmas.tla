----------------------------- MODULE DataLemmas ------------------------------
(*****************************************************************************)
(* Facts about the data of the models, for the proofs: what the operations   *)
(* on sequences return (erasing from and inserting into work lists, popping  *)
(* the stack, growing sets that are kept as sequences without duplicates),   *)
(* and what the least fixed points of finite lattices are.                   *)
(*****************************************************************************)
EXTENDS Fixpoint, Integers, FiniteSets, Sequences, SequencesExt, SequenceTheorems,
        FiniteSetTheorems, WellFoundedInduction, TLAPS

LEMMA RemoveAtProperties ==
    ASSUME NEW T, NEW s \in Seq(T), NEW i \in 1 .. Len(s)
    PROVE  /\ RemoveAt(s, i) \in Seq(T)
           /\ Len(RemoveAt(s, i)) = Len(s) - 1
           /\ \A j \in 1 .. Len(s) - 1 : RemoveAt(s, i)[j] = IF j < i THEN s[j] ELSE s[j + 1]
<1> DEFINE l == SubSeq(s, 1, i - 1)
           r == SubSeq(s, i + 1, Len(s))
<1>1. Len(s) \in Nat /\ \A j \in 1 .. Len(s) : s[j] \in T
  BY LenProperties, ElementOfSeq
<1>2. /\ l \in Seq(T)
      /\ Len(l) = i - 1
      /\ \A j \in 1 .. i - 1 : l[j] = s[j]
  <2>1. \A j \in 1 .. i - 1 : s[j] \in T
    BY <1>1
  <2>2. /\ l \in Seq(T)
        /\ Len(l) = IF 1 <= i - 1 THEN (i - 1) - 1 + 1 ELSE 0
        /\ \A j \in 1 .. (i - 1) - 1 + 1 : l[j] = s[1 + j - 1]
    BY <1>1, <2>1, SubSeqProperties
  <2> QED  BY <1>1, <2>2
<1>3. /\ r \in Seq(T)
      /\ Len(r) = Len(s) - i
      /\ \A j \in 1 .. Len(s) - i : r[j] = s[j + i]
  <2>1. \A j \in i + 1 .. Len(s) : s[j] \in T
    BY <1>1
  <2>2. /\ r \in Seq(T)
        /\ Len(r) = IF i + 1 <= Len(s) THEN Len(s) - (i + 1) + 1 ELSE 0
        /\ \A j \in 1 .. Len(s) - (i + 1) + 1 : r[j] = s[(i + 1) + j - 1]
    BY <1>1, <2>1, SubSeqProperties
  <2> QED  BY <1>1, <2>2
<1>4. /\ l \o r \in Seq(T)
      /\ Len(l \o r) = Len(l) + Len(r)
      /\ \A j \in 1 .. Len(l) + Len(r) : (l \o r)[j] = IF j <= Len(l) THEN l[j] ELSE r[j - Len(l)]
  BY <1>2, <1>3, ConcatProperties
<1> HIDE DEF l, r
<1>5. ASSUME NEW j \in 1 .. Len(s) - 1
      PROVE  (l \o r)[j] = IF j < i THEN s[j] ELSE s[j + 1]
  <2>1. CASE j < i
    BY <1>1, <1>2, <1>3, <1>4, <2>1
  <2>2. CASE ~(j < i)
    <3>1. /\ j - Len(l) \in 1 .. Len(s) - i
          /\ (j - Len(l)) + i = j + 1
          /\ ~(j <= Len(l))
          /\ j \in 1 .. Len(l) + Len(r)
      BY <1>1, <1>2, <1>3, <2>2
    <3>2. (l \o r)[j] = r[j - Len(l)]
      BY <1>4, <3>1
    <3> QED  BY <1>3, <2>2, <3>1, <3>2
  <2> QED  BY <2>1, <2>2
<1>6. RemoveAt(s, i) = l \o r
  BY DEF RemoveAt, l, r
<1> QED  BY <1>1, <1>2, <1>3, <1>4, <1>5, <1>6

LEMMA InsertAtProperties ==
    ASSUME NEW T, NEW s \in Seq(T), NEW i \in 1 .. Len(s), NEW e \in T
    PROVE  /\ InsertAt(s, i, e) \in Seq(T)
           /\ Len(InsertAt(s, i, e)) = Len(s) + 1
           /\ \A j \in 1 .. Len(s) + 1 :
                InsertAt(s, i, e)[j] = IF j < i THEN s[j] ELSE IF j = i THEN e ELSE s[j - 1]
<1> DEFINE l == SubSeq(s, 1, i - 1)
           r == SubSeq(s, i, Len(s))
<1>1. Len(s) \in Nat /\ \A j \in 1 .. Len(s) : s[j] \in T
  BY LenProperties, ElementOfSeq
<1>2. /\ l \in Seq(T)
      /\ Len(l) = i - 1
      /\ \A j \in 1 .. i - 1 : l[j] = s[j]
  <2>1. \A j \in 1 .. i - 1 : s[j] \in T
    BY <1>1
  <2>2. /\ l \in Seq(T)
        /\ Len(l) = IF 1 <= i - 1 THEN (i - 1) - 1 + 1 ELSE 0
        /\ \A j \in 1 .. (i - 1) - 1 + 1 : l[j] = s[1 + j - 1]
    BY <1>1, <2>1, SubSeqProperties
  <2> QED  BY <1>1, <2>2
<1>3. /\ r \in Seq(T)
      /\ Len(r) = Len(s) - i + 1
      /\ \A j \in 1 .. Len(s) - i + 1 : r[j] = s[j + i - 1]
  <2>1. \A j \in i .. Len(s) : s[j] \in T
    BY <1>1
  <2>2. /\ r \in Seq(T)
        /\ Len(r) = IF i <= Len(s) THEN Len(s) - i + 1 ELSE 0
        /\ \A j \in 1 .. Len(s) - i + 1 : r[j] = s[i + j - 1]
    BY <1>1, <2>1, SubSeqProperties
  <2> QED  BY <1>1, <2>2
<1>4. <<e>> \in Seq(T) /\ Len(<<e>>) = 1 /\ <<e>>[1] = e
  OBVIOUS
<1> HIDE DEF l, r
<1>5. /\ l \o <<e>> \in Seq(T)
      /\ Len(l \o <<e>>) = i
      /\ \A j \in 1 .. i : (l \o <<e>>)[j] = IF j < i THEN s[j] ELSE e
  <2>1. /\ l \o <<e>> \in Seq(T)
        /\ Len(l \o <<e>>) = Len(l) + Len(<<e>>)
        /\ \A j \in 1 .. Len(l) + Len(<<e>>) :
             (l \o <<e>>)[j] = IF j <= Len(l) THEN l[j] ELSE <<e>>[j - Len(l)]
    BY <1>2, <1>4, ConcatProperties
  <2>2. ASSUME NEW j \in 1 .. i
        PROVE  (l \o <<e>>)[j] = IF j < i THEN s[j] ELSE e
    <3>1. CASE j < i
      BY <1>1, <1>2, <1>4, <2>1, <3>1
    <3>2. CASE ~(j < i)
      <4>1. j - Len(l) = 1 /\ ~(j <= Len(l)) /\ ~(j < i) /\ j \in 1 .. Len(l) + Len(<<e>>)
        BY <1>1, <1>2, <1>4, <3>2
      <4>2. (l \o <<e>>)[j] = <<e>>[j - Len(l)]
        BY <2>1, <4>1
      <4> QED  BY <1>4, <4>1, <4>2
    <3> QED  BY <3>1, <3>2
  <2> QED  BY <1>1, <1>2, <1>4, <2>1, <2>2
<1> DEFINE m == l \o <<e>>
<1>6. m \in Seq(T) /\ Len(m) = i /\ \A j \in 1 .. i : m[j] = IF j < i THEN s[j] ELSE e
  BY <1>5
<1>7. InsertAt(s, i, e) = m \o r
  BY DEF InsertAt, l, r, m
<1> HIDE DEF m
<1>8. /\ m \o r \in Seq(T)
      /\ Len(m \o r) = Len(m) + Len(r)
      /\ \A j \in 1 .. Len(m) + Len(r) : (m \o r)[j] = IF j <= Len(m) THEN m[j] ELSE r[j - Len(m)]
  BY <1>3, <1>6, ConcatProperties
<1>9. ASSUME NEW j \in 1 .. Len(s) + 1
      PROVE  (m \o r)[j] = IF j < i THEN s[j] ELSE IF j = i THEN e ELSE s[j - 1]
  <2>1. CASE j <= i
    BY <1>1, <1>3, <1>6, <1>8, <2>1
  <2>2. CASE ~(j <= i)
    <3>1. /\ j - Len(m) \in 1 .. Len(s) - i + 1
          /\ (j - Len(m)) + i - 1 = j - 1
          /\ ~(j <= Len(m))
          /\ j \in 1 .. Len(m) + Len(r)
      BY <1>1, <1>3, <1>6, <2>2
    <3>2. (m \o r)[j] = r[j - Len(m)]
      BY <1>8, <3>1
    <3>3. r[j - Len(m)] = s[j - 1]
      BY <1>3, <3>1
    <3>4. ~(j < i) /\ j # i
      BY <1>1, <2>2
    <3> QED  BY <3>2, <3>3, <3>4
  <2> QED  BY <2>1, <2>2
<1> QED  BY <1>1, <1>3, <1>6, <1>7, <1>8, <1>9

LEMMA FrontProperties ==
    ASSUME NEW T, NEW s \in Seq(T), NEW n \in Nat, Len(s) = n, n >= 1
    PROVE  /\ Front(s) \in Seq(T)
           /\ Len(Front(s)) = n - 1
           /\ \A j \in 1 .. n - 1 : Front(s)[j] = s[j]
<1>1. \A j \in 1 .. n - 1 : s[j] \in T
  BY ElementOfSeq
<1> DEFINE t == SubSeq(s, 1, n - 1)
<1>2. /\ t \in Seq(T)
      /\ Len(t) = IF 1 <= n - 1 THEN (n - 1) - 1 + 1 ELSE 0
      /\ \A j \in 1 .. (n - 1) - 1 + 1 : t[j] = s[1 + j - 1]
  BY <1>1, SubSeqProperties
<1>3. Front(s) = t
  BY DEF Front
<1> HIDE DEF t
<1>4. Len(t) = n - 1
  BY <1>2
<1>5. ASSUME NEW j \in 1 .. n - 1
      PROVE  t[j] = s[j]
  <2>1. j \in 1 .. (n - 1) - 1 + 1 /\ 1 + j - 1 = j
    OBVIOUS
  <2> QED  BY <1>2, <2>1
<1> QED  BY <1>2, <1>3, <1>4, <1>5

(* A sequence whose elements are in a set is one over that set. *)
LEMMA SeqOverSubset ==
    ASSUME NEW T, NEW s \in Seq(T), NEW G, \A k \in DOMAIN s : s[k] \in G
    PROVE  s \in Seq(G)
<1>1. PICK m \in Nat : Len(s) = m /\ DOMAIN s = 1 .. m /\ s \in [1 .. m -> T]
  BY LenProperties
<1>2. s \in [1 .. m -> G]
  BY <1>1
<1> QED  BY <1>2, SeqDef

LEMMA ToSetAppend ==
    ASSUME NEW T, NEW s \in Seq(T), NEW e \in T
    PROVE  ToSet(Append(s, e)) = ToSet(s) \cup {e}
<1>1. PICK m \in Nat : Len(s) = m /\ DOMAIN s = 1 .. m
  BY LenProperties
<1>2. /\ DOMAIN Append(s, e) = 1 .. m + 1
      /\ \A j \in 1 .. m : Append(s, e)[j] = s[j]
      /\ Append(s, e)[m + 1] = e
  BY <1>1, AppendProperties, LenProperties
<1>3. 1 .. m + 1 = (1 .. m) \cup {m + 1}
  OBVIOUS
<1> QED  BY <1>1, <1>2, <1>3 DEF ToSet

(* Sets that are kept as sequences without duplicates. *)
LEMMA ToSetEmpty ==
    ASSUME NEW T, NEW s \in Seq(T)
    PROVE  ToSet(s) = {} <=> s = <<>>
<1>1. PICK m \in Nat : Len(s) = m /\ DOMAIN s = 1 .. m /\ (s = <<>> <=> m = 0)
  BY LenProperties, EmptySeq
<1>2. CASE m = 0
  <2>1. DOMAIN s = {}
    BY <1>1, <1>2
  <2>2. ToSet(s) = {}
    BY <2>1 DEF ToSet
  <2> QED  BY <1>1, <1>2, <2>2
<1>3. CASE m # 0
  <2>1. 1 \in DOMAIN s
    BY <1>1, <1>3
  <2>2. s[1] \in ToSet(s)
    BY <2>1 DEF ToSet
  <2> QED  BY <1>1, <1>3, <2>2
<1> QED  BY <1>2, <1>3

LEMMA AppendKeepsInjective ==
    ASSUME NEW T, NEW s \in Seq(T), NEW e \in T, IsInjective(s), ~Contains(s, e)
    PROVE  IsInjective(Append(s, e))
<1>1. PICK m \in Nat : Len(s) = m /\ DOMAIN s = 1 .. m
  BY LenProperties
<1>2. /\ DOMAIN Append(s, e) = 1 .. m + 1
      /\ \A j \in 1 .. m : Append(s, e)[j] = s[j]
      /\ Append(s, e)[m + 1] = e
  BY <1>1, AppendProperties, LenProperties
<1>3. \A j \in 1 .. m + 1 : j \in 1 .. m \/ j = m + 1
  OBVIOUS
<1>4. \A j \in 1 .. m : s[j] # e
  BY <1>1 DEF Contains
<1>5. SUFFICES ASSUME NEW i \in 1 .. m + 1, NEW j \in 1 .. m + 1, Append(s, e)[i] = Append(s, e)[j]
               PROVE  i = j
  BY <1>2 DEF IsInjective
<1>6. CASE i \in 1 .. m /\ j \in 1 .. m
  BY <1>1, <1>2, <1>5, <1>6 DEF IsInjective
<1>7. CASE i = m + 1 \/ j = m + 1
  BY <1>2, <1>3, <1>4, <1>5, <1>7
<1> QED  BY <1>6, <1>7, <1>3

LEMMA PrefixProperties ==
    ASSUME NEW T, NEW s \in Seq(T), NEW n \in 0 .. Len(s)
    PROVE  /\ SubSeq(s, 1, n) \in Seq(T)
           /\ Len(SubSeq(s, 1, n)) = n
           /\ DOMAIN SubSeq(s, 1, n) = 1 .. n
           /\ \A j \in 1 .. n : SubSeq(s, 1, n)[j] = s[j]
<1> DEFINE p == SubSeq(s, 1, n)
<1>1. Len(s) \in Nat /\ n \in Nat
  BY LenProperties
<1>2. \A j \in 1 .. n : s[j] \in T
  BY <1>1, ElementOfSeq
<1>3. /\ p \in Seq(T)
      /\ Len(p) = IF 1 <= n THEN n - 1 + 1 ELSE 0
      /\ \A j \in 1 .. n - 1 + 1 : p[j] = s[1 + j - 1]
  BY <1>1, <1>2, SubSeqProperties
<1> HIDE DEF p
<1>4. Len(p) = n
  BY <1>1, <1>3
<1>5. DOMAIN p = 1 .. n
  BY <1>3, <1>4, LenProperties
<1>6. ASSUME NEW j \in 1 .. n
      PROVE  p[j] = s[j]
  <2>1. j \in 1 .. n - 1 + 1 /\ 1 + j - 1 = j
    BY <1>1
  <2> QED  BY <1>3, <2>1
<1> QED  BY <1>3, <1>4, <1>5, <1>6 DEF p

(* What has been read of a sequence does not change when it grows. *)
LEMMA PrefixOfAppend ==
    ASSUME NEW T, NEW s \in Seq(T), NEW e \in T, NEW n \in 0 .. Len(s)
    PROVE  SubSeq(Append(s, e), 1, n) = SubSeq(s, 1, n)
<1>1. /\ Append(s, e) \in Seq(T)
      /\ Len(Append(s, e)) = Len(s) + 1
      /\ \A j \in 1 .. Len(s) : Append(s, e)[j] = s[j]
      /\ Len(s) \in Nat
  BY AppendProperties, LenProperties
<1>2. n \in 0 .. Len(Append(s, e)) /\ \A j \in 1 .. n : j \in 1 .. Len(s)
  BY <1>1
<1> DEFINE p == SubSeq(Append(s, e), 1, n)
           q == SubSeq(s, 1, n)
<1>3. p \in Seq(T) /\ Len(p) = n /\ \A j \in 1 .. n : p[j] = Append(s, e)[j]
  BY <1>1, <1>2, PrefixProperties
<1>4. q \in Seq(T) /\ Len(q) = n /\ \A j \in 1 .. n : q[j] = s[j]
  BY PrefixProperties
<1>5. \A j \in 1 .. n : p[j] = q[j]
  BY <1>1, <1>2, <1>3, <1>4
<1> HIDE DEF p, q
<1>6. p = q
  BY <1>3, <1>4, <1>5, SeqEqual
<1> QED  BY <1>6 DEF p, q

LEMMA PrefixNext ==
    ASSUME NEW T, NEW s \in Seq(T), NEW n \in Nat, n < Len(s)
    PROVE  SubSeq(s, 1, n + 1) = Append(SubSeq(s, 1, n), s[n + 1])
<1> DEFINE p == SubSeq(s, 1, n)
           q == SubSeq(s, 1, n + 1)
           r == Append(p, s[n + 1])
<1>1. Len(s) \in Nat /\ n \in 0 .. Len(s) /\ n + 1 \in 0 .. Len(s) /\ n + 1 \in 1 .. Len(s)
  BY LenProperties
<1>2. p \in Seq(T) /\ Len(p) = n /\ \A j \in 1 .. n : p[j] = s[j]
  BY <1>1, PrefixProperties
<1>3. q \in Seq(T) /\ Len(q) = n + 1 /\ \A j \in 1 .. n + 1 : q[j] = s[j]
  BY <1>1, PrefixProperties
<1>4. s[n + 1] \in T
  BY <1>1, ElementOfSeq
<1> HIDE DEF p, q
<1>5. r \in Seq(T) /\ Len(r) = n + 1 /\ (\A j \in 1 .. n : r[j] = p[j]) /\ r[n + 1] = s[n + 1]
  BY <1>2, <1>4, AppendProperties
<1> HIDE DEF r
<1>6. \A j \in 1 .. n + 1 : j \in 1 .. n \/ j = n + 1
  OBVIOUS
<1>7. \A j \in 1 .. n + 1 : q[j] = r[j]
  BY <1>2, <1>3, <1>5, <1>6
<1>8. q = r
  BY <1>3, <1>5, <1>7, SeqEqual
<1> QED  BY <1>8 DEF p, q, r

LEMMA PrefixInjective ==
    ASSUME NEW T, NEW s \in Seq(T), NEW n \in 0 .. Len(s), IsInjective(s)
    PROVE  IsInjective(SubSeq(s, 1, n))
<1>1. Len(s) \in Nat /\ DOMAIN s = 1 .. Len(s)
  BY LenProperties
<1>2. \A j \in 1 .. n : j \in DOMAIN s
  BY <1>1
<1> QED  BY <1>2, PrefixProperties DEF IsInjective

LEMMA SeqOfOne ==
    ASSUME NEW T, NEW s \in SeqOf(T, 1)
    PROVE  s \in Seq(T) /\ IsInjective(s)
<1>1. PICK m \in 0 .. 1 : s \in [1 .. m -> T]
  BY DEF SeqOf
<1>2. s \in Seq(T)
  BY <1>1, SeqDef
<1>3. \A i, j \in 1 .. m : i = j
  BY <1>1
<1> QED  BY <1>1, <1>2, <1>3 DEF IsInjective

(* Two hops in a row. *)
LEMMA ConcatOne ==
    ASSUME NEW x, NEW y
    PROVE  <<x>> \o <<y>> = <<x, y>>
<1> DEFINE T == {x, y}
           c == <<x>> \o <<y>>
<1>1. <<x>> \in Seq(T) /\ <<y>> \in Seq(T) /\ <<x, y>> \in Seq(T) /\ Len(<<x>>) = 1 /\ Len(<<y>>) = 1
  OBVIOUS
<1>2. /\ c \in Seq(T) /\ Len(c) = 1 + 1
      /\ \A i \in 1 .. 1 + 1 : c[i] = IF i <= 1 THEN <<x>>[i] ELSE <<y>>[i - 1]
  <2> HIDE DEF T
  <2> QED  BY <1>1, ConcatProperties
<1> HIDE DEF T, c
<1>3. Len(c) = Len(<<x, y>>) /\ \A i \in 1 .. Len(c) : c[i] = <<x, y>>[i]
  BY <1>2
<1> QED  BY <1>1, <1>2, <1>3, SeqEqual DEF c

(* A third hop. *)
LEMMA ConcatTwo ==
    ASSUME NEW x, NEW y, NEW z
    PROVE  <<x, y>> \o <<z>> = <<x, y, z>>
<1> DEFINE T == {x, y, z}
           c == <<x, y>> \o <<z>>
<1>1. <<x, y>> \in Seq(T) /\ <<z>> \in Seq(T) /\ <<x, y, z>> \in Seq(T) /\ Len(<<x, y>>) = 2 /\ Len(<<z>>) = 1
  OBVIOUS
<1>2. /\ c \in Seq(T) /\ Len(c) = 2 + 1
      /\ \A i \in 1 .. 2 + 1 : c[i] = IF i <= 2 THEN <<x, y>>[i] ELSE <<z>>[i - 2]
  <2> HIDE DEF T
  <2> QED  BY <1>1, ConcatProperties
<1> HIDE DEF T, c
<1>3. Len(c) = Len(<<x, y, z>>) /\ \A i \in 1 .. Len(c) : c[i] = <<x, y, z>>[i]
  BY <1>2
<1> QED  BY <1>1, <1>2, <1>3, SeqEqual DEF c

(* Every nonempty set of numbers has a least element. *)
LEMMA LeastNat ==
    ASSUME NEW T, T \subseteq Nat, T # {}
    PROVE  \E n \in T : \A m \in T : n <= m
<1> DEFINE R == OpToRel(<, Nat)
<1>1. IsWellFoundedOn(R, Nat)
  BY NatLessThanWellFounded, Zenon
<1>2. \A x, y \in Nat : x < y <=> <<x, y>> \in R
  BY DEF OpToRel
<1> HIDE DEF R
<1>3. PICK n \in T : \A y \in T : ~(<<y, n>> \in R)
  BY <1>1, WFMin
<1>4. \A m \in T : ~(m < n)
  BY <1>2, <1>3
<1>5. n \in T /\ T \subseteq Nat
  OBVIOUS
<1>6. \A m \in T : n <= m
  BY <1>4, <1>5
<1> QED  BY <1>5, <1>6

-----------------------------------------------------------------------------
(* Least fixed points. *)

(* S is below T. *)
Below(S, T) == \A x \in DOMAIN S : S[x] \subseteq T[x]

(* F is a step of an iteration in the lattice [X -> SUBSET Y]: it only adds, and adds no less to more. *)
IsStep(F, X, Y) ==
    /\ F \in [[X -> SUBSET Y] -> [X -> SUBSET Y]]
    /\ \A S \in [X -> SUBSET Y] : Below(S, F[S])
    /\ \A S, T \in [X -> SUBSET Y] : Below(S, T) => Below(F[S], F[T])

(* The least fixed point above S. *)
Closure(F, X, Y, S) ==
    [x \in X |-> {y \in Y : \A T \in [X -> SUBSET Y] : F[T] = T /\ Below(S, T) => y \in T[x]}]

(* Sets that are below each other are equal. *)
LEMMA BelowAntisymmetric ==
    ASSUME NEW X, NEW Y, NEW S \in [X -> SUBSET Y], NEW T \in [X -> SUBSET Y],
           Below(S, T), Below(T, S)
    PROVE  S = T
BY DEF Below

(* The closure of S is a fixed point above S, below all others: by          *)
(* monotonicity a step of it is such a bound again.                         *)
LEMMA ClosureIsLeast ==
    ASSUME NEW X, NEW Y, NEW F, IsStep(F, X, Y), NEW S \in [X -> SUBSET Y]
    PROVE  LET C == Closure(F, X, Y, S)
           IN  /\ C \in [X -> SUBSET Y]
               /\ F[C] = C
               /\ Below(S, C)
               /\ \A T \in [X -> SUBSET Y] : F[T] = T /\ Below(S, T) => Below(C, T)
<1> DEFINE C == Closure(F, X, Y, S)
<1>1. C \in [X -> SUBSET Y]
  BY DEF Closure
<1>2. Below(S, C)
  BY DEF Closure, Below
<1>3. \A T \in [X -> SUBSET Y] : F[T] = T /\ Below(S, T) => Below(C, T)
  BY DEF Closure, Below
<1>4. F[C] \in [X -> SUBSET Y] /\ Below(C, F[C])
  BY <1>1 DEF IsStep
<1>5. ASSUME NEW x \in X, NEW y \in F[C][x]
      PROVE  y \in C[x]
  <2>1. ASSUME NEW T \in [X -> SUBSET Y], F[T] = T, Below(S, T)
        PROVE  y \in T[x]
    <3>1. Below(F[C], F[T])
      BY <1>1, <1>3, <2>1 DEF IsStep
    <3>2. F[C][x] \subseteq F[T][x]
      BY <3>1, <1>4 DEF Below
    <3> QED  BY <3>2, <2>1, <1>5
  <2>2. y \in Y
    BY <1>4
  <2> QED  BY <2>1, <2>2 DEF Closure
<1>6. Below(F[C], C)
  BY <1>4, <1>5 DEF Below
<1> HIDE DEF C
<1>7. F[C] = C
  BY <1>1, <1>4, <1>6, BelowAntisymmetric
<1> QED  BY <1>1, <1>2, <1>3, <1>7 DEF C

(* The pairs that are not in S. *)
Outside(X, Y, S) == {p \in X \X Y : p[2] \notin S[p[1]]}

(* Iteration ends in the least fixed point. *)
LEMMA LeastFixedPointIsClosure ==
    ASSUME NEW X, NEW Y, IsFiniteSet(X), IsFiniteSet(Y), NEW F, IsStep(F, X, Y),
           NEW b \in [X -> SUBSET Y]
    PROVE  LeastFixedPoint(F, b) = Closure(F, X, Y, b)
<1> DEFINE Space == [X -> SUBSET Y]
           lfp[S \in DOMAIN F] == LET T == F[S] IN IF T = S THEN S ELSE lfp[T]
           g == [S \in Space |-> Closure(F, X, Y, S)]
<1>1. lfp = CHOOSE f : f = [S \in DOMAIN F |-> LET T == F[S] IN IF T = S THEN S ELSE f[T]]
  BY DEF lfp
<1>2. LeastFixedPoint(F, b) = lfp[b]
  BY DEF LeastFixedPoint
<1> HIDE DEF lfp
<1>3. DOMAIN F = Space /\ \A S \in Space : F[S] \in Space
  BY DEF IsStep
<1>4. ASSUME NEW S \in Space
      PROVE  g[S] = IF F[S] = S THEN S ELSE g[F[S]]
  <2> DEFINE C == Closure(F, X, Y, S)
             D == Closure(F, X, Y, F[S])
  <2>1. /\ C \in Space /\ F[C] = C /\ Below(S, C)
        /\ \A T \in Space : F[T] = T /\ Below(S, T) => Below(C, T)
    BY ClosureIsLeast
  <2>2. /\ D \in Space /\ F[D] = D /\ Below(F[S], D)
        /\ \A T \in Space : F[T] = T /\ Below(F[S], T) => Below(D, T)
    BY <1>3, ClosureIsLeast
  <2>3. g[S] = C /\ g[F[S]] = D
    BY <1>3
  <2> HIDE DEF C, D
  <2>4. CASE F[S] = S
    <3>1. Below(S, S)
      BY DEF Below
    <3>2. Below(C, S)
      BY <2>1, <2>4, <3>1
    <3>3. C = S
      BY <2>1, <3>2, BelowAntisymmetric
    <3> QED  BY <2>3, <2>4, <3>3
  <2>5. CASE F[S] # S
    <3>1. Below(F[S], F[C])
      BY <2>1 DEF IsStep
    <3>2. Below(D, C)
      BY <2>1, <2>2, <3>1
    <3>3. Below(S, F[S])
      BY DEF IsStep
    <3>4. Below(S, D)
      BY <1>3, <2>2, <3>3 DEF Below
    <3>5. Below(C, D)
      BY <2>1, <2>2, <3>4
    <3>6. C = D
      BY <2>1, <2>2, <3>2, <3>5, BelowAntisymmetric
    <3> QED  BY <2>3, <2>5, <3>6
  <2> QED  BY <2>4, <2>5
<1>5. g = [S \in DOMAIN F |-> LET T == F[S] IN IF T = S THEN S ELSE g[T]]
  BY <1>3, <1>4
<1>6. lfp = [S \in DOMAIN F |-> LET T == F[S] IN IF T = S THEN S ELSE lfp[T]]
  BY <1>1, <1>5
<1>7. \A S \in Space : lfp[S] = IF F[S] = S THEN S ELSE lfp[F[S]]
  BY <1>3, <1>6
<1> HIDE DEF g
<1> DEFINE Wrong == {S \in Space : lfp[S] # g[S]}
           R == StrictSubsetOrdering(X \X Y)
           Rest == {Outside(X, Y, S) : S \in Wrong}
<1>8. Wrong = {}
  <2> SUFFICES ASSUME Wrong # {}
               PROVE  FALSE
    OBVIOUS
  <2>1. IsFiniteSet(X \X Y)
    BY FS_Product
  <2>2. IsWellFoundedOn(R, FiniteSubsetsOf(X \X Y))
    BY FS_StrictSubsetOrderingWellFounded
  <2>3. FiniteSubsetsOf(X \X Y) = SUBSET (X \X Y)
    BY <2>1, FS_FiniteSubsetsOfFinite
  <2>4. Rest \subseteq SUBSET (X \X Y) /\ Rest # {}
    <3>1. \A S : Outside(X, Y, S) \in SUBSET (X \X Y)
      BY DEF Outside
    <3>2. PICK S : S \in Wrong
      OBVIOUS
    <3>3. Outside(X, Y, S) \in Rest
      BY <3>2
    <3> QED  BY <3>1, <3>3
  <2>5. PICK A \in Rest : \A B \in Rest : ~(<<B, A>> \in R)
    <3> HIDE DEF R, Rest
    <3>1. IsWellFoundedOn(R, SUBSET (X \X Y))
      BY <2>2, <2>3
    <3> QED  BY <2>4, <3>1, WFMin
  <2>6. PICK S \in Wrong : A = Outside(X, Y, S)
    OBVIOUS
  <2>7. S \in Space /\ F[S] # S /\ F[S] \in Wrong
    BY <1>3, <1>4, <1>7
  <2>8. Outside(X, Y, F[S]) \in Rest
    BY <2>7
  <2>9. Below(S, F[S]) /\ ~Below(F[S], S) /\ F[S] \in Space
    BY <1>3, <2>7, BelowAntisymmetric DEF IsStep
  <2>10. Outside(X, Y, F[S]) \subseteq Outside(X, Y, S)
    BY <2>7, <2>9 DEF Outside, Below
  <2>11. PICK x \in X : ~(F[S][x] \subseteq S[x])
    BY <2>9 DEF Below
  <2>12. PICK y \in Y : y \in F[S][x] /\ y \notin S[x]
    BY <2>9, <2>11
  <2>13. <<x, y>> \in Outside(X, Y, S) /\ <<x, y>> \notin Outside(X, Y, F[S])
    BY <2>12 DEF Outside
  <2>14. Outside(X, Y, F[S]) # Outside(X, Y, S)
    BY <2>13
  <2>15. <<Outside(X, Y, F[S]), Outside(X, Y, S)>> \in R
    BY <2>10, <2>14 DEF StrictSubsetOrdering, Outside
  <2> QED  BY <2>5, <2>6, <2>8, <2>15
<1>9. lfp[b] = g[b]
  BY <1>8
<1> QED  BY <1>2, <1>9 DEF g

(* The least fixed point is one, and below everything that is closed under  *)
(* the step and above the bottom.                                           *)
LEMMA LeastFixedPointIsLeast ==
    ASSUME NEW X, NEW Y, IsFiniteSet(X), IsFiniteSet(Y), NEW F, IsStep(F, X, Y),
           NEW b \in [X -> SUBSET Y]
    PROVE  LET L == LeastFixedPoint(F, b)
           IN  /\ L \in [X -> SUBSET Y]
               /\ F[L] = L
               /\ Below(b, L)
               /\ \A T \in [X -> SUBSET Y] : Below(F[T], T) /\ Below(b, T) => Below(L, T)
<1>1. ASSUME NEW T \in [X -> SUBSET Y], Below(F[T], T)
      PROVE  F[T] = T
  BY <1>1, BelowAntisymmetric DEF IsStep
<1> QED  BY <1>1, ClosureIsLeast, LeastFixedPointIsClosure
=============================================================================
