----------------------------- MODULE DataLemmas -----------------------------
(***************************************************************************)
(* Facts on the data of the models: products and quotients, induction and  *)
(* iteration, for the loops of the code, and the operators of SequencesExt *)
(* and FiniteSetsExt that stand for its lists.                             *)
(***************************************************************************)
EXTENDS Integers, SequencesExt, Selection, SequenceTheorems, FiniteSetTheorems, WellFoundedInduction, TLAPS

(* Every nonempty set of natural numbers has a least element. *)
LEMMA LeastNatural ==
  ASSUME NEW S \in SUBSET Nat, S # {}
  PROVE  \E n \in S : \A m \in S : n <= m
<1>1. \E x \in S : \A y \in S : ~(<<y, x>> \in OpToRel(<, Nat))
  BY NatLessThanWellFounded, WFMin
<1>2. \A x, y \in Nat : <<y, x>> \in OpToRel(<, Nat) <=> y < x
  <2> TAKE x, y \in Nat
  <2>1. <<y, x>> \in Nat \X Nat /\ <<y, x>>[1] = y /\ <<y, x>>[2] = x OBVIOUS
  <2> QED BY <2>1, Zenon DEF OpToRel
<1>3. PICK x \in S : \A y \in S : ~(<<y, x>> \in OpToRel(<, Nat)) BY <1>1
<1>4. \A y \in S : ~(y < x) BY <1>2, <1>3
<1> QED BY <1>4

(* Induction: a set that has 0, and n + 1 with each n, has every number. *)
LEMMA InductionOnNat ==
  ASSUME NEW S, 0 \in S, \A n \in Nat : n \in S => n + 1 \in S
  PROVE Nat \subseteq S
<1> SUFFICES ASSUME Nat \ S # {} PROVE FALSE OBVIOUS
<1>1. PICK n \in Nat \ S : \A m \in Nat \ S : n <= m BY LeastNatural
<1>2. n # 0 /\ n - 1 \in Nat BY <1>1
<1>3. n - 1 \in S BY <1>1, <1>2
<1> QED BY <1>1, <1>2, <1>3

(* What a loop of N turns leaves after each, from a. *)
Iterates(f, N, T, a, Turn) ==
  /\ f \in [0..N -> T] /\ f[0] = a
  /\ \A k \in 0..(N - 1) : f[k + 1] = Turn[<<f[k], k>>]

LEMMA IterationExists ==
  ASSUME NEW N \in Nat, NEW T, NEW a \in T, NEW Turn \in [T \X Nat -> T]
  PROVE  \E f : Iterates(f, N, T, a, Turn)
<1> DEFINE Is(f, n) == f[0] = a /\ \A k \in 1..n : f[k] = Turn[<<f[k - 1], k - 1>>]
           S == {n \in Nat : \E f \in [0..n -> T] : Is(f, n)}
<1>1. 0 \in S
  <2>1. [k \in 0..0 |-> a] \in [0..0 -> T] /\ Is([k \in 0..0 |-> a], 0) OBVIOUS
  <2> HIDE DEF Is
  <2> QED BY <2>1
<1>2. ASSUME NEW n \in Nat, n \in S PROVE n + 1 \in S
  <2>1. PICK f \in [0..n -> T] : Is(f, n) BY <1>2
  <2> DEFINE g == [k \in 0..(n + 1) |-> IF k \in 0..n THEN f[k] ELSE Turn[<<f[n], n>>]]
  <2>2. g \in [0..(n + 1) -> T]
    <3>1. <<f[n], n>> \in T \X Nat OBVIOUS
    <3>2. Turn[<<f[n], n>>] \in T BY <3>1
    <3> QED BY <3>2
  <2>3. g[0] = a BY <2>1
  <2>4. ASSUME NEW k \in 1..(n + 1) PROVE g[k] = Turn[<<g[k - 1], k - 1>>]
    <3>1. CASE k \in 1..n
      <4>1. g[k] = f[k] /\ g[k - 1] = f[k - 1] BY <3>1
      <4> QED BY <4>1, <3>1, <2>1
    <3>2. CASE k = n + 1
      <4>1. g[k] = Turn[<<f[n], n>>] /\ g[k - 1] = f[n] /\ k - 1 = n BY <3>2
      <4> HIDE DEF g
      <4> QED BY <4>1
    <3> QED BY <3>1, <3>2
  <2> HIDE DEF g
  <2>5. \E h \in [0..(n + 1) -> T] : Is(h, n + 1) BY <2>2, <2>3, <2>4
  <2> HIDE DEF Is
  <2> QED BY <2>5
<1> HIDE DEF S
<1>3. PICK f \in [0..N -> T] : Is(f, N) BY <1>1, <1>2, InductionOnNat DEF S
<1>4. ASSUME NEW k \in 0..(N - 1) PROVE f[k + 1] = Turn[<<f[k], k>>]
  <2>1. k + 1 \in 1..N /\ (k + 1) - 1 = k OBVIOUS
  <2> QED BY <1>3, <2>1
<1> QED BY <1>3, <1>4 DEF Iterates

(* The values a function takes on a finite set. *)
LEMMA ImageFinite ==
  ASSUME NEW f, NEW S, IsFiniteSet(S)
  PROVE  /\ IsFiniteSet({f[x] : x \in S})
         /\ Cardinality({f[x] : x \in S}) \in Nat
         /\ Cardinality({f[x] : x \in S}) <= Cardinality(S)
         /\ (\A x, y \in S : f[x] = f[y] => x = y)
              => Cardinality({f[x] : x \in S}) = Cardinality(S)
<1> DEFINE T == {f[x] : x \in S}
           g == [x \in S |-> f[x]]
<1>1. g \in Surjection(S, T) BY DEF Surjection
<1>2. ASSUME \A x, y \in S : f[x] = f[y] => x = y PROVE g \in Injection(S, T)
  BY <1>2 DEF Injection, IsInjective
<1> HIDE DEF g, T
<1>3. IsFiniteSet(T) /\ Cardinality(T) <= Cardinality(S)
  BY <1>1, FS_Surjection
<1>4. g \in Injection(S, T) => Cardinality(T) = Cardinality(S)
  BY <1>1, FS_Surjection
<1> QED BY <1>2, <1>3, <1>4, FS_CardinalityType DEF T

-----------------------------------------------------------------------------
(* A nonempty set of natural numbers has a minimum. *)
LEMMA MinInSet ==
  ASSUME NEW S \in SUBSET Nat, S # {}
  PROVE  Min(S) \in S /\ \A x \in S : Min(S) <= x
BY LeastNatural DEF Min

(* Removing one element leaves a sequence with no new element. *)
LEMMA RemoveAtType ==
  ASSUME NEW T, NEW q \in Seq(T), NEW i \in 1..Len(q)
  PROVE  /\ RemoveAt(q, i) \in Seq(T)
         /\ ToSet(RemoveAt(q, i)) \subseteq ToSet(q)
<1> DEFINE p == SubSeq(q, 1, i - 1)
           r == SubSeq(q, i + 1, Len(q))
<1>1. i \in 1..Len(q) /\ Len(q) \in Nat OBVIOUS
<1>2. p \in Seq(T) /\ Len(p) = i - 1 /\ \A j \in 1..Len(p) : p[j] = q[j]
  BY <1>1
<1>3. r \in Seq(T) /\ Len(r) = Len(q) - i /\ \A j \in 1..Len(r) : r[j] = q[i + j]
  BY <1>1
<1>4. RemoveAt(q, i) = p \o r BY DEF RemoveAt
<1> HIDE DEF p, r
<1>5. p \o r \in Seq(T) /\ Len(p \o r) = Len(p) + Len(r)
  BY <1>2, <1>3, ConcatProperties
<1>6. ASSUME NEW j \in 1..Len(p \o r)
      PROVE  \E k \in 1..Len(q) : (p \o r)[j] = q[k]
  <2>1. CASE j <= Len(p)
    <3>1. (p \o r)[j] = p[j] BY <1>2, <1>3, <1>5, <2>1
    <3> QED BY <1>1, <1>2, <1>5, <2>1, <3>1
  <2>2. CASE j > Len(p)
    <3>1. (p \o r)[j] = r[j - Len(p)] BY <1>2, <1>3, <1>5, <2>2
    <3>2. r[j - Len(p)] = q[i + (j - Len(p))] BY SMTT(30), <1>2, <1>3, <1>5, <2>2
    <3>3. i + (j - Len(p)) \in 1..Len(q) BY <1>1, <1>2, <1>3, <1>5, <2>2
    <3> QED BY <3>1, <3>2, <3>3
  <2> QED BY <1>2, <2>1, <2>2
<1>7. DOMAIN (p \o r) = 1..Len(p \o r) /\ DOMAIN q = 1..Len(q) BY <1>5
<1>8. ToSet(p \o r) \subseteq ToSet(q)
  <2> SUFFICES ASSUME NEW j \in 1..Len(p \o r) PROVE (p \o r)[j] \in ToSet(q)
    BY <1>7 DEF ToSet
  <2>1. PICK k \in 1..Len(q) : (p \o r)[j] = q[k] BY <1>6
  <2> QED BY <1>7, <2>1 DEF ToSet
<1> QED BY <1>4, <1>5, <1>8

LEMMA RemoveFirstType ==
  ASSUME NEW T, NEW q \in Seq(T), NEW e
  PROVE  /\ RemoveFirst(q, e) \in Seq(T)
         /\ ToSet(RemoveFirst(q, e)) \subseteq ToSet(q)
<1>1. CASE ~\E i \in 1..Len(q) : q[i] = e BY <1>1 DEF RemoveFirst
<1>2. CASE \E i \in 1..Len(q) : q[i] = e
  <2>1. SelectInSeq(q, LAMBDA v : v = e) \in 1..Len(q)
    <3> DEFINE I == {i \in 1..Len(q) : q[i] = e}
    <3>1. I \in SUBSET Nat /\ I # {} BY <1>2
    <3>2. SelectInSeq(q, LAMBDA v : v = e) = Min(I) BY <1>2 DEF SelectInSeq
    <3> HIDE DEF I
    <3>3. Min(I) \in I BY <3>1, MinInSet
    <3> QED BY <3>2, <3>3 DEF I
  <2>2. RemoveFirst(q, e) = RemoveAt(q, SelectInSeq(q, LAMBDA v : v = e))
    BY <1>2 DEF RemoveFirst
  <2> QED BY <2>1, <2>2, RemoveAtType
<1> QED BY <1>1, <1>2

(* What the two ends of a queue do to its elements. *)
LEMMA AppendElements ==
  ASSUME NEW T, NEW q \in Seq(T), NEW e \in T
  PROVE  ToSet(Append(q, e)) = ToSet(q) \cup {e}
<1> DEFINE p == Append(q, e)
<1>1. /\ DOMAIN q = 1..Len(q) /\ DOMAIN p = 1..(Len(q) + 1) /\ Len(q) \in Nat
      /\ \A i \in 1..Len(q) : p[i] = q[i]
      /\ p[Len(q) + 1] = e
  BY AppendProperties
<1> HIDE DEF p
<1>2. ToSet(p) \subseteq ToSet(q) \cup {e} BY <1>1 DEF ToSet
<1>3. ToSet(q) \cup {e} \subseteq ToSet(p) BY <1>1 DEF ToSet
<1> QED BY <1>2, <1>3 DEF p

LEMMA TailElements ==
  ASSUME NEW T, NEW q \in Seq(T), q # <<>>
  PROVE  /\ ToSet(q) = {Head(q)} \cup ToSet(Tail(q))
         /\ Head(q) \in T /\ Tail(q) \in Seq(T)
<1> DEFINE h == Head(q)
           t == Tail(q)
<1>1. /\ Head(q) \in T /\ Tail(q) \in Seq(T) /\ Len(t) = Len(q) - 1
      /\ Len(q) \in Nat /\ Len(q) > 0 /\ h = q[1]
  BY HeadTailProperties, EmptySeq
<1>2. \A i \in 1..Len(t) : t[i] = q[i + 1] BY HeadTailProperties
<1>3. DOMAIN q = 1..Len(q) /\ DOMAIN t = 1..Len(t) BY <1>1
<1> HIDE DEF h, t
<1>4. {h} \cup ToSet(t) \subseteq ToSet(q) BY <1>1, <1>2, <1>3 DEF ToSet
<1>5. ToSet(q) \subseteq {h} \cup ToSet(t)
  <2> SUFFICES ASSUME NEW i \in 1..Len(q), q[i] # h PROVE q[i] \in ToSet(t)
    BY <1>3 DEF ToSet
  <2>1. i - 1 \in 1..Len(t) /\ t[i - 1] = q[i] BY <1>1, <1>2
  <2> QED BY <1>3, <2>1 DEF ToSet
<1> QED BY <1>1, <1>4, <1>5 DEF h, t

(* Cutting the front off a sequence keeps what lies behind. *)
LEMMA SuffixElements ==
  ASSUME NEW T, NEW q \in Seq(T), NEW m \in 1..(Len(q) + 1)
  PROVE  LET p == SubSeq(q, m, Len(q))
         IN  /\ p \in Seq(T)
             /\ ToSet(p) = {q[i] : i \in m..Len(q)}
<1> DEFINE p == SubSeq(q, m, Len(q))
<1>1. /\ p \in Seq(T) /\ Len(p) = Len(q) - m + 1 /\ Len(q) \in Nat
      /\ \A i \in 1..Len(p) : p[i] = q[m + i - 1]
  BY SubSeqProperties
<1>2. DOMAIN p = 1..Len(p) BY <1>1
<1> HIDE DEF p
<1>3. ToSet(p) \subseteq {q[i] : i \in m..Len(q)}
  <2> SUFFICES ASSUME NEW i \in 1..Len(p) PROVE p[i] \in {q[j] : j \in m..Len(q)}
    BY <1>2 DEF ToSet
  <2>1. m + i - 1 \in m..Len(q) BY <1>1
  <2> QED BY <1>1, <2>1
<1>4. {q[i] : i \in m..Len(q)} \subseteq ToSet(p)
  <2> SUFFICES ASSUME NEW j \in m..Len(q) PROVE q[j] \in ToSet(p) OBVIOUS
  <2>1. j - m + 1 \in 1..Len(p) /\ p[j - m + 1] = q[j] BY <1>1
  <2> QED BY <1>2, <2>1 DEF ToSet
<1> QED BY <1>1, <1>3, <1>4 DEF p

(* Where the elements go when one is taken out. *)
LEMMA RemoveAtIndex ==
  ASSUME NEW T, NEW q \in Seq(T), NEW i \in 1..Len(q)
  PROVE  LET p == RemoveAt(q, i)
         IN  /\ p \in Seq(T) /\ Len(p) = Len(q) - 1
             /\ \A j \in 1..Len(p) : p[j] = IF j < i THEN q[j] ELSE q[j + 1]
<1> DEFINE p == SubSeq(q, 1, i - 1)
           r == SubSeq(q, i + 1, Len(q))
<1>1. i \in 1..Len(q) /\ Len(q) \in Nat OBVIOUS
<1>2. p \in Seq(T) /\ Len(p) = i - 1 /\ \A j \in 1..Len(p) : p[j] = q[j]
  BY <1>1
<1>3. r \in Seq(T) /\ Len(r) = Len(q) - i /\ \A j \in 1..Len(r) : r[j] = q[i + j]
  BY <1>1
<1>4. RemoveAt(q, i) = p \o r BY DEF RemoveAt
<1> HIDE DEF p, r
<1>5. p \o r \in Seq(T) /\ Len(p \o r) = Len(p) + Len(r)
  BY <1>2, <1>3, ConcatProperties
<1>7. Len(p \o r) = Len(q) - 1 BY <1>1, <1>2, <1>3, <1>5
<1>6. ASSUME NEW j \in 1..(Len(q) - 1)
      PROVE  (p \o r)[j] = IF j < i THEN q[j] ELSE q[j + 1]
  <2>1. CASE j < i
    <3>1. (p \o r)[j] = p[j] BY <1>1, <1>2, <1>3, <2>1
    <3>2. p[j] = q[j] BY <1>1, <1>2, <2>1
    <3> QED BY <2>1, <3>1, <3>2
  <2>2. CASE j >= i
    <3>1. j - Len(p) \in 1..Len(r) /\ i + (j - Len(p)) = j + 1 BY <1>1, <1>2, <1>3, <2>2
    <3>2. j \in 1..(Len(p) + Len(r)) /\ j > Len(p) BY <1>1, <1>2, <1>3, <2>2
    <3>3. (p \o r)[j] = r[j - Len(p)] BY <1>2, <1>3, <3>2
    <3>4. r[j - Len(p)] = q[i + (j - Len(p))] BY <1>3, <3>1
    <3>5. ~(j < i) BY <1>1, <2>2
    <3> QED BY <3>1, <3>3, <3>4, <3>5
  <2>3. (j < i) \/ (j >= i) BY <1>1
  <2> QED BY <2>1, <2>2, <2>3
<1> QED BY <1>4, <1>5, <1>6, <1>7

LEMMA RemoveAtElements ==
  ASSUME NEW T, NEW q \in Seq(T), NEW i \in 1..Len(q), IsInjective(q)
  PROVE  /\ ToSet(RemoveAt(q, i)) = ToSet(q) \ {q[i]}
         /\ IsInjective(RemoveAt(q, i))
<1> DEFINE p == RemoveAt(q, i)
<1>1. /\ Len(p) = Len(q) - 1 /\ Len(q) \in Nat /\ DOMAIN p = 1..Len(p) /\ DOMAIN q = 1..Len(q)
      /\ \A j \in 1..Len(p) : p[j] = IF j < i THEN q[j] ELSE q[j + 1]
  BY RemoveAtIndex
<1> HIDE DEF p
<1>2. \A j, k \in 1..Len(q) : q[j] = q[k] => j = k BY <1>1 DEF IsInjective
<1>3. ASSUME NEW j \in 1..Len(p)
      PROVE  /\ IF j < i THEN j \in 1..Len(q) /\ j # i ELSE j + 1 \in 1..Len(q) /\ j + 1 # i
             /\ p[j] = IF j < i THEN q[j] ELSE q[j + 1]
  BY <1>1
<1>4. IsInjective(p)
  <2> SUFFICES ASSUME NEW j \in 1..Len(p), NEW k \in 1..Len(p), p[j] = p[k] PROVE j = k
    BY <1>1 DEF IsInjective
  <2>1. CASE j < i /\ k < i BY <1>2, <1>3, <2>1
  <2>2. CASE j < i /\ ~(k < i)
    <3>1. j = k + 1 BY <1>2, <1>3, <2>2
    <3> QED BY <1>1, <2>2, <3>1
  <2>3. CASE ~(j < i) /\ k < i
    <3>1. k = j + 1 BY <1>2, <1>3, <2>3
    <3> QED BY <1>1, <2>3, <3>1
  <2>4. CASE ~(j < i) /\ ~(k < i)
    <3>1. j + 1 = k + 1 BY <1>2, <1>3, <2>4
    <3> QED BY <3>1
  <2> QED BY <2>1, <2>2, <2>3, <2>4
<1>5. ToSet(p) \subseteq ToSet(q) \ {q[i]}
  <2> SUFFICES ASSUME NEW j \in 1..Len(p) PROVE p[j] \in ToSet(q) \ {q[i]}
    BY <1>1 DEF ToSet
  <2>1. PICK k \in 1..Len(q) : k # i /\ p[j] = q[k] BY <1>3
  <2> QED BY <1>1, <1>2, <2>1 DEF ToSet
<1>6. ToSet(q) \ {q[i]} \subseteq ToSet(p)
  <2> SUFFICES ASSUME NEW j \in 1..Len(q), j # i PROVE q[j] \in ToSet(p)
    BY <1>1 DEF ToSet
  <2>1. CASE j < i
    <3>1. j \in 1..Len(p) /\ p[j] = q[j] BY <1>1, <2>1
    <3> QED BY <1>1, <3>1 DEF ToSet
  <2>2. CASE j > i
    <3>1. j - 1 \in 1..Len(p) /\ p[j - 1] = q[j] BY <1>1, <2>2
    <3> QED BY <1>1, <3>1 DEF ToSet
  <2> QED BY <2>1, <2>2
<1> QED BY <1>4, <1>5, <1>6 DEF p

(* Without repetitions, taking the first e out takes e out. *)
LEMMA RemoveFirstElements ==
  ASSUME NEW T, NEW q \in Seq(T), NEW e, IsInjective(q)
  PROVE  /\ ToSet(RemoveFirst(q, e)) = ToSet(q) \ {e}
         /\ IsInjective(RemoveFirst(q, e))
<1>0. DOMAIN q = 1..Len(q) OBVIOUS
<1>1. CASE ~\E i \in 1..Len(q) : q[i] = e
  <2>1. RemoveFirst(q, e) = q BY <1>1 DEF RemoveFirst
  <2>2. e \notin ToSet(q) BY <1>0, <1>1 DEF ToSet
  <2> QED BY <2>1, <2>2
<1>2. CASE \E i \in 1..Len(q) : q[i] = e
  <2> DEFINE m == SelectInSeq(q, LAMBDA v : v = e)
  <2>1. m \in 1..Len(q) /\ q[m] = e
    <3> DEFINE I == {i \in 1..Len(q) : q[i] = e}
    <3>1. I \in SUBSET Nat /\ I # {} BY <1>2
    <3>2. m = Min(I) BY <1>2 DEF SelectInSeq
    <3> HIDE DEF I, m
    <3>3. Min(I) \in I BY <3>1, MinInSet
    <3> QED BY <3>2, <3>3 DEF I
  <2>2. RemoveFirst(q, e) = RemoveAt(q, m) BY <1>2 DEF RemoveFirst
  <2> HIDE DEF m
  <2> QED BY <2>1, <2>2, RemoveAtElements
<1> QED BY <1>1, <1>2

(* What a new front does to the elements. *)
LEMMA PrependElements ==
  ASSUME NEW T, NEW q \in Seq(T), NEW e \in T
  PROVE  /\ ToSet(<<e>> \o q) = ToSet(q) \cup {e}
         /\ IsInjective(q) /\ e \notin ToSet(q) => IsInjective(<<e>> \o q)
<1> DEFINE p == <<e>> \o q
<1>1. /\ DOMAIN q = 1..Len(q) /\ DOMAIN p = 1..(Len(q) + 1) /\ Len(q) \in Nat
      /\ p[1] = e /\ \A i \in 1..Len(q) : p[i + 1] = q[i]
  OBVIOUS
<1> HIDE DEF p
<1>2. \A j \in 1..(Len(q) + 1) : j = 1 \/ (j - 1 \in 1..Len(q) /\ p[j] = q[j - 1]) BY <1>1
<1>3. ToSet(p) \subseteq ToSet(q) \cup {e} BY <1>1, <1>2 DEF ToSet
<1>4. ToSet(q) \cup {e} \subseteq ToSet(p)
  <2>1. e \in ToSet(p) BY <1>1 DEF ToSet
  <2>2. \A i \in 1..Len(q) : i + 1 \in DOMAIN p BY <1>1
  <2> QED BY <1>1, <2>1, <2>2 DEF ToSet
<1>5. ASSUME IsInjective(q), e \notin ToSet(q) PROVE IsInjective(p)
  <2> SUFFICES ASSUME NEW j \in 1..(Len(q) + 1), NEW k \in 1..(Len(q) + 1), p[j] = p[k]
               PROVE  j = k
    BY <1>1 DEF IsInjective
  <2>1. \A i \in 1..Len(q) : q[i] # e BY <1>1, <1>5 DEF ToSet
  <2>2. CASE j = 1 \/ k = 1 BY <1>1, <1>2, <2>1, <2>2
  <2>3. CASE j # 1 /\ k # 1
    <3>1. q[j - 1] = q[k - 1] /\ j - 1 \in 1..Len(q) /\ k - 1 \in 1..Len(q) BY <1>2, <2>3
    <3>2. j - 1 = k - 1 BY <1>1, <1>5, <3>1 DEF IsInjective
    <3> QED BY <3>2
  <2> QED BY <2>2, <2>3
<1> QED BY <1>3, <1>4, <1>5 DEF p

(* A list without repetitions, at both ends. *)
LEMMA AppendKeepsInjective ==
  ASSUME NEW T, NEW q \in Seq(T), NEW e \in T, IsInjective(q), e \notin ToSet(q)
  PROVE  IsInjective(Append(q, e))
<1> DEFINE p == Append(q, e)
<1>1. /\ DOMAIN q = 1..Len(q) /\ DOMAIN p = 1..(Len(q) + 1) /\ Len(q) \in Nat
      /\ \A i \in 1..Len(q) : p[i] = q[i]
      /\ p[Len(q) + 1] = e
  BY AppendProperties
<1>2. \A i \in 1..Len(q) : q[i] # e BY <1>1 DEF ToSet
<1> HIDE DEF p
<1>3. ASSUME NEW i \in 1..(Len(q) + 1), NEW j \in 1..(Len(q) + 1), p[i] = p[j]
      PROVE  i = j
  <2>1. CASE i \in 1..Len(q) /\ j \in 1..Len(q) BY <1>1, <1>3, <2>1 DEF IsInjective
  <2>2. CASE i = Len(q) + 1 \/ j = Len(q) + 1
    <3>1. ASSUME NEW k \in 1..(Len(q) + 1), p[k] = e PROVE k = Len(q) + 1
      BY <1>1, <1>2, <3>1
    <3> QED BY <1>1, <1>3, <2>2, <3>1
  <2> QED BY <1>1, <2>1, <2>2
<1>4. IsInjective(p) BY <1>1, <1>3 DEF IsInjective
<1> QED BY <1>4 DEF p

LEMMA TailKeepsInjective ==
  ASSUME NEW T, NEW q \in Seq(T), q # <<>>, IsInjective(q)
  PROVE  IsInjective(Tail(q)) /\ Head(q) \notin ToSet(Tail(q))
<1> DEFINE t == Tail(q)
<1>1. /\ t \in Seq(T) /\ Len(t) = Len(q) - 1 /\ Len(q) \in Nat /\ Len(q) > 0 /\ Head(q) = q[1]
      /\ \A i \in 1..Len(t) : t[i] = q[i + 1]
  BY HeadTailProperties, EmptySeq
<1>2. DOMAIN t = 1..Len(t) /\ DOMAIN q = 1..Len(q) BY <1>1
<1> HIDE DEF t
<1>3. IsInjective(t) BY SMTT(30), <1>1, <1>2 DEF IsInjective
<1>4. q[1] \notin ToSet(t) BY SMTT(30), <1>1, <1>2 DEF IsInjective, ToSet
<1> QED BY <1>1, <1>3, <1>4 DEF t

(* A nonempty set of numbers up to N has a greatest. *)
LEMMA MaxInSet ==
  ASSUME NEW N \in Nat, NEW S \in SUBSET (1..N), S # {}
  PROVE  Max(S) \in S /\ \A x \in S : x <= Max(S)
<1> DEFINE R == {N - x : x \in S}
<1>0. \A x \in S : x \in Nat /\ x <= N OBVIOUS
<1>1. R \in SUBSET Nat /\ R # {}
  <2>1. \A x \in S : N - x \in Nat BY <1>0
  <2>2. R # {} OBVIOUS
  <2> QED BY <2>1, <2>2
<1>2. PICK r \in R : \A y \in R : r <= y BY <1>1, LeastNatural
<1>3. PICK m \in S : r = N - m BY <1>2
<1>4. \A x \in S : m >= x
  <2> TAKE x \in S
  <2>1. N - x \in R OBVIOUS
  <2>2. N - m <= N - x BY <1>2, <1>3, <2>1
  <2>3. m \in Nat /\ x \in Nat OBVIOUS
  <2> QED BY <2>2, <2>3
<1>5. \E x \in S : \A y \in S : x >= y BY <1>4
<1>6. Max(S) \in S /\ \A y \in S : Max(S) >= y BY <1>5, Zenon DEF Max
<1> QED BY <1>0, <1>6

(* The numbers that a list of them has are bounded. *)
LEMMA BoundExists ==
  ASSUME NEW N \in Nat, NEW f \in [1..N -> Nat]
  PROVE  \E b \in Nat : \A i \in 1..N : f[i] <= b
<1> DEFINE Bounded(n) == \E b \in Nat : \A i \in 1..n : f[i] <= b
           S == {n \in Nat : n <= N => Bounded(n)}
<1>1. Bounded(0) OBVIOUS
<1>2. ASSUME NEW n \in Nat, n + 1 <= N, Bounded(n) PROVE Bounded(n + 1)
  <2>1. PICK b \in Nat : \A i \in 1..n : f[i] <= b BY <1>2
  <2> DEFINE c == IF f[n + 1] > b THEN f[n + 1] ELSE b
  <2>2. c \in Nat /\ b <= c /\ f[n + 1] <= c
    <3>1. f[n + 1] \in Nat BY <1>2
    <3> QED BY <3>1
  <2>3. ASSUME NEW i \in 1..(n + 1) PROVE f[i] <= c
    <3>1. CASE i = n + 1 BY <2>2, <3>1
    <3>2. CASE i \in 1..n
      <4>1. f[i] <= b /\ f[i] \in Nat BY <2>1, <3>2, <1>2
      <4> HIDE DEF c
      <4> QED BY <4>1, <2>2
    <3> QED BY <3>1, <3>2
  <2> QED BY <2>2, <2>3
<1> HIDE DEF Bounded
<1>3. 0 \in S /\ \A n \in Nat : n \in S => n + 1 \in S BY <1>1, <1>2
<1> HIDE DEF S
<1>4. N \in S BY <1>3, InductionOnNat
<1> QED BY <1>4 DEF S, Bounded

(* Of some indices of a list of numbers one has the greatest number. *)
LEMMA GreatestIndex ==
  ASSUME NEW N \in Nat, NEW f \in [1..N -> Nat], NEW S \in SUBSET (1..N), S # {}
  PROVE  \E i \in S : \A j \in S : f[j] <= f[i]
<1> DEFINE B == {b \in Nat : \A i \in S : f[i] <= b}
<1>1. B # {} /\ B \in SUBSET Nat BY BoundExists
<1>2. PICK b \in B : \A c \in B : b <= c BY <1>1, LeastNatural
<1>3. SUFFICES ASSUME \A i \in S : f[i] # b PROVE FALSE
  BY <1>2
<1>4. \A i \in S : f[i] \in Nat /\ f[i] < b BY <1>2, <1>3
<1>5. b - 1 \in Nat
  <2>1. PICK i \in S : TRUE OBVIOUS
  <2>2. f[i] \in Nat /\ f[i] < b /\ b \in Nat BY <1>2, <1>4
  <2> QED BY <2>2
<1>6. \A i \in S : f[i] <= b - 1 BY <1>4
<1>7. b - 1 \in B BY <1>5, <1>6
<1> QED BY <1>2, <1>7

(* What a fold leaves after the elements at each set of indices. *)
IsFold(it, N, base, Turn, xs) ==
  \A s \in SUBSET (1..N) :
    it[s] = IF s = {} THEN base ELSE Turn[<<it[s \ {Max(s)}], xs[Max(s)]>>]

LEMMA FoldExists ==
  ASSUME NEW N \in Nat, NEW T, NEW X, NEW base \in T, NEW Turn \in [T \X X -> T],
         NEW xs \in [1..N -> X]
  PROVE  \E it \in [SUBSET (1..N) -> T] : IsFold(it, N, base, Turn, xs)
<1> DEFINE Exists(n) == \E it \in [SUBSET (1..n) -> T] : IsFold(it, n, base, Turn, xs)
           S == {n \in Nat : n <= N => Exists(n)}
<1>1. Exists(0)
  <2> DEFINE it == [s \in SUBSET (1..0) |-> base]
  <2>1. it \in [SUBSET (1..0) -> T] OBVIOUS
  <2>2. ASSUME NEW s \in SUBSET (1..0) PROVE s = {} /\ it[s] = base OBVIOUS
  <2> HIDE DEF it
  <2>3. IsFold(it, 0, base, Turn, xs) BY <2>2, Zenon DEF IsFold
  <2> QED BY <2>1, <2>3
<1>2. ASSUME NEW n \in Nat, n + 1 <= N, Exists(n) PROVE Exists(n + 1)
  <2>1. PICK it \in [SUBSET (1..n) -> T] : IsFold(it, n, base, Turn, xs) BY <1>2
  <2> DEFINE m  == n + 1
             at == [s \in SUBSET (1..m) |-> IF m \in s THEN Turn[<<it[s \ {m}], xs[m]>>] ELSE it[s]]
  <2>2. \A s \in SUBSET (1..m) : s \ {m} \in SUBSET (1..n) /\ (m \notin s => s \in SUBSET (1..n))
    OBVIOUS
  <2>3. m \in 1..N /\ xs[m] \in X BY <1>2
  <2>4. ASSUME NEW s \in SUBSET (1..n) PROVE s \in SUBSET (1..m) /\ m \notin s /\ at[s] = it[s]
    OBVIOUS
  <2>5. at \in [SUBSET (1..m) -> T]
    <3>1. ASSUME NEW s \in SUBSET (1..m) PROVE Turn[<<it[s \ {m}], xs[m]>>] \in T
      <4>1. it[s \ {m}] \in T BY <2>2
      <4>2. <<it[s \ {m}], xs[m]>> \in T \X X BY <4>1, <2>3
      <4> QED BY <4>2
    <3>2. ASSUME NEW s \in SUBSET (1..m), m \notin s PROVE it[s] \in T BY <2>2, <3>2
    <3> QED BY <3>1, <3>2
  <2>6. ASSUME NEW s \in SUBSET (1..m)
        PROVE  at[s] = IF s = {} THEN base ELSE Turn[<<at[s \ {Max(s)}], xs[Max(s)]>>]
    <3>1. CASE m \in s
      <4>0. m \in Nat /\ s # {} BY <3>1
      <4>1. Max(s) \in s /\ m <= Max(s) /\ Max(s) \in 1..m
        <5> HIDE DEF m, at
        <5> QED BY <4>0, <3>1, MaxInSet
      <4>2. Max(s) = m BY <4>1
      <4>3. at[s \ {m}] = it[s \ {m}] BY <2>2, <2>4
      <4>4. at[s] = Turn[<<it[s \ {m}], xs[m]>>] BY <3>1
      <4> HIDE DEF at
      <4> QED BY <4>2, <4>3, <4>4, <3>1
    <3>2. CASE m \notin s
      <4>1. s \in SUBSET (1..n) /\ at[s] = it[s] BY <2>2, <2>4, <3>2
      <4>2. s \ {Max(s)} \in SUBSET (1..n) BY <4>1
      <4>3. at[s \ {Max(s)}] = it[s \ {Max(s)}] BY <4>2, <2>4
      <4>4. it[s] = IF s = {} THEN base ELSE Turn[<<it[s \ {Max(s)}], xs[Max(s)]>>]
        BY <4>1, <2>1, Zenon DEF IsFold
      <4> HIDE DEF at
      <4> QED BY <4>1, <4>3, <4>4
    <3> QED BY <3>1, <3>2
  <2> HIDE DEF at
  <2>7. IsFold(at, m, base, Turn, xs) BY <2>6 DEF IsFold
  <2> QED BY <2>5, <2>7
<1> HIDE DEF Exists
<1>3. 0 \in S /\ \A n \in Nat : n \in S => n + 1 \in S BY <1>1, <1>2
<1> HIDE DEF S
<1>4. N \in S BY <1>3, InductionOnNat
<1>5. Exists(N) BY <1>4 DEF S
<1> QED BY <1>5 DEF Exists

(* The elements one by one. *)
LEMMA FoldPrefix ==
  ASSUME NEW k \in Nat, k > 0
  PROVE  Max(1..k) = k /\ (1..k) \ {k} = 1..(k - 1) /\ 1..k # {}
<1>1. 1..k \in SUBSET (1..k) /\ k \in 1..k OBVIOUS
<1>2. Max(1..k) \in 1..k /\ k <= Max(1..k) BY <1>1, MaxInSet
<1> QED BY <1>2

-----------------------------------------------------------------------------
(* Arithmetic of rows.  Products are natural numbers, *)
LEMMA ProductIsNat == \A a, b \in Nat : a * b \in Nat
OBVIOUS

(* and grow with their factors; *)
LEMMA TimesGrows ==
  ASSUME NEW a \in Nat, NEW b \in Nat, NEW c \in Nat, a <= b
  PROVE  a * c <= b * c /\ c * a <= c * b
<1>1. PICK d \in Nat : b = a + d
  <2>1. b - a \in Nat /\ b = a + (b - a) OBVIOUS
  <2> QED BY <2>1
<1>2. b * c = a * c + d * c /\ c * a = a * c /\ c * b = b * c BY <1>1
<1>3. a * c \in Nat /\ d * c \in Nat BY ProductIsNat
<1> QED BY <1>2, <1>3

(* a row ends where or before the next begins; *)
LEMMA NextRow ==
  ASSUME NEW a \in Nat, NEW n \in Nat, a < n, NEW s \in Nat
  PROVE  a * s + s <= n * s
<1>1. PICK d \in Nat : n = a + 1 + d
  <2>1. n - a - 1 \in Nat /\ n = a + 1 + (n - a - 1) OBVIOUS
  <2> QED BY <2>1
<1>2. n * s = a * s + s + d * s BY <1>1
<1>3. d * s \in Nat /\ a * s \in Nat BY ProductIsNat
<1> QED BY <1>2, <1>3

(* two places are one only if row and column are; *)
LEMMA RowMajor ==
  ASSUME NEW s \in Nat, NEW a \in Nat, NEW b \in 0..(s - 1), NEW c \in Nat, NEW d \in 0..(s - 1),
         a * s + b = c * s + d
  PROVE  a = c /\ b = d
<1>0. a * s \in Nat /\ c * s \in Nat BY ProductIsNat
<1>1. ~(a < c)
  <2> SUFFICES ASSUME a < c PROVE FALSE OBVIOUS
  <2>1. a * s + s <= c * s BY NextRow
  <2> QED BY <1>0, <2>1
<1>2. ~(c < a)
  <2> SUFFICES ASSUME c < a PROVE FALSE OBVIOUS
  <2>1. c * s + s <= a * s BY NextRow
  <2> QED BY <1>0, <2>1
<1>3. a = c BY <1>1, <1>2
<1> QED BY <1>0, <1>3

(* a number is made of its quotient and its remainder, *)
LEMMA Divided ==
  ASSUME NEW n \in Nat, NEW d \in Nat \ {0}
  PROVE  /\ n \div d \in Nat /\ n % d \in 0..(d - 1)
         /\ n = (n \div d) * d + (n % d)
OBVIOUS

(* which are the only ones. *)
LEMMA DividedIs ==
  ASSUME NEW q \in Nat, NEW d \in Nat \ {0}, NEW r \in 0..(d - 1)
  PROVE  (q * d + r) \div d = q
<1> DEFINE n == q * d + r
<1>1. n \in Nat BY ProductIsNat
<1>2. /\ n \div d \in Nat /\ n % d \in 0..(d - 1)
      /\ n = (n \div d) * d + (n % d)
  BY <1>1, Divided
<1>3. (n \div d) * d + (n % d) = q * d + r BY <1>2
<1> HIDE DEF n
<1>4. n \div d = q BY <1>2, <1>3, RowMajor
<1> QED BY <1>4 DEF n

-----------------------------------------------------------------------------
(* Selection *)
(* r has the elements of q up to n that are in S, in their order. *)
Selects(r, q, n, S, T) ==
  /\ r \in Seq(T)
  /\ \A i \in 1..Len(r) : \E j \in 1..n : r[i] = q[j] /\ q[j] \in S
  /\ \A j \in 1..n : q[j] \in S => \E i \in 1..Len(r) : r[i] = q[j]
  /\ \A i, k \in 1..Len(r) : i < k => \E a, b \in 1..n : a < b /\ r[i] = q[a] /\ r[k] = q[b]

SelectNext(kept, x, S) == IF x \in S THEN Append(kept, x) ELSE kept

LEMMA SelectStep ==
  ASSUME NEW T, NEW q \in Seq(T), NEW n \in Nat, n + 1 <= Len(q), NEW S, NEW r,
         Selects(r, q, n, S, T)
  PROVE  Selects(SelectNext(r, q[n + 1], S), q, n + 1, S, T)
<1> DEFINE m == n + 1
           x == q[m]
           p == SelectNext(r, x, S)
<1>0. /\ r \in Seq(T) /\ Len(r) \in Nat /\ m \in 1..Len(q) /\ m \in Nat /\ m = n + 1 /\ x \in T
      /\ \A j \in 1..m : j \in 1..n \/ j = m
      /\ \A j \in 1..n : j \in 1..m /\ j < m
  BY DEF Selects
<1>1. /\ \A i \in 1..Len(r) : \E j \in 1..n : r[i] = q[j] /\ q[j] \in S
      /\ \A j \in 1..n : q[j] \in S => \E i \in 1..Len(r) : r[i] = q[j]
      /\ \A i, k \in 1..Len(r) : i < k => \E a, b \in 1..n : a < b /\ r[i] = q[a] /\ r[k] = q[b]
  BY DEF Selects
<1> HIDE DEF m
<1>2. CASE x \notin S
  <2>1. p = r BY <1>2 DEF SelectNext
  <2>2. \A i \in 1..Len(r) : \E j \in 1..m : r[i] = q[j] /\ q[j] \in S BY <1>0, <1>1
  <2>3. \A j \in 1..m : q[j] \in S => \E i \in 1..Len(r) : r[i] = q[j] BY <1>0, <1>1, <1>2
  <2>4. \A i, k \in 1..Len(r) : i < k => \E a, b \in 1..m : a < b /\ r[i] = q[a] /\ r[k] = q[b]
    BY <1>0, <1>1
  <2>5. Selects(r, q, m, S, T) BY <1>0, <2>2, <2>3, <2>4 DEF Selects
  <2> QED BY <2>1, <2>5 DEF m
<1>3. CASE x \in S
  <2> DEFINE L == Len(r)
             t == Append(r, x)
  <2>1. p = t BY <1>3 DEF SelectNext
  <2>2. /\ t \in Seq(T) /\ Len(t) = L + 1 /\ L \in Nat /\ t[L + 1] = x /\ \A i \in 1..L : t[i] = r[i]
        /\ \A i \in 1..Len(t) : i \in 1..L \/ i = L + 1
        /\ L + 1 \in 1..Len(t) /\ \A i \in 1..L : i \in 1..Len(t) /\ i < L + 1
    BY <1>0, AppendProperties
  <2> HIDE DEF t, p, L
  <2>7. \A i \in 1..L : \E j \in 1..n : r[i] = q[j] /\ q[j] \in S BY <1>1 DEF L
  <2>3. \A i \in 1..Len(t) : \E j \in 1..m : t[i] = q[j] /\ q[j] \in S
    <3> TAKE i \in 1..Len(t)
    <3>1. CASE i \in 1..L BY <3>1, <1>0, <2>2, <2>7
    <3>2. CASE i = L + 1
      <4>1. m \in 1..m BY <1>0
      <4> QED BY <3>2, <2>2, <1>3, <4>1
    <3> QED BY <3>1, <3>2, <2>2
  <2>4. \A j \in 1..m : q[j] \in S => \E i \in 1..Len(t) : t[i] = q[j]
    <3> SUFFICES ASSUME NEW j \in 1..m, q[j] \in S PROVE \E i \in 1..Len(t) : t[i] = q[j]
      OBVIOUS
    <3>1. CASE j \in 1..n
      <4>1. PICK i \in 1..L : r[i] = q[j] BY <3>1, <1>1 DEF L
      <4> QED BY <4>1, <2>2
    <3>2. CASE j = m BY <3>2, <2>2
    <3> QED BY <3>1, <3>2, <1>0
  <2>5. \A i, k \in 1..Len(t) : i < k => \E a, b \in 1..m : a < b /\ t[i] = q[a] /\ t[k] = q[b]
    <3> SUFFICES ASSUME NEW i \in 1..Len(t), NEW k \in 1..Len(t), i < k
                 PROVE  \E a, b \in 1..m : a < b /\ t[i] = q[a] /\ t[k] = q[b]
      OBVIOUS
    <3>1. i \in 1..L BY <2>2
    <3>2. CASE k \in 1..L
      <4>1. PICK a \in 1..n, b \in 1..n : a < b /\ r[i] = q[a] /\ r[k] = q[b]
        BY <3>1, <3>2, <1>1 DEF L
      <4> QED BY <4>1, <3>1, <3>2, <2>2, <1>0
    <3>3. CASE k = L + 1
      <4>1. PICK a \in 1..n : r[i] = q[a] BY <3>1, <2>7
      <4>2. m \in 1..m /\ a \in 1..m /\ a < m BY <1>0
      <4>3. t[i] = q[a] /\ t[k] = q[m] BY <3>1, <3>3, <4>1, <2>2
      <4> QED BY <4>2, <4>3
    <3> QED BY <3>2, <3>3, <2>2
  <2>6. Selects(t, q, m, S, T) BY <2>2, <2>3, <2>4, <2>5 DEF Selects
  <2> QED BY <2>1, <2>6 DEF m, p
<1> QED BY <1>2, <1>3

LEMMA SelectedSelects ==
  ASSUME NEW T, NEW q \in Seq(T), NEW S
  PROVE  Selects(Selected(q, S), q, Len(q), S, T)
<1> DEFINE N == Len(q)
           R == Seq(T)
           Turn == [p \in R \X Nat |->
                      IF p[2] + 1 \in 1..N THEN SelectNext(p[1], q[p[2] + 1], S) ELSE p[1]]
           Is(g) == g = [n \in 0..Len(q) |->
                           IF n = 0 THEN <<>>
                           ELSE IF q[n] \in S THEN Append(g[n - 1], q[n]) ELSE g[n - 1]]
<1>0. N \in Nat /\ <<>> \in R /\ \A n \in 1..N : q[n] \in T OBVIOUS
<1>1. Turn \in [R \X Nat -> R]
  <2>1. \A a \in R, v \in T : SelectNext(a, v, S) \in R BY AppendProperties DEF SelectNext
  <2> SUFFICES ASSUME NEW p \in R \X Nat, p[2] + 1 \in 1..N
               PROVE  SelectNext(p[1], q[p[2] + 1], S) \in R
    OBVIOUS
  <2>2. p[1] \in R /\ q[p[2] + 1] \in T BY <1>0
  <2> QED BY <2>1, <2>2
<1> HIDE DEF R
<1>2. PICK f : Iterates(f, N, R, <<>>, Turn)
  <2> HIDE DEF N, Turn
  <2> QED BY <1>0, <1>1, IterationExists
<1>i. \A k \in 0..(N - 1) : f[k + 1] = Turn[<<f[k], k>>]
  <2> HIDE DEF N, Turn
  <2> QED BY <1>2 DEF Iterates
<1>3. /\ f = [n \in 0..N |-> f[n]] /\ f[0] = <<>>
      /\ \A n \in 1..N : f[n] = SelectNext(f[n - 1], q[n], S)
  <2>1. f \in [0..N -> R] /\ f[0] = <<>> BY <1>2 DEF Iterates
  <2> SUFFICES ASSUME NEW n \in 1..N PROVE f[n] = SelectNext(f[n - 1], q[n], S) BY <2>1
  <2>2. n - 1 \in 0..(N - 1) /\ (n - 1) + 1 = n /\ n - 1 \in Nat /\ n - 1 \in 0..N BY <1>0
  <2>3. f[n] = Turn[<<f[n - 1], n - 1>>]
    <3> HIDE DEF Turn, N
    <3> QED BY <1>i, <2>2
  <2>4. <<f[n - 1], n - 1>> \in R \X Nat BY <2>1, <2>2
  <2> QED BY <2>2, <2>3, <2>4
<1>4. Is(f)
  <2>1. \A n \in 0..N : f[n] = IF n = 0 THEN <<>> ELSE SelectNext(f[n - 1], q[n], S)
    BY <1>0, <1>3
  <2>2. f = [n \in 0..N |-> IF n = 0 THEN <<>> ELSE SelectNext(f[n - 1], q[n], S)]
    BY <1>3, <2>1
  <2> QED BY <2>2, Zenon DEF SelectNext
<1> DEFINE kept == CHOOSE g : Is(g)
<1>5. Is(kept)
  <2> HIDE DEF Is
  <2> QED BY <1>4, Zenon
<1>6. Selected(q, S) = kept[N] BY Zenon DEF Selected
<1> HIDE DEF kept
<1>7. kept = [n \in 0..N |-> IF n = 0 THEN <<>> ELSE SelectNext(kept[n - 1], q[n], S)]
  BY <1>5, Zenon DEF SelectNext
<1> HIDE DEF Is, Turn, N
<1> DEFINE Z == {n \in Nat : n <= N => Selects(kept[n], q, n, S, T)}
<1>8. 0 \in Z
  <2>1. kept[0] = <<>> BY <1>0, <1>7
  <2>2. Selects(<<>>, q, 0, S, T) BY DEF Selects
  <2> QED BY <2>1, <2>2
<1>9. ASSUME NEW n \in Nat, n \in Z PROVE n + 1 \in Z
  <2> SUFFICES ASSUME n + 1 <= N PROVE Selects(kept[n + 1], q, n + 1, S, T) OBVIOUS
  <2>1. /\ n + 1 \in 0..N /\ n + 1 # 0 /\ (n + 1) - 1 = n /\ n <= N BY <1>0
  <2>2. kept[n + 1] = SelectNext(kept[n], q[n + 1], S) BY <1>7, <2>1
  <2>3. Selects(kept[n], q, n, S, T) BY <1>9, <2>1
  <2> QED BY <2>2, <2>3, SelectStep DEF N
<1> HIDE DEF Z
<1>10. N \in Z BY <1>0, <1>8, <1>9, InductionOnNat
<1> QED BY <1>0, <1>6, <1>10 DEF Z, N

(* As sets. *)
LEMMA SelectedElements ==
  ASSUME NEW T, NEW q \in Seq(T), NEW S
  PROVE  /\ Selected(q, S) \in Seq(T)
         /\ ToSet(Selected(q, S)) = ToSet(q) \cap S
<1> DEFINE r == Selected(q, S)
<1>1. /\ r \in Seq(T)
      /\ \A i \in 1..Len(r) : \E j \in 1..Len(q) : r[i] = q[j] /\ q[j] \in S
      /\ \A j \in 1..Len(q) : q[j] \in S => \E i \in 1..Len(r) : r[i] = q[j]
  BY SelectedSelects DEF Selects
<1> HIDE DEF r
<1>2. DOMAIN r = 1..Len(r) /\ DOMAIN q = 1..Len(q) BY <1>1
<1>3. ToSet(r) \subseteq ToSet(q) \cap S BY <1>1, <1>2 DEF ToSet
<1>4. ToSet(q) \cap S \subseteq ToSet(r)
  <2> SUFFICES ASSUME NEW x \in ToSet(q), x \in S PROVE x \in ToSet(r) OBVIOUS
  <2>1. PICK j \in 1..Len(q) : x = q[j] BY <1>2 DEF ToSet
  <2>2. PICK i \in 1..Len(r) : r[i] = x BY <1>1, <2>1
  <2> QED BY <1>2, <2>2 DEF ToSet
<1> QED BY <1>1, <1>3, <1>4 DEF r

-----------------------------------------------------------------------------
(* Sequences one after the other: q has those of qs up to the n-th, each from the
   place where at says that the one before ends.                            *)
Follow(q, qs, n, at) ==
  /\ at \in [0..n -> Nat] /\ at[0] = 0 /\ at[n] = Len(q)
  /\ \A m \in 1..n : /\ at[m] = at[m - 1] + Len(qs[m])
                      /\ \A k \in 1..Len(qs[m]) : /\ at[m - 1] + k \in 1..Len(q)
                                                   /\ q[at[m - 1] + k] = qs[m][k]
  /\ \A i \in 1..Len(q) : \E m \in 1..n : i > at[m - 1] /\ i <= at[m]

LEMMA FollowStep ==
  ASSUME NEW T, NEW qs \in Seq(Seq(T)), NEW n \in Nat, n + 1 <= Len(qs), NEW q \in Seq(T),
         NEW at, Follow(q, qs, n, at)
  PROVE  /\ q \o qs[n + 1] \in Seq(T)
         /\ \E nxt : Follow(q \o qs[n + 1], qs, n + 1, nxt)
<1> DEFINE s == n + 1
           b == qs[s]
           p == q \o b
           nxt == [m \in 0..s |-> IF m \in 0..n THEN at[m] ELSE Len(p)]
<1>0. s \in Nat /\ s \in 1..s /\ s - 1 = n /\ n \in 0..n /\ s \notin 0..n /\ s \in 0..s /\ 0 \in 0..n
  OBVIOUS
<1>1. /\ b \in Seq(T) /\ p \in Seq(T) /\ Len(p) = Len(q) + Len(b) /\ Len(q) \in Nat /\ Len(b) \in Nat
      /\ \A i \in 1..Len(q) : p[i] = q[i]
      /\ \A k \in 1..Len(b) : p[Len(q) + k] = b[k]
  OBVIOUS
<1>2. \A m \in 1..s : m \in 1..n \/ m = s OBVIOUS
<1>3. \A m \in 1..n : m \in 0..n /\ m - 1 \in 0..n /\ m \in 1..s OBVIOUS
<1>4. /\ nxt \in [0..s -> Nat] /\ nxt[s] = Len(p) /\ \A m \in 0..n : nxt[m] = at[m]
  BY <1>0, <1>1 DEF Follow
<1>5. at[0] = 0 /\ at[n] = Len(q) BY DEF Follow
<1> HIDE DEF s, b, p, nxt
<1>6. ASSUME NEW m \in 1..s
      PROVE  /\ nxt[m] = nxt[m - 1] + Len(qs[m])
             /\ \A k \in 1..Len(qs[m]) : nxt[m - 1] + k \in 1..Len(p) /\ p[nxt[m - 1] + k] = qs[m][k]
  <2>1. CASE m \in 1..n
    <3>1. nxt[m] = at[m] /\ nxt[m - 1] = at[m - 1] BY <1>3, <1>4, <2>1
    <3>2. /\ at[m] = at[m - 1] + Len(qs[m])
          /\ \A k \in 1..Len(qs[m]) : at[m - 1] + k \in 1..Len(q) /\ q[at[m - 1] + k] = qs[m][k]
      BY <2>1 DEF Follow
    <3>3. \A i \in 1..Len(q) : i \in 1..Len(p) BY <1>1
    <3> QED BY <1>1, <3>1, <3>2, <3>3
  <2>2. CASE m = s
    <3>1. nxt[m] = Len(p) /\ nxt[m - 1] = Len(q) /\ qs[m] = b BY <1>0, <1>4, <1>5, <2>2 DEF b
    <3>2. \A k \in 1..Len(b) : Len(q) + k \in 1..Len(p) /\ p[Len(q) + k] = b[k] BY <1>1
    <3>3. Len(p) = Len(q) + Len(b) BY <1>1
    <3> QED BY <3>1, <3>2, <3>3
  <2> QED BY <1>2, <2>1, <2>2
<1>7. ASSUME NEW i \in 1..Len(p) PROVE \E m \in 1..s : i > nxt[m - 1] /\ i <= nxt[m]
  <2>1. CASE i \in 1..Len(q)
    <3>1. PICK m \in 1..n : i > at[m - 1] /\ i <= at[m] BY <2>1 DEF Follow
    <3> QED BY <1>3, <1>4, <3>1
  <2>2. CASE i > Len(q)
    <3>1. nxt[s - 1] = Len(q) /\ nxt[s] = Len(p) BY <1>0, <1>4, <1>5
    <3> QED BY <1>0, <2>2, <3>1
  <2> QED BY <1>1, <2>1, <2>2
<1>8. nxt[0] = 0 BY <1>0, <1>4, <1>5
<1>9. Follow(p, qs, s, nxt) BY <1>4, <1>6, <1>7, <1>8 DEF Follow
<1> QED BY <1>1, <1>9 DEF p, b, s

LEMMA Flattened ==
  ASSUME NEW T, NEW qs \in Seq(Seq(T))
  PROVE  /\ FlattenSeq(qs) \in Seq(T)
         /\ \E at : Follow(FlattenSeq(qs), qs, Len(qs), at)
<1> DEFINE N == Len(qs)
           R == Seq(T)
           Turn == [p \in R \X Nat |-> IF p[2] + 1 \in 1..N THEN p[1] \o qs[p[2] + 1] ELSE p[1]]
           Is(g) == g = [i \in 1..Len(qs) |-> IF i = 1 THEN qs[i] ELSE g[i - 1] \o qs[i]]
<1>0. N \in Nat /\ <<>> \in R /\ \A n \in 1..N : qs[n] \in R OBVIOUS
<1>1. CASE N = 0
  <2>1. FlattenSeq(qs) = <<>> BY <1>1 DEF FlattenSeq
  <2>2. [m \in 0..0 |-> 0] \in [0..0 -> Nat] /\ [m \in 0..0 |-> 0][0] = 0 OBVIOUS
  <2>3. Follow(<<>>, qs, 0, [m \in 0..0 |-> 0]) BY <2>2 DEF Follow
  <2> QED BY <1>0, <1>1, <2>1, <2>3
<1>2. CASE N # 0
  <2>1. Turn \in [R \X Nat -> R]
    <3> SUFFICES ASSUME NEW p \in R \X Nat, p[2] + 1 \in 1..N PROVE p[1] \o qs[p[2] + 1] \in R
      OBVIOUS
    <3> QED BY <1>0
  <2>2. PICK f : Iterates(f, N, R, <<>>, Turn)
    <3> HIDE DEF N, Turn, R
    <3> QED BY <1>0, <2>1, IterationExists
  <2>3. f \in [0..N -> R] /\ f[0] = <<>> /\ \A k \in 0..(N - 1) : f[k + 1] = Turn[<<f[k], k>>]
    <3> HIDE DEF Turn, N
    <3> QED BY <2>2 DEF Iterates
  <2>4. \A n \in 1..N : f[n] = f[n - 1] \o qs[n]
    <3> TAKE n \in 1..N
    <3>2. n - 1 \in 0..(N - 1) /\ (n - 1) + 1 = n /\ n - 1 \in Nat /\ n - 1 \in 0..N BY <1>0
    <3>3. f[n] = Turn[<<f[n - 1], n - 1>>]
      <4> HIDE DEF Turn, N
      <4> QED BY <2>3, <3>2
    <3> HIDE DEF R
    <3>4. <<f[n - 1], n - 1>> \in R \X Nat BY <2>3, <3>2
    <3> QED BY <3>2, <3>3, <3>4
  <2> DEFINE h == [n \in 1..N |-> f[n]]
  <2>5. Is(h)
    <3>1. ASSUME NEW n \in 1..N PROVE h[n] = IF n = 1 THEN qs[n] ELSE h[n - 1] \o qs[n]
      <4>1. CASE n = 1
        <5>0. f[n] = f[n - 1] \o qs[n] BY <2>4
        <5>1. f[1] = <<>> \o qs[1]
          <6>1. n - 1 = 0 BY <4>1
          <6> QED BY <2>3, <4>1, <5>0, <6>1
        <5>2. qs[1] \in Seq(T) BY <1>0, <4>1
        <5>3. <<>> \o qs[1] = qs[1] BY <5>2
        <5> QED BY <4>1, <5>1, <5>3
      <4>2. CASE n # 1
        <5>1. n - 1 \in 1..N BY <1>0, <4>2
        <5> QED BY <2>4, <4>2, <5>1
      <4> QED BY <4>1, <4>2
    <3>2. h = [n \in 1..N |-> h[n]] OBVIOUS
    <3> HIDE DEF h
    <3> QED BY <3>1, <3>2
  <2> DEFINE flatten == CHOOSE g : Is(g)
  <2>6. Is(flatten)
    <3> HIDE DEF Is, h
    <3> QED BY <2>5, Zenon
  <2>7. FlattenSeq(qs) = flatten[N] BY <1>2, Zenon DEF FlattenSeq
  <2> HIDE DEF flatten, Turn, h
  <2> DEFINE to(n) == IF n = 0 THEN <<>> ELSE flatten[n]
             Z == {n \in Nat : n <= N => /\ to(n) \in R
                                        /\ \E at : Follow(to(n), qs, n, at)}
  <2>8. 0 \in Z
    <3>2. [m \in 0..0 |-> 0] \in [0..0 -> Nat] /\ [m \in 0..0 |-> 0][0] = 0 OBVIOUS
    <3>3. Follow(<<>>, qs, 0, [m \in 0..0 |-> 0]) BY <3>2 DEF Follow
    <3> QED BY <1>0, <3>3
  <2>9. ASSUME NEW n \in Nat, n \in Z PROVE n + 1 \in Z
    <3> SUFFICES ASSUME n + 1 <= N
                 PROVE  to(n + 1) \in R /\ \E at : Follow(to(n + 1), qs, n + 1, at)
      OBVIOUS
    <3>1. PICK at : Follow(to(n), qs, n, at) BY <2>9
    <3>2. to(n) \in R BY <2>9
    <3>3. to(n + 1) = to(n) \o qs[n + 1]
      <4>1. n + 1 \in 1..N /\ n + 1 # 0 /\ (n + 1) - 1 = n /\ (n = 0 \/ (n + 1 # 1 /\ n \in 1..N)) OBVIOUS
      <4>2. flatten[n + 1] = IF n + 1 = 1 THEN qs[n + 1] ELSE flatten[n] \o qs[n + 1]
        BY <2>6, <4>1
      <4>3. qs[n + 1] \in Seq(T) BY <1>0, <4>1
      <4>4. <<>> \o qs[n + 1] = qs[n + 1] BY <4>3
      <4>5. to(n + 1) = flatten[n + 1] BY <4>1
      <4>6. CASE n = 0
        <5>1. flatten[n + 1] = qs[n + 1] /\ to(n) = <<>> BY <4>2, <4>6
        <5> QED BY <4>4, <4>5, <5>1
      <4>7. CASE n # 0
        <5>1. flatten[n + 1] = flatten[n] \o qs[n + 1] /\ to(n) = flatten[n] BY <4>1, <4>2, <4>7
        <5> QED BY <4>5, <5>1
      <4> QED BY <4>6, <4>7
    <3> HIDE DEF to
    <3> QED BY <3>1, <3>2, <3>3, FollowStep
  <2> HIDE DEF Z, Is
  <2>10. N \in Z BY <1>0, <2>8, <2>9, InductionOnNat
  <2> QED BY <1>0, <1>2, <2>7, <2>10 DEF Z
<1> QED BY <1>1, <1>2

LEMMA FlattenedElements ==
  ASSUME NEW T, NEW qs \in Seq(Seq(T))
  PROVE  /\ FlattenSeq(qs) \in Seq(T)
         /\ ToSet(FlattenSeq(qs)) = UNION {ToSet(qs[i]) : i \in 1..Len(qs)}
<1> DEFINE q == FlattenSeq(qs)
           N == Len(qs)
<1>1. PICK at : Follow(q, qs, N, at) BY Flattened
<1>2. q \in Seq(T) /\ N \in Nat BY Flattened
<1> HIDE DEF q, N
<1>3. /\ at \in [0..N -> Nat]
      /\ \A m \in 1..N : /\ at[m] = at[m - 1] + Len(qs[m])
                          /\ \A k \in 1..Len(qs[m]) : /\ at[m - 1] + k \in 1..Len(q)
                                                       /\ q[at[m - 1] + k] = qs[m][k]
      /\ \A i \in 1..Len(q) : \E m \in 1..N : i > at[m - 1] /\ i <= at[m]
  BY <1>1 DEF Follow
<1>4. ASSUME NEW i \in 1..Len(q) PROVE \E m \in 1..N : q[i] \in ToSet(qs[m])
  <2>1. PICK m \in 1..N : i > at[m - 1] /\ i <= at[m] BY <1>3
  <2>2. qs[m] \in Seq(T)
    <3>1. m \in 1..Len(qs) BY DEF N
    <3> QED BY <3>1
  <2>3. PICK a \in Nat : a = at[m - 1]
    <3>1. m - 1 \in 0..N BY <1>2
    <3> QED BY <1>3, <3>1
  <2>4. at[m] = a + Len(qs[m]) /\ \A k \in 1..Len(qs[m]) : q[a + k] = qs[m][k] BY <1>3, <2>3
  <2>5. PICK k \in 1..Len(qs[m]) : a + k = i
    <3> DEFINE L == Len(qs[m])
    <3>1. L \in Nat BY <2>2
    <3>2. i \in Nat /\ i > a /\ i <= a + L BY <1>2, <2>1, <2>3, <2>4
    <3> HIDE DEF L
    <3>3. i - a \in 1..L /\ a + (i - a) = i BY <2>3, <3>1, <3>2
    <3> QED BY <3>3 DEF L
  <2>6. q[i] = qs[m][k] /\ k \in DOMAIN qs[m]
    <3>1. q[a + k] = qs[m][k] BY <2>4
    <3>2. DOMAIN qs[m] = 1..Len(qs[m]) BY <2>2
    <3> QED BY <2>5, <3>1, <3>2
  <2> QED BY <2>6 DEF ToSet
<1>5. ASSUME NEW m \in 1..N, NEW x \in ToSet(qs[m]) PROVE x \in ToSet(q)
  <2>1. qs[m] \in Seq(T)
    <3>1. m \in 1..Len(qs) BY DEF N
    <3> QED BY <3>1
  <2>2. PICK k \in 1..Len(qs[m]) : x = qs[m][k]
    <3>1. DOMAIN qs[m] = 1..Len(qs[m]) BY <2>1
    <3> QED BY <3>1 DEF ToSet
  <2>3. at[m - 1] + k \in DOMAIN q /\ q[at[m - 1] + k] = x
    <3>1. DOMAIN q = 1..Len(q) BY <1>2
    <3> QED BY <1>3, <2>2, <3>1
  <2> QED BY <2>3 DEF ToSet
<1>6. DOMAIN q = 1..Len(q) BY <1>2
<1>7. ToSet(q) = UNION {ToSet(qs[i]) : i \in 1..N}
  <2>1. \A x \in ToSet(q) : \E m \in 1..N : x \in ToSet(qs[m]) BY <1>4, <1>6 DEF ToSet
  <2> QED BY <1>5, <2>1
<1> QED BY <1>2, <1>7 DEF q, N

-----------------------------------------------------------------------------
(* Places in a finite set that is put in order. *)
RankOf(S, L, k) == Cardinality({j \in S : <<j, k>> \in L})

Orders(S, L) ==
  /\ \A k \in S : <<k, k>> \notin L
  /\ \A i, j, k \in S : <<i, j>> \in L /\ <<j, k>> \in L => <<i, k>> \in L
  /\ \A j, k \in S : j # k => <<j, k>> \in L \/ <<k, j>> \in L

InRanks(S, L) ==
  /\ Cardinality(S) \in Nat
  /\ \A k \in S : RankOf(S, L, k) \in 0..(Cardinality(S) - 1)
  /\ \A j, k \in S : <<j, k>> \in L <=> RankOf(S, L, j) < RankOf(S, L, k)
  /\ \A j, k \in S : RankOf(S, L, j) = RankOf(S, L, k) => j = k
  /\ \A n \in 0..(Cardinality(S) - 1) : \E k \in S : RankOf(S, L, k) = n

LEMMA Ranks ==
  ASSUME NEW S, IsFiniteSet(S), NEW L, Orders(S, L)
  PROVE  InRanks(S, L)
<1> DEFINE B(k) == {j \in S : <<j, k>> \in L}
           C == Cardinality(S)
           rank == [k \in S |-> Cardinality(B(k))]
<1>0. C \in Nat BY FS_CardinalityType
<1>1. ASSUME NEW k \in S
      PROVE  IsFiniteSet(B(k)) /\ Cardinality(B(k)) \in 0..(C - 1)
  <2>1. B(k) \in SUBSET S OBVIOUS
  <2>2. k \notin B(k) BY DEF Orders
  <2> HIDE DEF B
  <2>3. IsFiniteSet(B(k)) /\ Cardinality(B(k)) <= C /\ (C = Cardinality(B(k)) => S = B(k))
    BY <2>1, FS_Subset
  <2>4. Cardinality(B(k)) \in Nat BY <2>3, FS_CardinalityType
  <2>5. C # Cardinality(B(k)) BY <2>2, <2>3
  <2> QED BY <1>0, <2>3, <2>4, <2>5
<1>2. ASSUME NEW j \in S, NEW k \in S, <<j, k>> \in L
      PROVE  Cardinality(B(j)) < Cardinality(B(k))
  <2>1. B(j) \in SUBSET B(k) BY <1>2 DEF Orders
  <2>2. j \in B(k) /\ j \notin B(j) BY <1>2 DEF Orders
  <2>3. IsFiniteSet(B(k)) /\ Cardinality(B(k)) \in 0..(C - 1) /\ Cardinality(B(j)) \in 0..(C - 1)
    BY <1>1
  <2> HIDE DEF B
  <2>4. Cardinality(B(j)) <= Cardinality(B(k)) /\ (Cardinality(B(k)) = Cardinality(B(j)) => B(k) = B(j))
    BY <2>1, <2>3, FS_Subset
  <2>5. Cardinality(B(k)) # Cardinality(B(j)) BY <2>2, <2>4
  <2> QED BY <1>0, <2>3, <2>4, <2>5
<1>3. \A k \in S : RankOf(S, L, k) = rank[k] BY DEF RankOf
<1>4. \A k \in S : rank[k] \in 0..(C - 1) BY <1>1
<1>5. \A j, k \in S : <<j, k>> \in L => rank[j] < rank[k] BY <1>2
<1>6. rank \in [S -> 0..(C - 1)]
  <2>1. rank = [k \in S |-> rank[k]] OBVIOUS
  <2> HIDE DEF rank
  <2> QED BY <1>4, <2>1
<1> HIDE DEF rank, B
<1>7. \A j, k \in S : rank[j] = rank[k] => j = k
  <2> SUFFICES ASSUME NEW j \in S, NEW k \in S, j # k PROVE rank[j] # rank[k] OBVIOUS
  <2>1. <<j, k>> \in L \/ <<k, j>> \in L BY DEF Orders
  <2>2. rank[j] \in 0..(C - 1) /\ rank[k] \in 0..(C - 1) BY <1>4
  <2>3. rank[j] < rank[k] \/ rank[k] < rank[j] BY <1>5, <2>1
  <2> QED BY <1>0, <2>2, <2>3
<1>8. \A j, k \in S : rank[j] < rank[k] => <<j, k>> \in L
  <2> SUFFICES ASSUME NEW j \in S, NEW k \in S, rank[j] < rank[k], <<j, k>> \notin L PROVE FALSE OBVIOUS
  <2>1. rank[j] \in 0..(C - 1) /\ rank[k] \in 0..(C - 1) BY <1>4
  <2>2. j # k BY <1>0, <2>1
  <2>3. <<k, j>> \in L BY <2>2 DEF Orders
  <2>4. rank[k] < rank[j] BY <1>5, <2>3
  <2> QED BY <1>0, <2>1, <2>4
<1>9. rank \in Injection(S, 0..(C - 1)) BY <1>6, <1>7 DEF Injection, IsInjective
<1>10. rank \in Surjection(S, 0..(C - 1))
  <2>1. IsFiniteSet(0..(C - 1)) /\ Cardinality(0..(C - 1)) = C
    <3>1. 0 \in Int /\ C - 1 \in Int BY <1>0
    <3>2. /\ IsFiniteSet(0..(C - 1))
          /\ Cardinality(0..(C - 1)) = IF 0 > C - 1 THEN 0 ELSE (C - 1) - 0 + 1
      BY <3>1, FS_Interval
    <3> QED BY <1>0, <3>2
  <2> QED BY <1>9, <2>1, FS_Injection
<1>11. \A n \in 0..(C - 1) : \E k \in S : rank[k] = n BY <1>10 DEF Surjection
<1> HIDE DEF C
<1>12. \A j, k \in S : <<j, k>> \in L <=> rank[j] < rank[k] BY <1>5, <1>8
<1> USE <1>3
<1>13. \A k \in S : RankOf(S, L, k) \in 0..(C - 1) BY <1>4
<1>14. \A j, k \in S : <<j, k>> \in L <=> RankOf(S, L, j) < RankOf(S, L, k) BY <1>12
<1>15. \A j, k \in S : RankOf(S, L, j) = RankOf(S, L, k) => j = k BY <1>7
<1>16. \A n \in 0..(C - 1) : \E k \in S : RankOf(S, L, k) = n BY <1>11
<1> QED BY <1>0, <1>13, <1>14, <1>15, <1>16 DEF C, InRanks

(* The first w of them. *)
LEMMA FirstRanks ==
  ASSUME NEW S, IsFiniteSet(S), NEW L, Orders(S, L), NEW w \in Nat, w <= Cardinality(S)
  PROVE  LET T == {k \in S : RankOf(S, L, k) < w}
         IN  T \in SUBSET S /\ IsFiniteSet(T) /\ Cardinality(T) = w
<1> DEFINE T == {k \in S : RankOf(S, L, k) < w}
           f == [k \in T |-> RankOf(S, L, k)]
           C == Cardinality(S)
<1>1. /\ C \in Nat
      /\ \A k \in S : RankOf(S, L, k) \in 0..(C - 1)
      /\ \A j, k \in S : RankOf(S, L, j) = RankOf(S, L, k) => j = k
      /\ \A n \in 0..(C - 1) : \E k \in S : RankOf(S, L, k) = n
  BY Ranks DEF InRanks
<1>2. w <= C OBVIOUS
<1> HIDE DEF C
<1>3. \A k \in T : k \in S /\ RankOf(S, L, k) \in 0..(w - 1) BY <1>1
<1>4. T \in SUBSET S OBVIOUS
<1>5. IsFiniteSet(T) BY <1>4, FS_Subset
<1>6. \A n \in 0..(w - 1) : \E k \in T : RankOf(S, L, k) = n
  <2> TAKE n \in 0..(w - 1)
  <2>1. n \in 0..(C - 1) /\ n < w BY <1>1, <1>2
  <2>2. PICK k \in S : RankOf(S, L, k) = n BY <1>1, <2>1
  <2> QED BY <2>1, <2>2
<1>7. /\ \A k \in T : f[k] \in 0..(w - 1)
      /\ \A j, k \in T : f[j] = f[k] => j = k
      /\ \A n \in 0..(w - 1) : \E k \in T : f[k] = n
  <2>1. \A k \in T : f[k] = RankOf(S, L, k) OBVIOUS
  <2> HIDE DEF f, T
  <2> QED BY <1>1, <1>3, <1>6, <2>1
<1>8. f \in [T -> 0..(w - 1)]
  <2>1. f = [k \in T |-> f[k]] OBVIOUS
  <2> HIDE DEF f, T
  <2> QED BY <1>7, <2>1
<1> HIDE DEF f, T
<1>9. f \in Surjection(T, 0..(w - 1)) BY <1>7, <1>8 DEF Surjection
<1>10. f \in Injection(T, 0..(w - 1)) BY <1>7, <1>8 DEF Injection, IsInjective
<1>11. Cardinality(0..(w - 1)) = Cardinality(T) BY <1>5, <1>9, <1>10, FS_Surjection
<1>12. Cardinality(0..(w - 1)) = w
  <2>1. 0 \in Int /\ w - 1 \in Int OBVIOUS
  <2>2. Cardinality(0..(w - 1)) = IF 0 > w - 1 THEN 0 ELSE (w - 1) - 0 + 1 BY <2>1, FS_Interval
  <2> QED BY <2>2
<1> QED BY <1>4, <1>5, <1>11, <1>12 DEF T

-----------------------------------------------------------------------------
(* A filter of the list of the numbers up to N. *)
HasInOrder(r, N, S) ==
  /\ r \in Seq(1..N) /\ Len(r) \in Nat /\ DOMAIN r = 1..Len(r)
  /\ \A i \in 1..Len(r) : r[i] \in S
  /\ \A x \in S : \E i \in 1..Len(r) : r[i] = x
  /\ \A i, k \in 1..Len(r) : i < k => r[i] < r[k]

LEMMA SelectedNumbers ==
  ASSUME NEW N \in Nat, NEW q \in Seq(1..N), Len(q) = N, \A i \in 1..N : q[i] = i,
         NEW S \in SUBSET (1..N)
  PROVE  HasInOrder(Selected(q, S), N, S)
<1> DEFINE r == Selected(q, S)
           T == 1..N
<1>1. q \in Seq(T) /\ Len(q) = N /\ \A i \in 1..N : q[i] = i OBVIOUS
<1> HIDE DEF T
<1>2. /\ r \in Seq(T)
      /\ \A i \in 1..Len(r) : \E j \in 1..N : r[i] = q[j] /\ q[j] \in S
      /\ \A j \in 1..N : q[j] \in S => \E i \in 1..Len(r) : r[i] = q[j]
      /\ \A i, k \in 1..Len(r) : i < k => \E a, b \in 1..N : a < b /\ r[i] = q[a] /\ r[k] = q[b]
  <2>1. Selects(r, q, Len(q), S, T) BY <1>1, SelectedSelects
  <2> HIDE DEF r
  <2> QED BY <1>1, <2>1 DEF Selects
<1> HIDE DEF r
<1>3. Len(r) \in Nat /\ DOMAIN r = 1..Len(r) BY <1>2
<1>4. \A i \in 1..Len(r) : r[i] \in S BY <1>2
<1>5. \A x \in S : \E i \in 1..Len(r) : r[i] = x BY <1>1, <1>2
<1>6. \A i, k \in 1..Len(r) : i < k => r[i] < r[k]
  <2> SUFFICES ASSUME NEW i \in 1..Len(r), NEW k \in 1..Len(r), i < k PROVE r[i] < r[k] OBVIOUS
  <2>1. PICK a \in 1..N, b \in 1..N : a < b /\ r[i] = q[a] /\ r[k] = q[b] BY <1>2
  <2> QED BY <1>1, <2>1
<1> QED BY <1>2, <1>3, <1>4, <1>5, <1>6 DEF HasInOrder, r, T

(* A fold turn by turn. *)
FoldsOver(iter, N, start, Turn, ws, R) ==
  /\ iter[{}] = start
  /\ \A s \in SUBSET (1..N) :
       s # {} /\ iter[s \ {Max(s)}] \in R => iter[s] = Turn[<<iter[s \ {Max(s)}], ws[Max(s)]>>]

TakesTurns(h, N, start, Turn, ws, last) ==
  /\ h[0] = start /\ h[N] = last
  /\ \A n \in 1..N : h[n] = Turn[<<h[n - 1], ws[n]>>]

LEMMA FoldTurns ==
  ASSUME NEW N \in Nat, NEW R, NEW X, NEW ws \in [1..N -> X], NEW Turn \in [R \X X -> R],
         NEW start \in R, NEW iter, FoldsOver(iter, N, start, Turn, ws, R)
  PROVE  \E h \in [0..N -> R] : TakesTurns(h, N, start, Turn, ws, iter[1..N])
<1> DEFINE h == [n \in 0..N |-> iter[1..n]]
<1>1. h[0] = start
  <2>1. 1..0 = {} OBVIOUS
  <2> QED BY <2>1 DEF FoldsOver
<1>2. ASSUME NEW n \in 1..N, h[n - 1] \in R
      PROVE  h[n] = Turn[<<h[n - 1], ws[n]>>]
  <2>0. n \in Nat /\ n > 0 /\ n \in 0..N /\ n - 1 \in 0..N /\ 1..n \in SUBSET (1..N) OBVIOUS
  <2>1. Max(1..n) = n /\ (1..n) \ {n} = 1..(n - 1) /\ 1..n # {} BY <2>0, FoldPrefix
  <2>2. h[n - 1] = iter[1..(n - 1)] /\ h[n] = iter[1..n] BY <2>0
  <2> HIDE DEF h
  <2> QED BY <1>2, <2>0, <2>1, <2>2 DEF FoldsOver
<1>3. h[N] = iter[1..N] OBVIOUS
<1>4. h = [n \in 0..N |-> h[n]] OBVIOUS
<1> HIDE DEF h
<1> DEFINE Z == {n \in Nat : n <= N => h[n] \in R}
<1>5. 0 \in Z BY <1>1
<1>6. ASSUME NEW n \in Nat, n \in Z PROVE n + 1 \in Z
  <2> SUFFICES ASSUME n + 1 <= N PROVE h[n + 1] \in R OBVIOUS
  <2>1. n + 1 \in 1..N /\ (n + 1) - 1 = n /\ h[n] \in R BY <1>6
  <2>2. h[n + 1] = Turn[<<h[n], ws[n + 1]>>] BY <1>2, <2>1
  <2>3. ws[n + 1] \in X BY <2>1
  <2> QED BY <2>1, <2>2, <2>3
<1>7. \A n \in 0..N : h[n] \in R
  <2> TAKE n \in 0..N
  <2> HIDE DEF Z
  <2>1. n \in Z BY <1>5, <1>6, InductionOnNat
  <2> QED BY <2>1 DEF Z
<1> HIDE DEF Z
<1>8. h \in [0..N -> R] BY <1>4, <1>7
<1>9. \A n \in 1..N : h[n] = Turn[<<h[n - 1], ws[n]>>]
  <2> TAKE n \in 1..N
  <2>1. n - 1 \in 0..N OBVIOUS
  <2> QED BY <1>2, <1>7, <2>1
<1>10. TakesTurns(h, N, start, Turn, ws, iter[1..N]) BY <1>1, <1>3, <1>9 DEF TakesTurns
<1> QED BY <1>8, <1>10

-----------------------------------------------------------------------------
(* A set of one element at most as a list. *)
LEMMA ListOfNone == SetToSeq({}) = <<>>
<1>1. Cardinality({}) = 0 BY FS_EmptySet
<1>2. \A f \in [1..0 -> {}] : f = <<>> OBVIOUS
<1>4. <<>> \in [1..0 -> {}] OBVIOUS
<1>3. IsInjective(<<>>) BY DEF IsInjective
<1> QED BY <1>1, <1>2, <1>3, <1>4 DEF SetToSeq

LEMMA ListOfOne ==
  ASSUME NEW x
  PROVE  SetToSeq({x}) = <<x>>
<1>1. Cardinality({x}) = 1 BY FS_Singleton
<1>2. \A f \in [1..1 -> {x}] : f = <<x>> OBVIOUS
<1>3. <<x>> \in [1..1 -> {x}] OBVIOUS
<1>4. IsInjective(<<x>>) BY DEF IsInjective
<1> QED BY <1>1, <1>2, <1>3, <1>4 DEF SetToSeq
=============================================================================
