----------------------------- MODULE DataLemmas -----------------------------
(***************************************************************************)
(* Facts about numbers, recursive functions and sequences that the proofs  *)
(* of several components rest on.  A claim about every number is proved by *)
(* the least one it would fail for: no induction theorem is needed, only   *)
(* that the naturals are well-founded.                                     *)
(***************************************************************************)
EXTENDS Integers, Sequences, FiniteSets, TLAPS, SequenceTheorems,
        FiniteSetTheorems, WellFoundedInduction

(* Every nonempty set of naturals has a least element: what the inductions *)
(* below use, with the set of the numbers a claim fails for.               *)
LEMMA LeastNatural ==
  ASSUME NEW T \in SUBSET Nat, T # {}
  PROVE  \E x \in T : \A y \in T : x <= y
<1> DEFINE R == OpToRel(<, Nat)
<1>1. IsWellFoundedOn(R, Nat)
  BY NatLessThanWellFounded
<1>2. \A x, y \in Nat : y < x => <<y, x>> \in R
  BY DEF OpToRel
<1> HIDE DEF R
<1>3. PICK x \in T : \A y \in T : ~ (<<y, x>> \in R)
  BY <1>1, WFMin
<1>4. ASSUME NEW y \in T
      PROVE  x <= y
  <2>1. x \in Nat /\ y \in Nat
    OBVIOUS
  <2>2. ~ (y < x)
    BY <1>2, <1>3, <2>1, Zenon
  <2> QED BY <2>1, <2>2
<1> QED BY <1>4

(* Bounded sets of integers have a greatest and a least element.           *)
LEMMA LeastInteger ==
  ASSUME NEW S \in SUBSET Int, S # {}, NEW b \in Int, \A x \in S : b <= x
  PROVE  \E x \in S : \A y \in S : x <= y
<1> DEFINE T == {x - b : x \in S}
<1>1. T \in SUBSET Nat /\ T # {}
  <2>1. \A x \in S : x - b \in Nat
    OBVIOUS
  <2>2. \E x \in S : x - b \in T
    OBVIOUS
  <2> QED BY <2>1, <2>2
<1>2. PICK t \in T : \A u \in T : t <= u
  BY <1>1, LeastNatural
<1>3. PICK x \in S : t = x - b
  OBVIOUS
<1>4. \A y \in S : x <= y
  BY <1>2, <1>3
<1> QED BY <1>4

LEMMA GreatestInteger ==
  ASSUME NEW S \in SUBSET Int, S # {}, NEW b \in Int, \A x \in S : x <= b
  PROVE  \E x \in S : \A y \in S : x >= y
<1> DEFINE T == {b - x : x \in S}
<1>1. T \in SUBSET Nat /\ T # {}
  <2>1. \A x \in S : b - x \in Nat
    OBVIOUS
  <2>2. \E x \in S : b - x \in T
    OBVIOUS
  <2> QED BY <2>1, <2>2
<1>2. PICK t \in T : \A u \in T : t <= u
  BY <1>1, LeastNatural
<1>3. PICK x \in S : t = b - x
  OBVIOUS
<1>4. \A y \in S : x >= y
  BY <1>2, <1>3
<1> QED BY <1>4

(* A finite set has an element of the greatest weight.                     *)
LEMMA GreatestWeight ==
  ASSUME NEW E, IsFiniteSet(E), E # {}, NEW w, \A e \in E : w[e] \in Nat
  PROVE  \E e \in E : \A f \in E : w[f] <= w[e]
<1> DEFINE Has(D) == \E e \in D : \A f \in D : w[f] <= w[e]
           T == {n \in Nat : \E D \in SUBSET E :
                   D # {} /\ Cardinality(D) = n /\ ~Has(D)}
<1> SUFFICES ASSUME T # {} PROVE FALSE
  <2>1. Cardinality(E) \in Nat
    BY FS_CardinalityType
  <2> QED BY <2>1
<1>1. PICK n \in T : \A k \in T : n <= k
  <2>1. T \in SUBSET Nat
    OBVIOUS
  <2> HIDE DEF T
  <2> QED BY <2>1, LeastNatural
<1>2. PICK D \in SUBSET E : D # {} /\ Cardinality(D) = n /\ ~Has(D)
  OBVIOUS
<1>3. PICK x \in D : TRUE
  BY <1>2
<1> DEFINE R == D \ {x}
<1>4. IsFiniteSet(D)
  BY FS_Subset
<1>5. Cardinality(R) = n - 1 /\ IsFiniteSet(R)
  BY <1>2, <1>3, <1>4, FS_RemoveElement
<1>6. Cardinality(R) \in Nat /\ n \in Nat
  BY <1>5, FS_CardinalityType
<1>7. CASE R = {}
  <2>1. \A f \in D : f = x
    BY <1>7
  <2>2. w[x] \in Nat
    BY <1>3
  <2> QED BY <1>2, <1>3, <2>1, <2>2
<1>8. CASE R # {}
  <2>1. R \in SUBSET E
    OBVIOUS
  <2>2. n - 1 \notin T
    BY <1>1, <1>5, <1>6
  <2>3. Has(R)
    BY <1>5, <1>6, <1>8, <2>1, <2>2
  <2>4. PICK e \in R : \A f \in R : w[f] <= w[e]
    BY <2>3
  <2>5. w[x] \in Nat /\ w[e] \in Nat /\ \A f \in D : f = x \/ f \in R
    BY <1>3
  <2>6. CASE w[x] <= w[e]
    BY <1>2, <2>4, <2>5, <2>6
  <2>7. CASE w[e] <= w[x]
    <3>1. \A f \in D : w[f] <= w[x]
      BY <2>4, <2>5, <2>7
    <3> QED BY <1>2, <1>3, <3>1
  <2> QED BY <2>5, <2>6, <2>7
<1> QED BY <1>7, <1>8

(* What a recursive function on the first numbers computes, when a step    *)
(* stays in a set T: the function exists.                                  *)
Iterates(f, T, base, G, n) ==
  /\ f \in [0..n -> T]
  /\ f[0] = base
  /\ \A k \in 1..n : f[k] = G[k][f[k - 1]]

LEMMA IteratesExists ==
  ASSUME NEW T, NEW base \in T, NEW n \in Nat, NEW G,
         \A k \in 1..n : \A t \in T : G[k][t] \in T
  PROVE  \E f : Iterates(f, T, base, G, n)
<1> DEFINE B == {m \in 0..n : ~ \E f : Iterates(f, T, base, G, m)}
<1> SUFFICES ASSUME B # {} PROVE FALSE
  OBVIOUS
<1>1. PICK m \in B : \A k \in B : m <= k
  <2>1. B \in SUBSET Nat
    OBVIOUS
  <2> HIDE DEF B
  <2> QED BY <2>1, LeastNatural
<1>2. m \in 0..n /\ ~ \E f : Iterates(f, T, base, G, m)
  OBVIOUS
<1>3. m # 0
  <2> DEFINE f == [k \in 0..0 |-> base]
  <2>1. Iterates(f, T, base, G, 0)
    BY DEF Iterates
  <2> QED BY <1>2, <2>1
<1>4. m - 1 \in 0..n /\ m - 1 \notin B
  BY <1>1, <1>2, <1>3
<1>5. PICK f : Iterates(f, T, base, G, m - 1)
  BY <1>4
<1> DEFINE g == [k \in 0..m |-> IF k = m THEN G[m][f[m - 1]] ELSE f[k]]
<1>6. /\ f \in [0..(m - 1) -> T] /\ f[0] = base
      /\ \A k \in 1..(m - 1) : f[k] = G[k][f[k - 1]]
  BY <1>5 DEF Iterates
<1>7. f[m - 1] \in T /\ G[m][f[m - 1]] \in T
  <2>1. m - 1 \in 0..(m - 1) /\ m \in 1..n
    BY <1>2, <1>3
  <2> QED BY <1>6, <2>1
<1>8. \A k \in 0..(m - 1) : g[k] = f[k] /\ k \in 0..m
  BY <1>2
<1>9. g[m] = G[m][f[m - 1]]
  BY <1>2
<1>10. g \in [0..m -> T]
  <2>1. \A k \in 0..m : (IF k = m THEN G[m][f[m - 1]] ELSE f[k]) \in T
    <3> TAKE k \in 0..m
    <3>1. k # m => k \in 0..(m - 1)
      BY <1>2
    <3> QED BY <1>6, <1>7, <3>1
  <2> QED BY <2>1
<1> HIDE DEF g
<1>11. g[0] = base
  BY <1>2, <1>3, <1>6, <1>8
<1>12. \A k \in 1..m : g[k] = G[k][g[k - 1]]
  <2> TAKE k \in 1..m
  <2>1. CASE k = m
    <3>1. g[k - 1] = f[m - 1]
      BY <1>2, <1>3, <1>8, <2>1
    <3> QED BY <1>9, <2>1, <3>1
  <2>2. CASE k # m
    <3>1. k \in 1..(m - 1) /\ k \in 0..(m - 1) /\ k - 1 \in 0..(m - 1)
      BY <1>2, <2>2
    <3>2. g[k] = f[k] /\ g[k - 1] = f[k - 1]
      BY <1>8, <3>1
    <3> QED BY <1>6, <3>1, <3>2
  <2> QED BY <2>1, <2>2
<1>13. Iterates(g, T, base, G, m)
  BY <1>10, <1>11, <1>12 DEF Iterates
<1> QED BY <1>2, <1>13

(* Induction: where each step stays in T, everything is in T.              *)
LEMMA StaysIn ==
  ASSUME NEW T, NEW n \in Nat, NEW f, f[0] \in T,
         \A k \in 1..n : f[k - 1] \in T => f[k] \in T
  PROVE  \A k \in 0..n : f[k] \in T
<1> DEFINE B == {k \in 0..n : f[k] \notin T}
<1> SUFFICES ASSUME B # {} PROVE FALSE
  OBVIOUS
<1>1. PICK k \in B : \A j \in B : k <= j
  <2>1. B \in SUBSET Nat
    OBVIOUS
  <2> HIDE DEF B
  <2> QED BY <2>1, LeastNatural
<1>2. k \in 0..n /\ f[k] \notin T
  OBVIOUS
<1>3. k # 0
  BY <1>2
<1>4. k \in 1..n /\ k - 1 \in 0..n /\ k - 1 \notin B
  BY <1>1, <1>2, <1>3
<1> QED BY <1>2, <1>4

----------------------------------------------------------------------------
(* Joining sequences: elements and whole sequences that change places.     *)

(* Concatenation with its definition hidden: the provers then compare      *)
(* joined sequences as wholes and not element by element.                  *)
s ** t == s \o t

(* Joining is associative, and nothing joined changes nothing.             *)
LEMMA Assoc == \A S : \A s, t, u \in Seq(S) : s ** (t ** u) = (s ** t) ** u
BY ConcatAssociative DEF **

LEMMA Joined2 == \A S : \A s, t \in Seq(S) : s ** t \in Seq(S)
BY ConcatProperties DEF **

LEMMA NothingJoined ==
  \A S : \A s \in Seq(S) : <<>> \in Seq(S) /\ s ** <<>> = s /\ <<>> ** s = s
BY ConcatEmptySeq, EmptySeq DEF **

LEMMA BeforeTwo ==
  ASSUME NEW S, NEW x \in Seq(S), NEW a \in Seq(S), NEW b \in Seq(S)
  PROVE  x ** (a ** b) = x ** a ** b
BY Assoc

(* A sequence before three and before four joined ones.                    *)
LEMMA BeforeThree ==
  ASSUME NEW S, NEW x \in Seq(S), NEW a \in Seq(S), NEW b \in Seq(S), NEW c \in Seq(S)
  PROVE  x ** (a ** b ** c) = x ** a ** b ** c
<1>1. x ** (a ** b) = x ** a ** b
  BY BeforeTwo
<1>2. a ** b \in Seq(S)
  BY Joined2
<1>3. x ** ((a ** b) ** c) = (x ** (a ** b)) ** c
  BY <1>2, BeforeTwo
<1> QED BY <1>1, <1>3

LEMMA BeforeFour ==
  ASSUME NEW S, NEW x \in Seq(S), NEW a \in Seq(S), NEW b \in Seq(S),
         NEW c \in Seq(S), NEW d \in Seq(S)
  PROVE  x ** (a ** b ** c ** d) = x ** a ** b ** c ** d
<1>1. x ** (a ** b ** c) = x ** a ** b ** c
  BY BeforeThree
<1>2. a ** b ** c \in Seq(S)
  BY Joined2
<1>3. x ** ((a ** b ** c) ** d) = (x ** (a ** b ** c)) ** d
  BY <1>2, BeforeTwo
<1> QED BY <1>1, <1>3

(* An element joined, and the head of a sequence joined to its tail.       *)
LEMMA OneJoined ==
  ASSUME NEW S, NEW s \in Seq(S), NEW x \in S
  PROVE  s ** <<x>> = Append(s, x) /\ <<x>> \in Seq(S) /\ Append(s, x) \in Seq(S)
<1>1. s \o <<x>> = Append(s, x)
  OBVIOUS
<1>2. <<x>> \in Seq(S) /\ Append(s, x) \in Seq(S)
  OBVIOUS
<1> QED BY <1>1, <1>2 DEF **

LEMMA HeadJoined ==
  ASSUME NEW S, NEW t \in Seq(S), t # <<>>
  PROVE  <<Head(t)>> ** Tail(t) = t /\ Head(t) \in S /\ Tail(t) \in Seq(S)
<1>1. Head(t) \in S /\ Tail(t) \in Seq(S) /\ Len(t) \in Nat /\ Len(t) > 0
  BY HeadTailProperties, EmptySeq
<1>2. /\ Len(Tail(t)) = Len(t) - 1 /\ \A i \in 1..Len(Tail(t)) : Tail(t)[i] = t[i + 1]
      /\ Head(t) = t[1]
  BY HeadTailProperties DEF Head
<1> DEFINE h == Head(t)
           r == Tail(t)
<1>3. h \in S /\ r \in Seq(S) /\ Len(r) = Len(t) - 1 /\ h = t[1]
  BY <1>1, <1>2
<1>4. \A i \in 1..Len(r) : r[i] = t[i + 1]
  BY <1>2
<1> HIDE DEF h, r
<1>5. <<h>> \o r \in Seq(S) /\ Len(<<h>> \o r) = Len(t)
  BY <1>1, <1>3
<1>6. \A i \in 1..Len(t) : (<<h>> \o r)[i] = t[i]
  BY <1>1, <1>3, <1>4
<1>7. <<h>> \o r = t
  BY <1>5, <1>6, SeqEqual
<1> QED BY <1>3, <1>7 DEF h, r, **

(* An element that goes from the head of one sequence to the end of the    *)
(* one before it.                                                          *)
LEMMA HeadMoves ==
  ASSUME NEW S, NEW s \in Seq(S), NEW t \in Seq(S), t # <<>>
  PROVE  Append(s, Head(t)) ** Tail(t) = s ** t
<1> DEFINE h == <<Head(t)>>
           r == Tail(t)
<1>1. h ** r = t /\ Head(t) \in S /\ r \in Seq(S)
  BY HeadJoined
<1>2. s ** h = Append(s, Head(t)) /\ h \in Seq(S)
  BY <1>1, OneJoined
<1> HIDE DEF h, r
<1>3. s ** (h ** r) = (s ** h) ** r
  <2>1. h \in Seq(S) /\ r \in Seq(S)
    BY <1>1, <1>2
  <2> QED BY <2>1, BeforeTwo
<1>4. Append(s, Head(t)) ** r = s ** t
  BY <1>1, <1>2, <1>3, Zenon
<1> QED BY <1>4 DEF r

(* An element joined last is the last of all.                              *)
LEMMA AppendAtEnd ==
  ASSUME NEW S, NEW s \in Seq(S), NEW t \in Seq(S), NEW x \in S
  PROVE  s ** Append(t, x) = Append(s ** t, x)
<1>1. s \o Append(t, x) = Append(s \o t, x)
  OBVIOUS
<1> QED BY <1>1 DEF **

(* Where the head and the elements of joined sequences come from.          *)
LEMMA EmptyJoined ==
  ASSUME NEW S, NEW s \in Seq(S), NEW t \in Seq(S), s ** t = <<>>
  PROVE  s = <<>> /\ t = <<>>
<1>1. s \o t = <<>>
  BY Zenon DEF **
<1> QED BY <1>1, ConcatEqualIffEmpty

LEMMA ConsHeadTail ==
  ASSUME NEW S, NEW x \in S, NEW v \in Seq(S)
  PROVE  Head(<<x>> \o v) = x /\ Tail(<<x>> \o v) = v
<1> DEFINE u == <<x>> \o v
<1>1. u \in Seq(S) /\ Len(u) = Len(v) + 1 /\ u[1] = x /\ Len(v) \in Nat
  OBVIOUS
<1>2. \A i \in 1..Len(v) : u[i + 1] = v[i]
  OBVIOUS
<1> HIDE DEF u
<1>3. Len(u) # 0
  BY <1>1
<1>4. u # <<>>
  BY <1>3, EmptySeq
<1>5. /\ Tail(u) \in Seq(S) /\ Len(Tail(u)) = Len(u) - 1
      /\ \A i \in 1..Len(Tail(u)) : Tail(u)[i] = u[i + 1]
  BY <1>1, <1>4, HeadTailProperties
<1>6. Len(Tail(u)) = Len(v) /\ \A i \in 1..Len(Tail(u)) : Tail(u)[i] = v[i]
  BY <1>1, <1>2, <1>5
<1>7. Tail(u) = v
  BY <1>5, <1>6, SeqEqual
<1>8. Head(u) = x
  BY <1>1 DEF Head
<1> QED BY <1>7, <1>8 DEF u

LEMMA JoinedHead ==
  ASSUME NEW S, NEW s \in Seq(S), NEW t \in Seq(S), s # <<>>
  PROVE  /\ s ** t # <<>> /\ Head(s ** t) = Head(s)
         /\ Tail(s ** t) = Tail(s) ** t
<1> DEFINE u == s ** t
           h == <<Head(s)>>
           r == Tail(s)
<1>1. h ** r = s /\ Head(s) \in S /\ r \in Seq(S) /\ h \in Seq(S)
  BY HeadJoined, OneJoined
<1>2. u \in Seq(S) /\ u # <<>>
  BY Joined2, EmptyJoined
<1>3. u = h ** (r ** t) /\ r ** t \in Seq(S)
  <2>1. h \in Seq(S) /\ r \in Seq(S)
    BY <1>1
  <2> HIDE DEF h, r
  <2> QED BY <1>1, <2>1, BeforeTwo, Joined2
<1> DEFINE v == r ** t
<1> HIDE DEF v
<1>4. v \in Seq(S) /\ u = <<Head(s)>> \o v
  BY <1>3, Zenon DEF v, **
<1> HIDE DEF u, r
<1>5. Head(u) = Head(s) /\ Tail(u) = v
  BY <1>1, <1>4, ConsHeadTail
<1> QED BY <1>2, <1>5 DEF u, v, r

(* The first part of a sequence and the rest.                              *)
LEMMA Parts ==
  ASSUME NEW S, NEW s \in Seq(S), NEW n \in 0..Len(s)
  PROVE  /\ SubSeq(s, 1, n) ** SubSeq(s, n + 1, Len(s)) = s
         /\ SubSeq(s, 1, n) \in Seq(S) /\ SubSeq(s, n + 1, Len(s)) \in Seq(S)
<1>1. Len(s) \in Nat
  OBVIOUS
<1>2. 1 \in 1..(Len(s) + 1) /\ n \in (1 - 1)..Len(s) /\ Len(s) \in n..Len(s)
  BY <1>1
<1>3. SubSeq(s, 1, n) \o SubSeq(s, n + 1, Len(s)) = SubSeq(s, 1, Len(s))
  BY <1>2, ConcatAdjacentSubSeq
<1>4. SubSeq(s, 1, Len(s)) = s
  BY SubSeqFull
<1>5. SubSeq(s, 1, n) \in Seq(S) /\ SubSeq(s, n + 1, Len(s)) \in Seq(S)
  OBVIOUS
<1> QED BY <1>3, <1>4, <1>5, Zenon DEF **

LEMMA JoinedElements ==
  ASSUME NEW S, NEW s \in Seq(S), NEW t \in Seq(S)
  PROVE  /\ Len(s ** t) = Len(s) + Len(t)
         /\ \A k \in 1..Len(s) : (s ** t)[k] = s[k]
         /\ \A k \in 1..Len(t) : (s ** t)[Len(s) + k] = t[k]
<1> DEFINE u == s \o t
<1>1. /\ Len(u) = Len(s) + Len(t)
      /\ \A k \in 1..Len(s) : u[k] = s[k]
      /\ \A k \in 1..Len(t) : u[Len(s) + k] = t[k]
  OBVIOUS
<1>2. s ** t = u
  BY Zenon DEF **
<1> HIDE DEF u
<1> QED BY <1>1, <1>2

=============================================================================
