--------------------------- MODULE SelectionProofs --------------------------
(***************************************************************************)
(* Facts about Selected, for every sequence.  The library's induction      *)
(* theorems take an operator as a parameter; here the principle is stated  *)
(* of sets instead: a set of natural numbers that holds 0 and with every   *)
(* number the next is Nat.                                                 *)
(***************************************************************************)
EXTENDS Selection, Integers, SequenceTheorems, WellFoundedInduction, TLAPS

Less == {p \in Nat \X Nat : p[1] < p[2]}

LEMMA LessIsWellFounded == IsWellFoundedOn(Less, Nat)
<1>1. OpToRel(<, Nat) = Less
  BY DEF OpToRel, Less
<1> QED
  BY <1>1, NatLessThanWellFounded, Zenon

(***************************************************************************)
(* A set of natural numbers that is not empty has a least element.         *)
(***************************************************************************)
LEMMA LeastNatural ==
    ASSUME NEW N \in SUBSET Nat, N # {}
    PROVE  \E n \in N : \A m \in N : n <= m
<1>1. PICK x \in N : \A y \in N : ~(<<y, x>> \in Less)
  BY LessIsWellFounded, WFMin
<1>2. \A y \in N : x <= y
  <2> SUFFICES ASSUME NEW y \in N, ~(x <= y)
               PROVE  FALSE
    OBVIOUS
  <2>1. <<y, x>> \in Nat \X Nat /\ y < x
    OBVIOUS
  <2>2. <<y, x>> \in Less
    BY <2>1 DEF Less
  <2> QED
    BY <1>1, <2>2
<1> QED
  BY <1>2

LEMMA Induction ==
    ASSUME NEW N \in SUBSET Nat, 0 \in N, \A n \in N : n + 1 \in N
    PROVE  N = Nat
<1> SUFFICES ASSUME Nat \ N # {}
             PROVE  FALSE
  OBVIOUS
<1>1. PICK n \in Nat \ N : \A m \in Nat \ N : n <= m
  BY LeastNatural
<1>2. n # 0 /\ n - 1 \in Nat
  BY <1>1
<1>3. n - 1 \in N
  BY <1>1, <1>2
<1> QED
  BY <1>1, <1>3

LEMMA SequenceInduction ==
    ASSUME NEW M, NEW T \in SUBSET Seq(M), <<>> \in T,
           \A q \in T, x \in M : Append(q, x) \in T
    PROVE  T = Seq(M)
<1> DEFINE N == {n \in Nat : \A q \in Seq(M) : Len(q) = n => q \in T}
<1>1. 0 \in N
  BY EmptySeq
<1>2. ASSUME NEW n \in N
      PROVE  n + 1 \in N
  <2> SUFFICES ASSUME NEW q \in Seq(M), Len(q) = n + 1
               PROVE  q \in T
    OBVIOUS
  <2>1. q # <<>>
    BY EmptySeq
  <2>2. PICK s \in Seq(M), x \in M : q = Append(s, x)
    BY <2>1, SequenceEmptyOrAppend
  <2>3. Len(s) = n /\ Len(s) \in Nat
    BY <2>2, AppendProperties, LenProperties
  <2>4. s \in T
    BY <2>3
  <2> QED
    BY <2>2, <2>4
<1>3. N = Nat
  <2> HIDE DEF N
  <2>1. N \in SUBSET Nat
    BY DEF N
  <2> QED
    BY <1>1, <1>2, <2>1, Induction
<1> QED
  BY <1>3, LenProperties

-----------------------------------------------------------------------------
(***************************************************************************)
(* The recursion that defines Selected has a solution.                     *)
(***************************************************************************)
Step(q, S, F, i) ==
    IF i = 0 THEN <<>>
    ELSE IF q[i] \in S THEN Append(F[i - 1], q[i]) ELSE F[i - 1]

Solves(q, S, F, n) == F = [i \in 0 .. n |-> Step(q, S, F, i)]

LEMMA SolutionExists ==
    ASSUME NEW q, NEW S, NEW m \in Nat
    PROVE  \E F : Solves(q, S, F, m)
<1> DEFINE N == {n \in Nat : \E F : Solves(q, S, F, n)}
<1>1. 0 \in N
  <2> DEFINE F == [i \in 0 .. 0 |-> <<>>]
  <2>1. Solves(q, S, F, 0)
    BY DEF Solves, Step
  <2> HIDE DEF F
  <2> QED
    BY <2>1
<1>2. ASSUME NEW n \in N
      PROVE  n + 1 \in N
  <2>1. PICK F : Solves(q, S, F, n)
    BY <1>2
  <2> DEFINE G == [i \in 0 .. n + 1 |-> IF i = n + 1 THEN Step(q, S, F, i) ELSE F[i]]
  <2>2. \A i \in 0 .. n : G[i] = F[i]
    OBVIOUS
  <2>3. \A i \in 0 .. n + 1 : Step(q, S, G, i) = Step(q, S, F, i)
    BY <2>2 DEF Step
  <2>4. \A i \in 0 .. n : F[i] = Step(q, S, F, i)
    BY <2>1 DEF Solves
  <2>5. Solves(q, S, G, n + 1)
    BY <2>3, <2>4 DEF Solves
  <2> HIDE DEF G
  <2> QED
    BY <2>5
<1>3. N = Nat
  <2> HIDE DEF N
  <2>1. N \in SUBSET Nat
    BY DEF N
  <2> QED
    BY <1>1, <1>2, <2>1, Induction
<1> QED
  BY <1>3

LEMMA SelectedIsSolution ==
    ASSUME NEW M, NEW q \in Seq(M), NEW S
    PROVE  \E F : Solves(q, S, F, Len(q)) /\ Selected(q, S) = F[Len(q)]
<1>1. Len(q) \in Nat
  BY LenProperties
<1> DEFINE C == CHOOSE F : Solves(q, S, F, Len(q))
<1>2. Solves(q, S, C, Len(q))
  BY <1>1, SolutionExists
<1>3. Selected(q, S) = C[Len(q)]
  BY DEF Selected, Solves, Step
<1> HIDE DEF C
<1> QED
  BY <1>2, <1>3

Same(p, q, n) == \A i \in 1 .. n : p[i] = q[i]

LEMMA SolutionsAgree ==
    ASSUME NEW S, NEW n \in Nat,
           NEW p, NEW F, Solves(p, S, F, n),
           NEW q, NEW G, Solves(q, S, G, n + 1), Same(p, q, n)
    PROVE  G[n + 1] = Step(q, S, F, n + 1)
<1> DEFINE N == {i \in Nat : i <= n => F[i] = G[i]}
<1>1. \A i \in 0 .. n : F[i] = Step(p, S, F, i)
  BY DEF Solves
<1>2. \A i \in 0 .. n + 1 : G[i] = Step(q, S, G, i)
  BY DEF Solves
<1>3. 0 \in N
  BY <1>1, <1>2 DEF Step
<1>4. ASSUME NEW i \in N
      PROVE  i + 1 \in N
  <2> SUFFICES ASSUME i + 1 <= n
               PROVE  F[i + 1] = G[i + 1]
    OBVIOUS
  <2>1. F[i] = G[i] /\ p[i + 1] = q[i + 1]
    BY DEF Same
  <2> QED
    BY <1>1, <1>2, <2>1 DEF Step
<1>5. N = Nat
  <2> HIDE DEF N
  <2>1. N \in SUBSET Nat
    BY DEF N
  <2> QED
    BY <1>3, <1>4, <2>1, Induction
<1>6. F[n] = G[n]
  BY <1>5
<1> QED
  BY <1>2, <1>6 DEF Step

-----------------------------------------------------------------------------
(***************************************************************************)
(* What is selected of an empty sequence, and of one that grows.           *)
(***************************************************************************)
LEMMA SelectedOfNone == ASSUME NEW S PROVE Selected(<<>>, S) = <<>>
<1>1. <<>> \in Seq({}) /\ Len(<<>>) = 0
  BY EmptySeq
<1>2. PICK F : Solves(<<>>, S, F, 0) /\ Selected(<<>>, S) = F[0]
  BY <1>1, SelectedIsSolution
<1> QED
  BY <1>2 DEF Solves, Step

LEMMA SelectedAppend ==
    ASSUME NEW M, NEW q \in Seq(M), NEW x \in M, NEW S
    PROVE  Selected(Append(q, x), S) = IF x \in S THEN Append(Selected(q, S), x)
                                       ELSE Selected(q, S)
<1> DEFINE r == Append(q, x)
           n == Len(q)
<1>1. /\ r \in Seq(M) /\ n \in Nat /\ Len(r) = n + 1
      /\ \A i \in 1 .. n : r[i] = q[i]
      /\ r[n + 1] = x
  BY AppendProperties, LenProperties
<1>2. PICK F : Solves(q, S, F, n) /\ Selected(q, S) = F[n]
  BY SelectedIsSolution
<1>3. PICK G : Solves(r, S, G, n + 1) /\ Selected(r, S) = G[n + 1]
  BY <1>1, SelectedIsSolution
<1> HIDE DEF r, n
<1>4. Same(q, r, n)
  BY <1>1 DEF Same
<1>5. G[n + 1] = Step(r, S, F, n + 1)
  BY <1>1, <1>2, <1>3, <1>4, SolutionsAgree
<1>6. G[n + 1] = IF x \in S THEN Append(F[n], x) ELSE F[n]
  BY <1>1, <1>5 DEF Step
<1> QED
  BY <1>2, <1>3, <1>6 DEF r

LEMMA SelectedTyped ==
    ASSUME NEW M, NEW q \in Seq(M), NEW S
    PROVE  Selected(q, S) \in Seq(M \cap S)
<1> DEFINE T == {p \in Seq(M) : Selected(p, S) \in Seq(M \cap S)}
<1>1. <<>> \in T
  BY SelectedOfNone, EmptySeq
<1>2. ASSUME NEW p \in T, NEW x \in M
      PROVE  Append(p, x) \in T
  <2>1. Append(p, x) \in Seq(M)
    BY AppendProperties
  <2>2. x \in S => Append(Selected(p, S), x) \in Seq(M \cap S)
    BY AppendProperties
  <2> QED
    BY <2>1, <2>2, SelectedAppend
<1>3. T = Seq(M)
  <2> HIDE DEF T
  <2>1. T \in SUBSET Seq(M)
    BY DEF T
  <2> QED
    BY <1>1, <1>2, <2>1, SequenceInduction
<1> QED
  BY <1>3

LEMMA ConcatAppend ==
    ASSUME NEW M, NEW p \in Seq(M), NEW q \in Seq(M), NEW x \in M
    PROVE  p \o Append(q, x) = Append(p \o q, x)
<1>1. p \o q \in Seq(M) /\ <<x>> \in Seq(M)
  BY ConcatProperties
<1>2. Append(q, x) = q \o <<x>> /\ Append(p \o q, x) = (p \o q) \o <<x>>
  BY <1>1, AppendIsConcat
<1> QED
  BY <1>1, <1>2, ConcatAssociative

LEMMA SelectedConcat ==
    ASSUME NEW M, NEW p \in Seq(M), NEW q \in Seq(M), NEW S
    PROVE  Selected(p \o q, S) = Selected(p, S) \o Selected(q, S)
<1> DEFINE T == {r \in Seq(M) : Selected(p \o r, S) = Selected(p, S) \o Selected(r, S)}
<1>1. <<>> \in T
  <2>1. Selected(p, S) \in Seq(M \cap S)
    BY SelectedTyped
  <2>2. Selected(p, S) \o <<>> = Selected(p, S) /\ p \o <<>> = p
    BY <2>1, ConcatEmptySeq
  <2> QED
    BY <2>2, SelectedOfNone, EmptySeq
<1>2. ASSUME NEW r \in T, NEW x \in M
      PROVE  Append(r, x) \in T
  <2>1. r \in Seq(M) /\ Append(r, x) \in Seq(M) /\ p \o r \in Seq(M)
    BY AppendProperties, ConcatProperties
  <2>2. p \o Append(r, x) = Append(p \o r, x)
    BY <2>1, ConcatAppend
  <2>3. Selected(p, S) \in Seq(M \cap S) /\ Selected(r, S) \in Seq(M \cap S)
    BY <2>1, SelectedTyped
  <2>4. Selected(p \o r, S) = Selected(p, S) \o Selected(r, S)
    OBVIOUS
  <2>5. Selected(Append(p \o r, x), S) = IF x \in S THEN Append(Selected(p \o r, S), x)
                                         ELSE Selected(p \o r, S)
    <3> DEFINE pr == p \o r
    <3>1. pr \in Seq(M)
      BY <2>1
    <3> HIDE DEF pr
    <3>2. Selected(Append(pr, x), S) = IF x \in S THEN Append(Selected(pr, S), x)
                                       ELSE Selected(pr, S)
      BY <3>1, SelectedAppend, Zenon
    <3> QED
      BY <3>2 DEF pr
  <2>6. Selected(Append(r, x), S) = IF x \in S THEN Append(Selected(r, S), x)
                                    ELSE Selected(r, S)
    BY <2>1, SelectedAppend, Zenon
  <2>7. CASE x \in S
    <3>1. x \in M \cap S
      BY <2>7
    <3>2. Append(Selected(p, S) \o Selected(r, S), x) = Selected(p, S) \o Append(Selected(r, S), x)
      <4> DEFINE s1 == Selected(p, S)
                 s2 == Selected(r, S)
      <4>1. s1 \in Seq(M \cap S) /\ s2 \in Seq(M \cap S)
        BY <2>3
      <4> HIDE DEF s1, s2
      <4>2. Append(s1 \o s2, x) = s1 \o Append(s2, x)
        BY <3>1, <4>1
      <4> QED
        BY <4>2 DEF s1, s2
    <3> QED
      BY <2>1, <2>2, <2>4, <2>5, <2>6, <2>7, <3>2
  <2>8. CASE x \notin S
    BY <2>1, <2>2, <2>4, <2>5, <2>6, <2>8
  <2> QED
    BY <2>7, <2>8
<1>3. T = Seq(M)
  <2> HIDE DEF T
  <2>1. T \in SUBSET Seq(M)
    BY DEF T
  <2> QED
    BY <1>1, <1>2, <2>1, SequenceInduction
<1> QED
  BY <1>3

LEMMA SelectedOfOne ==
    ASSUME NEW x, NEW S
    PROVE  Selected(<<x>>, S) = IF x \in S THEN <<x>> ELSE <<>>
<1>1. <<>> \in Seq({x}) /\ x \in {x}
  BY EmptySeq
<1>2. Append(<<>>, x) = <<x>>
  OBVIOUS
<1>3. Selected(Append(<<>>, x), S) = IF x \in S THEN Append(Selected(<<>>, S), x)
                                      ELSE Selected(<<>>, S)
  BY <1>1, SelectedAppend, Zenon
<1> QED
  BY <1>2, <1>3, SelectedOfNone

LEMMA SelectedHeadTail ==
    ASSUME NEW M, NEW q \in Seq(M), q # <<>>, NEW S
    PROVE  Selected(q, S) = IF Head(q) \in S THEN <<Head(q)>> \o Selected(Tail(q), S)
                            ELSE Selected(Tail(q), S)
<1>1. Head(q) \in M /\ Tail(q) \in Seq(M) /\ <<Head(q)>> \in Seq(M)
  BY HeadTailProperties
<1>2. q = <<Head(q)>> \o Tail(q)
  BY <1>1, HeadTailProperties
<1>3. Selected(Tail(q), S) \in Seq(M \cap S)
  BY <1>1, SelectedTyped
<1>4. <<>> \o Selected(Tail(q), S) = Selected(Tail(q), S)
  BY <1>3, ConcatEmptySeq
<1>5. Selected(q, S) = Selected(<<Head(q)>>, S) \o Selected(Tail(q), S)
  <2> DEFINE h == <<Head(q)>>
             t == Tail(q)
  <2>1. h \in Seq(M) /\ t \in Seq(M) /\ q = h \o t
    BY <1>1, <1>2
  <2> HIDE DEF h, t
  <2>2. Selected(h \o t, S) = Selected(h, S) \o Selected(t, S)
    BY <2>1, SelectedConcat
  <2> QED
    BY <2>1, <2>2 DEF h, t
<1>6. Selected(<<Head(q)>>, S) = IF Head(q) \in S THEN <<Head(q)>> ELSE <<>>
  BY SelectedOfOne, Zenon
<1> QED
  BY <1>4, <1>5, <1>6

LEMMA SelectedOfOthers ==
    ASSUME NEW M, NEW q \in Seq(M), NEW S, M \cap S = {}
    PROVE  Selected(q, S) = <<>>
<1>1. Selected(q, S) \in Seq({})
  BY SelectedTyped
<1>2. \A s \in Seq({}) : s = <<>>
  OBVIOUS
<1> QED
  BY <1>1, <1>2

LEMMA SelectedFinds ==
    ASSUME NEW M, NEW q \in Seq(M), NEW S, NEW i \in 1 .. Len(q), q[i] \in S
    PROVE  Selected(q, S) # <<>>
<1> DEFINE Found(p) == (\E j \in 1 .. Len(p) : p[j] \in S) => Selected(p, S) # <<>>
           T == {p \in Seq(M) : Found(p)}
<1>1. <<>> \in T
  BY EmptySeq
<1>2. ASSUME NEW p \in T, NEW x \in M
      PROVE  Append(p, x) \in T
  <2> DEFINE z == Append(p, x)
  <2>1. /\ z \in Seq(M) /\ Len(z) = Len(p) + 1 /\ Len(p) \in Nat
        /\ \A j \in 1 .. Len(p) : z[j] = p[j]
        /\ z[Len(p) + 1] = x
    BY AppendProperties, LenProperties
  <2>2. Selected(z, S) = IF x \in S THEN Append(Selected(p, S), x) ELSE Selected(p, S)
    BY SelectedAppend, Zenon
  <2>3. Selected(p, S) \in Seq(M \cap S)
    BY SelectedTyped
  <2> DEFINE u == Selected(p, S)
             K == M \cap S
  <2>4. ASSUME x \in S PROVE Append(u, x) # <<>>
    <3>1. u \in Seq(K) /\ x \in K
      BY <2>3, <2>4
    <3> HIDE DEF u, K
    <3> QED
      BY <3>1, AppendProperties, EmptySeq
  <2> HIDE DEF z
  <2>5. Found(z)
    <3> SUFFICES ASSUME NEW j \in 1 .. Len(z), z[j] \in S
                 PROVE  Selected(z, S) # <<>>
      OBVIOUS
    <3>1. CASE x \in S
      BY <2>2, <2>4, <3>1
    <3>2. CASE x \notin S
      <4>1. j \in 1 .. Len(p) /\ p[j] \in S
        BY <2>1, <3>2
      <4> QED
        BY <2>2, <3>2, <4>1
    <3> QED
      BY <3>1, <3>2
  <2> QED
    BY <2>1, <2>5 DEF z
<1>3. T = Seq(M)
  <2> HIDE DEF T
  <2>1. T \in SUBSET Seq(M)
    BY DEF T
  <2> QED
    BY <1>1, <1>2, <2>1, SequenceInduction
<1> QED
  BY <1>3

-----------------------------------------------------------------------------
(***************************************************************************)
(* Sequences that are put together.  The predicates have names so that the *)
(* provers meet no sequence operator where they only need the fact.        *)
(***************************************************************************)
LEMMA SeqMonotone ==
    ASSUME NEW A, NEW B, A \subseteq B, NEW q \in Seq(A)
    PROVE  q \in Seq(B)
OBVIOUS

\* Appending to the second of two sequences.
Associates(q, r, m) == Append(q \o r, m) = q \o Append(r, m)

LEMMA AppendAssociates ==
    ASSUME NEW M, NEW q \in Seq(M), NEW r \in Seq(M), NEW m \in M
    PROVE  Associates(q, r, m)
BY DEF Associates

Parts(p, q) ==
    /\ Len(p) \in Nat /\ Len(q) \in Nat
    /\ Len(p \o q) = Len(p) + Len(q) /\ DOMAIN (p \o q) = 1 .. Len(p) + Len(q)
    /\ \A i \in 1 .. Len(p) : (p \o q)[i] = p[i]
    /\ \A i \in 1 .. Len(q) : (p \o q)[Len(p) + i] = q[i]

LEMMA ConcatHasParts ==
    ASSUME NEW M, NEW p \in Seq(M), NEW q \in Seq(M)
    PROVE  Parts(p, q)
<1>1. Len(p) \in Nat /\ Len(q) \in Nat /\ p \o q \in Seq(M) /\ Len(p \o q) = Len(p) + Len(q)
  BY LenProperties, ConcatProperties
<1>2. DOMAIN (p \o q) = 1 .. Len(p \o q)
  BY <1>1, LenProperties
<1>3. \A i \in 1 .. Len(p) + Len(q) :
          (p \o q)[i] = IF i <= Len(p) THEN p[i] ELSE q[i - Len(p)]
  BY ConcatProperties
<1>4. \A i \in 1 .. Len(p) : (p \o q)[i] = p[i]
  BY <1>1, <1>3
<1>5. \A i \in 1 .. Len(q) : (p \o q)[Len(p) + i] = q[i]
  <2> TAKE i \in 1 .. Len(q)
  <2>1. Len(p) + i \in 1 .. Len(p) + Len(q) /\ ~(Len(p) + i <= Len(p))
        /\ Len(p) + i - Len(p) = i
    BY <1>1
  <2> QED
    BY <1>3, <2>1
<1> QED
  BY <1>1, <1>2, <1>4, <1>5 DEF Parts

InTheMiddle(x, y, z) ==
    LET w == (x \o y) \o z
        n == Len(w) - Len(z)
    IN  Len(x) \in 0 .. n /\ SubSeq(w, Len(x) + 1, n) = y

LEMMA MiddlePart ==
    ASSUME NEW M, NEW x \in Seq(M), NEW y \in Seq(M), NEW z \in Seq(M)
    PROVE  InTheMiddle(x, y, z)
<1> DEFINE w == (x \o y) \o z
           l == Len(x)
           k == Len(y)
<1>1. l \in Nat /\ k \in Nat /\ Len(z) \in Nat
  BY LenProperties
<1> DEFINE v == x \o y
<1>2. v \in Seq(M) /\ w = v \o z /\ w \in Seq(M)
  BY ConcatProperties
<1>3. Parts(x, y)
  BY ConcatHasParts, Zenon
<1>4. Parts(v, z)
  <2> HIDE DEF v
  <2> QED
    BY <1>2, ConcatHasParts, Zenon
<1>5. Len(v) = l + k /\ \A i \in 1 .. k : v[l + i] = y[i]
  BY <1>3 DEF Parts
<1> HIDE DEF v, w, l, k
<1>6. Len(w) = l + k + Len(z) /\ \A i \in 1 .. l + k : w[i] = v[i]
  BY <1>2, <1>4, <1>5 DEF Parts
<1> DEFINE u == SubSeq(w, l + 1, l + k)
<1>7. u \in Seq(M) /\ Len(u) = k /\ \A i \in 1 .. k : u[i] = w[l + 1 + i - 1]
  <2>1. \A i \in l + 1 .. l + k : w[i] \in M
    BY <1>1, <1>2, <1>6
  <2> QED
    BY <1>1, <2>1, SubSeqProperties
<1>8. \A i \in 1 .. k : u[i] = y[i]
  <2> TAKE i \in 1 .. k
  <2>1. l + 1 + i - 1 = l + i /\ l + i \in 1 .. l + k
    BY <1>1
  <2> QED
    BY <1>5, <1>6, <1>7, <2>1
<1> HIDE DEF u
<1>9. u = y
  BY <1>7, <1>8, SeqEqual DEF k
<1>10. Len(w) - Len(z) = l + k /\ l \in 0 .. l + k
  BY <1>1, <1>6
<1> QED
  BY <1>9, <1>10 DEF u, w, l, InTheMiddle

Final(q) == q[Len(q)]

LEMMA FinalOfConcat ==
    ASSUME NEW M, NEW p \in Seq(M), NEW q \in Seq(M)
    PROVE  /\ q = <<>> => p \o q = p
           /\ q # <<>> => Final(p \o q) = Final(q) /\ Final(q) \in M
<1>1. q = <<>> => p \o q = p
  BY ConcatEmptySeq
<1>2. Parts(p, q)
  BY ConcatHasParts, Zenon
<1>3. ASSUME q # <<>>
      PROVE  Final(p \o q) = Final(q) /\ Final(q) \in M
  <2>1. Len(q) \in 1 .. Len(q)
    BY <1>2, <1>3, EmptySeq DEF Parts
  <2>2. q[Len(q)] \in M
    BY <2>1, ElementOfSeq
  <2>3. (p \o q)[Len(p) + Len(q)] = q[Len(q)] /\ Len(p \o q) = Len(p) + Len(q)
    BY <1>2, <2>1 DEF Parts
  <2> QED
    BY <2>2, <2>3 DEF Final
<1> QED
  BY <1>1, <1>3
=============================================================================
