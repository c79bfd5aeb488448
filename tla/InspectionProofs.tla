--------------------------- MODULE InspectionProofs ---------------------------
(***************************************************************************)
(* Theorems about Inspection.tla, for every finite store of Seals, every   *)
(* set of heads, every scope of observers and every bound: what impact,    *)
(* log, linklog, observe and the direction summary of trace compare answer.*)
(* At the end those about Traces.tla, for texts of any bytes and length:   *)
(* the search of trace compare and the pages of trace occurrences.         *)
(***************************************************************************)
EXTENDS Inspection, Traces, FiniteSetTheorems, SequenceTheorems, TLAPS

-----------------------------------------------------------------------------
(* Orders and ranks.  The rank of a member of a finite ordered set is the  *)
(* number of those before it.                                              *)

Orders(R, X) ==
    /\ \A x \in X : <<x, x>> \notin R
    /\ \A x, y \in X : x # y => <<x, y>> \in R \/ <<y, x>> \in R
    /\ \A x, y, z \in X : <<x, y>> \in R /\ <<y, z>> \in R => <<x, z>> \in R

Rank(R, X, x)   == Cardinality({y \in X : <<y, x>> \in R})
Leading(R, n, X) == {x \in X : Rank(R, X, x) < n}

LEMMA LeastMember ==
    ASSUME NEW T \in SUBSET Nat, T # {}
    PROVE  \E n \in T : \A m \in T : n <= m
<1> DEFINE R == {ss \in Nat \X Nat : ss[1] < ss[2]}
<1>1. IsWellFoundedOn(R, Nat)
  BY NatLessThanWellFounded DEF OpToRel
<1>2. PICK n \in T : \A m \in T : ~ (<<m, n>> \in R)
  <2> HIDE DEF R
  <2> QED BY <1>1, WFMin
<1>3. \A m \in T : ~(m < n)
  BY <1>2
<1> QED BY <1>3

LEMMA RankIsNat ==
    ASSUME NEW R, NEW X, IsFiniteSet(X), NEW x
    PROVE  /\ IsFiniteSet({y \in X : <<y, x>> \in R})
           /\ Rank(R, X, x) \in Nat
<1> DEFINE B == {y \in X : <<y, x>> \in R}
<1>1. B \in SUBSET X
  OBVIOUS
<1> HIDE DEF B
<1>2. IsFiniteSet(B) /\ Cardinality(B) \in Nat
  BY <1>1, FS_Subset, FS_CardinalityType
<1> QED BY <1>2 DEF B, Rank

(* What comes later has the higher rank. *)
LEMMA RankGrows ==
    ASSUME NEW R, NEW X, IsFiniteSet(X), Orders(R, X),
           NEW x \in X, NEW y \in X, <<x, y>> \in R
    PROVE  Rank(R, X, x) < Rank(R, X, y)
<1> DEFINE B == {z \in X : <<z, x>> \in R}
           C == {z \in X : <<z, y>> \in R}
<1>1. x \notin B /\ B \cup {x} \in SUBSET C
  BY DEF Orders
<1>2. IsFiniteSet(B) /\ IsFiniteSet(C) /\ Cardinality(B) \in Nat /\ Cardinality(C) \in Nat
  BY RankIsNat DEF Rank
<1> HIDE DEF B, C
<1>3. Cardinality(B \cup {x}) = Cardinality(B) + 1
  BY <1>1, <1>2, FS_AddElement
<1>4. Cardinality(B \cup {x}) <= Cardinality(C)
  BY <1>1, <1>2, FS_Subset
<1>5. Cardinality(B) < Cardinality(C)
  BY <1>2, <1>3, <1>4
<1> QED BY <1>5 DEF Rank, B, C

(* Ranks tell the members apart, and every number below the size is one.   *)
LEMMA RanksCount ==
    ASSUME NEW R, NEW X, IsFiniteSet(X), Orders(R, X)
    PROVE  /\ Cardinality(X) \in Nat
           /\ \A x \in X : Rank(R, X, x) \in 0..(Cardinality(X) - 1)
           /\ \A x, y \in X : Rank(R, X, x) = Rank(R, X, y) => x = y
           /\ \A k \in 0..(Cardinality(X) - 1) : \E x \in X : Rank(R, X, x) = k
<1> DEFINE n == Cardinality(X)
           f == [x \in X |-> Rank(R, X, x)]
<1>1. n \in Nat
  BY FS_CardinalityType
<1>2. ASSUME NEW x \in X
      PROVE  Rank(R, X, x) \in 0..(n - 1)
  <2> DEFINE B == {y \in X : <<y, x>> \in R}
  <2>1. B \cup {x} \in SUBSET X /\ x \notin B
    BY DEF Orders
  <2>2. IsFiniteSet(B) /\ Cardinality(B) \in Nat
    BY RankIsNat DEF Rank
  <2> HIDE DEF B
  <2>3. Cardinality(B) + 1 <= Cardinality(X)
    <3>1. Cardinality(B \cup {x}) = Cardinality(B) + 1
      BY <2>1, <2>2, FS_AddElement
    <3>2. Cardinality(B \cup {x}) <= Cardinality(X)
      BY <2>1, FS_Subset
    <3> QED BY <3>1, <3>2
  <2>4. Cardinality(B) \in 0..(n - 1)
    BY <2>2, <2>3, <1>1
  <2> QED BY <2>4 DEF B, Rank
<1>3. ASSUME NEW x \in X, NEW y \in X, Rank(R, X, x) = Rank(R, X, y)
      PROVE  x = y
  <2>1. ASSUME x # y PROVE FALSE
    <3>1. <<x, y>> \in R \/ <<y, x>> \in R
      BY <2>1 DEF Orders
    <3>2. Rank(R, X, x) \in Nat /\ Rank(R, X, y) \in Nat
      BY RankIsNat
    <3>3. Rank(R, X, x) < Rank(R, X, y) \/ Rank(R, X, y) < Rank(R, X, x)
      BY <3>1, RankGrows
    <3> QED BY <1>3, <3>2, <3>3
  <2> QED BY <2>1
<1>4. f \in Injection(X, 0..(n - 1))
  <2>1. f \in [X -> 0..(n - 1)]
    BY <1>2
  <2>2. \A x, y \in X : f[x] = f[y] => x = y
    BY <1>3
  <2> QED BY <2>1, <2>2 DEF Injection, IsInjective
<1>5. IsFiniteSet(0..(n - 1)) /\ Cardinality(0..(n - 1)) = n
  <2>1. 0 \in Int /\ n - 1 \in Int
    BY <1>1
  <2>2. IsFiniteSet(0..(n - 1)) /\ Cardinality(0..(n - 1)) = IF 0 > n - 1 THEN 0 ELSE (n - 1) - 0 + 1
    BY <2>1, FS_Interval
  <2> QED BY <2>2, <1>1
<1>6. f \in Surjection(X, 0..(n - 1))
  <2> HIDE DEF f
  <2> QED BY <1>4, <1>5, FS_Injection
<1>7. \A k \in 0..(n - 1) : \E x \in X : f[x] = k
  BY <1>6 DEF Surjection
<1> QED BY <1>1, <1>2, <1>3, <1>7

(* The first n are all of them exactly when there are no more than n. *)
LEMMA LeadingIsAll ==
    ASSUME NEW R, NEW X, IsFiniteSet(X), Orders(R, X), NEW n \in Nat
    PROVE  Leading(R, n, X) = X <=> Cardinality(X) <= n
<1>1. ASSUME Cardinality(X) <= n PROVE Leading(R, n, X) = X
  BY <1>1, RanksCount DEF Leading
<1>2. ASSUME ~(Cardinality(X) <= n) PROVE Leading(R, n, X) # X
  <2>1. n \in 0..(Cardinality(X) - 1)
    BY <1>2, RanksCount
  <2>2. PICK x \in X : Rank(R, X, x) = n
    BY <2>1, RanksCount
  <2> QED BY <2>2 DEF Leading
<1> QED BY <1>1, <1>2

(* A part that has the first n has the same first n. *)
LEMMA LeadingOfPart ==
    ASSUME NEW R, NEW X, IsFiniteSet(X), Orders(R, X), NEW n \in Nat,
           NEW Y \in SUBSET X, Leading(R, n, X) \subseteq Y
    PROVE  Leading(R, n, Y) = Leading(R, n, X)
<1>1. IsFiniteSet(Y) /\ Orders(R, Y)
  BY FS_Subset DEF Orders
<1>2. ASSUME NEW x \in Y
      PROVE  /\ Rank(R, Y, x) \in Nat /\ Rank(R, X, x) \in Nat
             /\ Rank(R, Y, x) <= Rank(R, X, x)
  <2> DEFINE B == {y \in X : <<y, x>> \in R}
             C == {y \in Y : <<y, x>> \in R}
  <2>1. C \in SUBSET B
    OBVIOUS
  <2>2. IsFiniteSet(B)
    BY RankIsNat
  <2>3. Cardinality(C) <= Cardinality(B)
    <3> HIDE DEF B, C
    <3> QED BY <2>1, <2>2, FS_Subset
  <2> QED BY <2>3, <1>1, RankIsNat DEF Rank
<1>3. ASSUME NEW x \in Y, Rank(R, X, x) >= n
      PROVE  Rank(R, Y, x) >= n
  <2> DEFINE L == Leading(R, n, X)
             C == {y \in Y : <<y, x>> \in R}
             g == [y \in L |-> Rank(R, X, y)]
  <2>1. L \in SUBSET C
    <3> SUFFICES ASSUME NEW y \in L PROVE <<y, x>> \in R
      OBVIOUS
    <3>1. y \in X /\ Rank(R, X, y) < n /\ Rank(R, X, y) \in Nat /\ Rank(R, X, x) \in Nat
      BY RankIsNat DEF Leading
    <3>2. ~(Rank(R, X, x) < Rank(R, X, y)) /\ x # y
      BY <3>1, <1>3
    <3>3. <<x, y>> \notin R
      BY <3>1, <3>2, RankGrows
    <3> QED BY <3>1, <3>2, <3>3 DEF Orders
  <2>2. IsFiniteSet(C) /\ Cardinality(C) \in Nat
    BY <1>1, RankIsNat DEF Rank
  <2>3. IsFiniteSet(L) /\ Cardinality(L) <= Cardinality(C) /\ Cardinality(L) \in Nat
    <3> HIDE DEF L, C
    <3> QED BY <2>1, <2>2, FS_Subset, FS_CardinalityType
  <2>4. g \in Surjection(L, 0..(n - 1))
    <3>1. g \in [L -> 0..(n - 1)]
      <4> SUFFICES ASSUME NEW y \in L PROVE Rank(R, X, y) \in 0..(n - 1)
        OBVIOUS
      <4>1. y \in X /\ Rank(R, X, y) < n
        BY DEF Leading
      <4>2. Rank(R, X, y) \in Nat
        BY RankIsNat
      <4> QED BY <4>1, <4>2
    <3>2. ASSUME NEW k \in 0..(n - 1) PROVE \E y \in L : g[y] = k
      <4>1. k \in 0..(Cardinality(X) - 1)
        BY <1>3, RanksCount
      <4>2. PICK y \in X : Rank(R, X, y) = k
        BY <4>1, RanksCount
      <4>3. y \in L
        BY <4>2 DEF Leading
      <4> QED BY <4>2, <4>3
    <3> QED BY <3>1, <3>2 DEF Surjection
  <2>5. Cardinality(0..(n - 1)) = n
    <3>1. 0 \in Int /\ n - 1 \in Int
      OBVIOUS
    <3>2. Cardinality(0..(n - 1)) = IF 0 > n - 1 THEN 0 ELSE (n - 1) - 0 + 1
      BY <3>1, FS_Interval
    <3> QED BY <3>2
  <2>6. Cardinality(0..(n - 1)) <= Cardinality(L)
    <3> HIDE DEF L, g
    <3> QED BY <2>3, <2>4, FS_Surjection
  <2>7. n <= Cardinality(C)
    BY <2>2, <2>3, <2>5, <2>6
  <2> QED BY <2>7 DEF Rank
<1>4. ASSUME NEW x \in Y PROVE Rank(R, Y, x) < n <=> Rank(R, X, x) < n
  BY <1>2, <1>3
<1> QED BY <1>4 DEF Leading

(* The first n of the first m, which are no fewer. *)
LEMMA LeadingOfLeading ==
    ASSUME NEW R, NEW X, IsFiniteSet(X), Orders(R, X), NEW n \in Nat, NEW m \in Nat, n <= m
    PROVE  Leading(R, n, Leading(R, m, X)) = Leading(R, n, X)
<1>1. Leading(R, m, X) \in SUBSET X
  BY DEF Leading
<1>2. Leading(R, n, X) \subseteq Leading(R, m, X)
  <2>1. ASSUME NEW x \in X, Rank(R, X, x) < n PROVE Rank(R, X, x) < m
    <3>1. Rank(R, X, x) \in Nat
      BY RankIsNat
    <3> QED BY <2>1, <3>1
  <2> QED BY <2>1 DEF Leading
<1> QED BY <1>1, <1>2, LeadingOfPart

(* The sorted list has every member once, in order. *)
List(R, X) == [i \in 1..Cardinality(X) |-> CHOOSE x \in X : Rank(R, X, x) = i - 1]

LEMMA ListHasAll ==
    ASSUME NEW R, NEW X, IsFiniteSet(X), Orders(R, X)
    PROVE  /\ List(R, X) \in Seq(X) /\ Len(List(R, X)) = Cardinality(X)
           /\ \A x \in X : \E i \in 1..Cardinality(X) : List(R, X)[i] = x
           /\ \A i, j \in 1..Cardinality(X) : List(R, X)[i] = List(R, X)[j] => i = j
<1> DEFINE n == Cardinality(X)
           L == List(R, X)
<1>1. n \in Nat
  BY FS_CardinalityType
<1>2. ASSUME NEW i \in 1..n
      PROVE  L[i] \in X /\ Rank(R, X, L[i]) = i - 1
  <2>1. i - 1 \in 0..(n - 1)
    BY <1>1
  <2>2. \E x \in X : Rank(R, X, x) = i - 1
    BY <2>1, RanksCount
  <2>3. L[i] = CHOOSE x \in X : Rank(R, X, x) = i - 1
    BY DEF List
  <2> QED BY <2>2, <2>3
<1>3. L \in [1..n -> X]
  BY <1>2 DEF List
<1>4. L \in Seq(X) /\ Len(L) = n
  <2> HIDE DEF L
  <2>1. L \in Seq(X)
    BY <1>1, <1>3 DEF Seq
  <2> QED BY <2>1, <1>1, <1>3
<1>5. ASSUME NEW x \in X PROVE \E i \in 1..n : L[i] = x
  <2>1. Rank(R, X, x) \in 0..(n - 1)
    BY RanksCount
  <2>2. Rank(R, X, x) + 1 \in 1..n
    BY <1>1, <2>1
  <2>3. L[Rank(R, X, x) + 1] \in X /\ Rank(R, X, L[Rank(R, X, x) + 1]) = Rank(R, X, x)
    BY <1>2, <2>1, <2>2
  <2>4. L[Rank(R, X, x) + 1] = x
    BY <2>3, RanksCount
  <2> QED BY <2>2, <2>4
<1>6. ASSUME NEW i \in 1..n, NEW j \in 1..n, L[i] = L[j] PROVE i = j
  <2>1. i - 1 = j - 1
    BY <1>2, <1>6
  <2> QED BY <2>1, <1>1
<1> QED BY <1>4, <1>5, <1>6

-----------------------------------------------------------------------------
(* The orders of Inspection.                                               *)

LessOn(X)    == {e \in X \X X : e[1] < e[2]}
LexicalOn(X) == {e \in X \X X : Lexical(e[1], e[2])}
BeforeOn(X)  == {e \in X \X X : Before(e[1], e[2])}

LEMMA NumbersAreOrdered ==
    ASSUME NEW X \in SUBSET Nat
    PROVE  Orders(LessOn(X), X)
<1>1. \A x, y \in X : <<x, y>> \in LessOn(X) <=> x < y
  BY DEF LessOn
<1>2. \A x \in X : x \in Nat
  OBVIOUS
<1> HIDE DEF LessOn
<1> QED BY <1>1, <1>2 DEF Orders

LEMMA LexicalIsStrict ==
    ASSUME NEW p \in Seq(Nat)
    PROVE  ~Lexical(p, p)
BY DEF Lexical

LEMMA LexicalIsTransitive ==
    ASSUME NEW p \in Seq(Nat), NEW q \in Seq(Nat), NEW r \in Seq(Nat),
           Lexical(p, q), Lexical(q, r)
    PROVE  Lexical(p, r)
<1>1. PICK i \in DOMAIN p \cap DOMAIN q : p[i] < q[i] /\ \A j \in 1..(i - 1) : p[j] = q[j]
  BY DEF Lexical
<1>2. PICK k \in DOMAIN q \cap DOMAIN r : q[k] < r[k] /\ \A j \in 1..(k - 1) : q[j] = r[j]
  BY DEF Lexical
<1>3. /\ i \in 1..Len(p) /\ i \in 1..Len(q) /\ k \in 1..Len(q) /\ k \in 1..Len(r)
      /\ Len(p) \in Nat /\ Len(q) \in Nat /\ Len(r) \in Nat
  OBVIOUS
<1>4. CASE i <= k
  <2>1. i \in DOMAIN p \cap DOMAIN r
    BY <1>3, <1>4
  <2>2. p[i] < r[i]
    <3>1. p[i] \in Nat /\ q[i] \in Nat /\ r[i] \in Nat
      BY <1>3, <2>1
    <3>2. CASE i = k
      BY <1>1, <1>2, <3>1, <3>2
    <3>3. CASE i # k
      <4>1. i \in 1..(k - 1)
        <5>1. i < k
          BY <1>3, <1>4, <3>3
        <5> QED BY <1>3, <5>1
      <4> QED BY <1>1, <1>2, <4>1
    <3> QED BY <3>2, <3>3
  <2>3. \A j \in 1..(i - 1) : p[j] = r[j]
    <3>1. \A j \in 1..(i - 1) : j \in 1..(k - 1)
      BY <1>3, <1>4
    <3> QED BY <1>1, <1>2, <3>1
  <2> QED BY <2>1, <2>2, <2>3 DEF Lexical
<1>5. CASE ~(i <= k)
  <2>1. k \in DOMAIN p \cap DOMAIN r /\ k \in 1..(i - 1)
    BY <1>3, <1>5
  <2>2. p[k] < r[k]
    BY <1>1, <1>2, <2>1
  <2>3. \A j \in 1..(k - 1) : p[j] = r[j]
    <3>1. \A j \in 1..(k - 1) : j \in 1..(i - 1)
      BY <1>3, <1>5
    <3> QED BY <1>1, <1>2, <3>1
  <2> QED BY <2>1, <2>2, <2>3 DEF Lexical
<1> QED BY <1>4, <1>5

(* Where two lists differ, one comes before the other. *)
LEMMA LexicalIsTotal ==
    ASSUME NEW p \in Seq(Nat), NEW q \in Seq(Nat),
           NEW k \in DOMAIN p \cap DOMAIN q, p[k] # q[k]
    PROVE  Lexical(p, q) \/ Lexical(q, p)
<1> DEFINE T == {i \in Nat : i \in DOMAIN p /\ i \in DOMAIN q /\ p[i] # q[i]}
<1>1. k \in T
  OBVIOUS
<1>2. PICK i \in T : \A j \in T : i <= j
  <2> HIDE DEF T
  <2>1. T \in SUBSET Nat
    BY DEF T
  <2> QED BY <1>1, <2>1, LeastMember
<1>3. \A j \in 1..(i - 1) : p[j] = q[j]
  <2> SUFFICES ASSUME NEW j \in 1..(i - 1), p[j] # q[j] PROVE FALSE
    OBVIOUS
  <2>1. j \in T
    OBVIOUS
  <2> QED BY <1>2, <2>1
<1>4. p[i] \in Nat /\ q[i] \in Nat /\ p[i] # q[i] /\ i \in DOMAIN p \cap DOMAIN q
  OBVIOUS
<1>5. p[i] < q[i] \/ q[i] < p[i]
  BY <1>4
<1> QED BY <1>3, <1>4, <1>5 DEF Lexical

LEMMA PathsAreOrdered ==
    ASSUME NEW X \in SUBSET Seq(Nat)
    PROVE  Orders(BeforeOn(X), X)
<1>0. \A x, y \in X : <<x, y>> \in BeforeOn(X) <=> Before(x, y)
  BY DEF BeforeOn
<1>1. ASSUME NEW x \in X PROVE ~Before(x, x)
  BY LexicalIsStrict DEF Before
<1>2. ASSUME NEW x \in X, NEW y \in X, x # y PROVE Before(x, y) \/ Before(y, x)
  <2>1. Len(x) \in Nat /\ Len(y) \in Nat /\ x \in Seq(Nat) /\ y \in Seq(Nat)
    OBVIOUS
  <2>2. CASE Len(x) = Len(y)
    <3>1. PICK k \in 1..Len(x) : x[k] # y[k]
      BY <1>2, <2>1, <2>2
    <3>2. k \in DOMAIN x \cap DOMAIN y
      BY <2>1, <2>2
    <3> QED BY <2>1, <2>2, <3>1, <3>2, LexicalIsTotal DEF Before
  <2>3. CASE Len(x) # Len(y)
    BY <2>1, <2>3 DEF Before
  <2> QED BY <2>2, <2>3
<1>3. ASSUME NEW x \in X, NEW y \in X, NEW z \in X, Before(x, y), Before(y, z)
      PROVE  Before(x, z)
  <2>1. Len(x) \in Nat /\ Len(y) \in Nat /\ Len(z) \in Nat
    OBVIOUS
  <2>2. CASE Lexical(x, y) /\ Lexical(y, z)
    <3>1. Lexical(x, z)
      BY <2>2, LexicalIsTransitive
    <3> QED BY <1>3, <2>1, <3>1 DEF Before
  <2>3. CASE ~(Lexical(x, y) /\ Lexical(y, z))
    BY <1>3, <2>1, <2>3 DEF Before
  <2> QED BY <2>2, <2>3
<1> HIDE DEF BeforeOn
<1> QED BY <1>0, <1>1, <1>2, <1>3 DEF Orders

(* A common first Seal changes nothing. *)
LEMMA BeforeUnderPrefix ==
    ASSUME NEW s \in Nat, NEW p \in Seq(Nat), NEW q \in Seq(Nat)
    PROVE  Before(<<s>> \o p, <<s>> \o q) <=> Before(p, q)
<1> DEFINE P == <<s>> \o p
           Q == <<s>> \o q
<1>1. /\ Len(P) = Len(p) + 1 /\ Len(Q) = Len(q) + 1 /\ P \in Seq(Nat) /\ Q \in Seq(Nat)
      /\ P[1] = s /\ Q[1] = s
      /\ \A i \in 1..Len(p) : P[i + 1] = p[i]
      /\ \A i \in 1..Len(q) : Q[i + 1] = q[i]
      /\ Len(p) \in Nat /\ Len(q) \in Nat
  OBVIOUS
<1>0. Len(p) \in Nat /\ Len(q) \in Nat
  OBVIOUS
<1>2. DOMAIN p = 1..Len(p) /\ DOMAIN q = 1..Len(q) /\ DOMAIN P = 1..(Len(p) + 1) /\ DOMAIN Q = 1..(Len(q) + 1)
  BY <1>1
<1> HIDE DEF P, Q
<1>3. ASSUME Lexical(p, q) PROVE Lexical(P, Q)
  <2>1. PICK i \in DOMAIN p \cap DOMAIN q : p[i] < q[i] /\ \A j \in 1..(i - 1) : p[j] = q[j]
    BY <1>3 DEF Lexical
  <2>0. i \in 1..Len(p) /\ i \in 1..Len(q) /\ i \in Nat
    BY <1>1, <1>2
  <2>a. P[i + 1] = p[i] /\ Q[i + 1] = q[i]
    BY <2>0, <1>1
  <2>b. i + 1 \in 1..(Len(p) + 1) /\ i + 1 \in 1..(Len(q) + 1)
    BY <2>0, <1>1
  <2>2. i + 1 \in DOMAIN P \cap DOMAIN Q /\ P[i + 1] < Q[i + 1]
    BY <2>1, <2>a, <2>b, <1>2
  <2>3. ASSUME NEW j \in 1..i PROVE P[j] = Q[j]
    <3>1. CASE j = 1
      BY <3>1, <1>1
    <3>2. CASE j # 1
      <4>1. j - 1 \in 1..(i - 1) /\ j - 1 \in 1..Len(p) /\ j - 1 \in 1..Len(q) /\ j = (j - 1) + 1
        BY <3>2, <2>0, <1>0
      <4>2. P[(j - 1) + 1] = p[j - 1] /\ Q[(j - 1) + 1] = q[j - 1]
        BY <4>1, <1>1
      <4> QED BY <4>1, <4>2, <2>1
    <3> QED BY <3>1, <3>2
  <2>4. (i + 1) - 1 = i
    BY <1>2
  <2> QED BY <2>2, <2>3, <2>4 DEF Lexical
<1>4. ASSUME Lexical(P, Q) PROVE Lexical(p, q)
  <2>1. PICK i \in DOMAIN P \cap DOMAIN Q : P[i] < Q[i] /\ \A j \in 1..(i - 1) : P[j] = Q[j]
    BY <1>4 DEF Lexical
  <2>2. i # 1
    BY <2>1, <1>1
  <2>0. i \in 1..(Len(p) + 1) /\ i \in 1..(Len(q) + 1)
    BY <1>2
  <2>a. i - 1 \in 1..Len(p) /\ i - 1 \in 1..Len(q) /\ i = (i - 1) + 1
    BY <2>0, <2>2, <1>1
  <2>3. i - 1 \in DOMAIN p \cap DOMAIN q /\ i = (i - 1) + 1
    BY <2>a, <1>2
  <2>4. p[i - 1] < q[i - 1]
    <3>1. P[(i - 1) + 1] = p[i - 1] /\ Q[(i - 1) + 1] = q[i - 1]
      BY <2>a, <1>1
    <3> QED BY <3>1, <2>1, <2>3
  <2>5. ASSUME NEW j \in 1..((i - 1) - 1) PROVE p[j] = q[j]
    <3>1. j + 1 \in 1..(i - 1) /\ j \in 1..Len(p) /\ j \in 1..Len(q)
      BY <2>a, <1>0
    <3>2. P[j + 1] = p[j] /\ Q[j + 1] = q[j]
      BY <3>1, <1>1
    <3> QED BY <3>1, <3>2, <2>1
  <2> QED BY <2>3, <2>4, <2>5 DEF Lexical
<1>5. Before(P, Q) <=> Before(p, q)
  BY <1>1, <1>3, <1>4 DEF Before
<1> QED BY <1>5 DEF P, Q

(* First in terms of ranks. *)
LEMMA FirstIsLeading ==
    ASSUME NEW X, NEW Y \in SUBSET X, NEW n
    PROVE  First(n, Y) = Leading(BeforeOn(X), n, Y)
<1>1. ASSUME NEW p \in Y
      PROVE  {q \in Y : Before(q, p)} = {q \in Y : <<q, p>> \in BeforeOn(X)}
  BY DEF BeforeOn
<1> QED BY <1>1 DEF First, Leading, Rank

-----------------------------------------------------------------------------
(* Paths.                                                                  *)

Walks == [Seal -> SUBSET Seal]

(* Every set of Seals has one from which no step stays in the set. *)
Ends(steps) == \A C \in SUBSET Seal : C # {} => \E s \in C : steps[s] \cap C = {}

Along(steps, s) ==
    {p \in Seq(Seal) : /\ Len(p) >= 1 /\ p[1] = s
                       /\ \A i \in 1..(Len(p) - 1) : p[i + 1] \in steps[p[i]]}

LEMMA SealsAreNumbers ==
    /\ Seal \subseteq Nat /\ IsFiniteSet(Seal) /\ Seq(Seal) \subseteq Seq(Nat)
<1>1. Seal \subseteq Nat /\ IsFiniteSet(Seal)
  BY StoredAssumption
<1>2. ASSUME NEW p \in Seq(Seal) PROVE p \in Seq(Nat)
  <2>1. Len(p) \in Nat /\ p = [i \in 1..Len(p) |-> p[i]] /\ \A i \in 1..Len(p) : p[i] \in Seal
    OBVIOUS
  <2>2. p \in [1..Len(p) -> Nat]
    BY <1>1, <2>1
  <2> QED BY <2>1, <2>2 DEF Seq
<1> QED BY <1>1, <1>2

LEMMA Prefixed ==
    ASSUME NEW S, NEW s \in S, NEW p \in Seq(S)
    PROVE  /\ <<s>> \o p \in Seq(S) /\ Len(<<s>> \o p) = Len(p) + 1 /\ Len(p) \in Nat
           /\ (<<s>> \o p)[1] = s
           /\ \A i \in 1..Len(p) : (<<s>> \o p)[i + 1] = p[i]
           /\ \A i \in 2..(Len(p) + 1) : (<<s>> \o p)[i] = p[i - 1]
           /\ Len(p) >= 1 => End(<<s>> \o p) = End(p)
BY DEF End

LEMMA PrefixedTells ==
    ASSUME NEW S, NEW s \in S, NEW p \in Seq(S), NEW q \in Seq(S), <<s>> \o p = <<s>> \o q
    PROVE  p = q
<1>1. Len(p) = Len(q)
  <2>1. Len(<<s>> \o p) = Len(p) + 1 /\ Len(<<s>> \o q) = Len(q) + 1 /\ Len(p) \in Nat /\ Len(q) \in Nat
    BY Prefixed
  <2> QED BY <2>1
<1>2. ASSUME NEW i \in 1..Len(p) PROVE p[i] = q[i]
  <2>1. (<<s>> \o p)[i + 1] = p[i]
    BY Prefixed
  <2>2. (<<s>> \o q)[i + 1] = q[i]
    BY <1>1, Prefixed
  <2> QED BY <2>1, <2>2
<1> QED BY <1>1, <1>2

(* Every list is its first member and the rest. *)
LEMMA Split ==
    ASSUME NEW S, NEW p \in Seq(S), Len(p) >= 1
    PROVE  /\ p[1] \in S /\ Tail(p) \in Seq(S) /\ Len(Tail(p)) = Len(p) - 1
           /\ \A i \in 1..(Len(p) - 1) : Tail(p)[i] = p[i + 1]
           /\ p = <<p[1]>> \o Tail(p)
<1>1. p # <<>>
  OBVIOUS
<1>2. /\ p[1] \in S /\ Tail(p) \in Seq(S) /\ Len(Tail(p)) = Len(p) - 1
      /\ \A i \in 1..(Len(p) - 1) : Tail(p)[i] = p[i + 1]
  BY <1>1
<1>3. p = <<p[1]>> \o Tail(p)
  BY <1>1, <1>2
<1> QED BY <1>2, <1>3

LEMMA AlongUnfolds ==
    ASSUME NEW steps \in Walks, NEW s \in Seal
    PROVE  Along(steps, s) =
               {<<s>>} \cup {<<s>> \o p : p \in UNION {Along(steps, t) : t \in steps[s]}}
<1> DEFINE U == UNION {Along(steps, t) : t \in steps[s]}
<1>1. ASSUME NEW p \in Along(steps, s) PROVE p \in {<<s>>} \cup {<<s>> \o q : q \in U}
  <2>1. /\ p \in Seq(Seal) /\ Len(p) >= 1 /\ p[1] = s /\ Len(p) \in Nat
        /\ \A i \in 1..(Len(p) - 1) : p[i + 1] \in steps[p[i]]
    BY DEF Along
  <2>2. CASE Len(p) = 1
    <3>1. p = <<s>>
      BY <2>1, <2>2
    <3> QED BY <3>1
  <2>3. CASE Len(p) # 1
    <3> DEFINE q == Tail(p)
    <3>1. /\ q \in Seq(Seal) /\ Len(q) = Len(p) - 1 /\ p = <<s>> \o q
          /\ \A i \in 1..(Len(p) - 1) : q[i] = p[i + 1]
      BY <2>1, Split
    <3> HIDE DEF q
    <3>2. 1 \in 1..(Len(p) - 1)
      <4> DEFINE n == Len(p)
      <4>1. n \in Nat /\ n >= 1 /\ n # 1
        BY <2>1, <2>3
      <4> HIDE DEF n
      <4>2. 1 \in 1..(n - 1)
        BY <4>1
      <4> QED BY <4>2 DEF n
    <3>3. q[1] \in steps[s] /\ Len(q) >= 1
      <4>1. q[1] = p[2] /\ p[1 + 1] \in steps[p[1]]
        BY <2>1, <3>1, <3>2
      <4> QED BY <2>1, <3>1, <3>2, <4>1
    <3>4. ASSUME NEW i \in 1..(Len(q) - 1) PROVE q[i + 1] \in steps[q[i]]
      <4>1. i \in 1..(Len(p) - 1) /\ i + 1 \in 1..(Len(p) - 1)
        BY <2>1, <3>1
      <4>2. q[i] = p[i + 1] /\ q[i + 1] = p[(i + 1) + 1] /\ p[(i + 1) + 1] \in steps[p[i + 1]]
        BY <2>1, <3>1, <4>1
      <4> QED BY <4>2
    <3>5. q \in Along(steps, q[1])
      BY <3>1, <3>3, <3>4 DEF Along
    <3>6. q \in U
      BY <3>3, <3>5
    <3> QED BY <3>1, <3>6
  <2> QED BY <2>2, <2>3
<1>2. <<s>> \in Along(steps, s)
  <2>1. <<s>> \in Seq(Seal) /\ Len(<<s>>) = 1 /\ <<s>>[1] = s
    OBVIOUS
  <2> QED BY <2>1 DEF Along
<1>3. ASSUME NEW t \in steps[s], NEW p \in Along(steps, t) PROVE <<s>> \o p \in Along(steps, s)
  <2> DEFINE r == <<s>> \o p
  <2>1. /\ p \in Seq(Seal) /\ Len(p) >= 1 /\ p[1] = t
        /\ \A i \in 1..(Len(p) - 1) : p[i + 1] \in steps[p[i]]
    BY DEF Along
  <2>2. /\ r \in Seq(Seal) /\ Len(r) = Len(p) + 1 /\ Len(p) \in Nat /\ r[1] = s
        /\ \A i \in 1..Len(p) : r[i + 1] = p[i]
    BY <2>1, Prefixed
  <2> HIDE DEF r
  <2>3. ASSUME NEW i \in 1..(Len(r) - 1) PROVE r[i + 1] \in steps[r[i]]
    <3>1. i \in 1..Len(p)
      BY <2>2
    <3>2. r[i + 1] = p[i]
      BY <2>2, <3>1
    <3>3. CASE i = 1
      BY <2>1, <2>2, <3>2, <3>3
    <3>4. CASE i # 1
      <4>1. i - 1 \in 1..(Len(p) - 1) /\ i - 1 \in 1..Len(p) /\ i = (i - 1) + 1
        BY <2>2, <3>1, <3>4
      <4>2. r[(i - 1) + 1] = p[i - 1] /\ p[(i - 1) + 1] \in steps[p[i - 1]]
        BY <2>1, <2>2, <4>1
      <4> QED BY <3>2, <4>1, <4>2
    <3> QED BY <3>3, <3>4
  <2>4. Len(r) >= 1
    BY <2>2
  <2>5. r \in Along(steps, s)
    BY <2>2, <2>3, <2>4 DEF Along
  <2> QED BY <2>5 DEF r
<1>4. ASSUME NEW p \in U PROVE <<s>> \o p \in Along(steps, s)
  BY <1>3
<1> QED BY <1>1, <1>2, <1>4

(* The same, one path at a time. *)
LEMMA AlongOne ==
    ASSUME NEW steps \in Walks, NEW s \in Seal
    PROVE  <<s>> \in Along(steps, s) /\ Len(<<s>>) = 1 /\ End(<<s>>) = s
<1> DEFINE U == {<<s>> \o p : p \in UNION {Along(steps, t) : t \in steps[s]}}
<1>1. Along(steps, s) = {<<s>>} \cup U
  BY AlongUnfolds
<1> HIDE DEF U
<1>2. <<s>> \in Along(steps, s)
  BY <1>1
<1>3. Len(<<s>>) = 1 /\ End(<<s>>) = s
  BY DEF End
<1> QED BY <1>2, <1>3

LEMMA AlongSplits ==
    ASSUME NEW steps \in Walks, NEW s \in Seal, NEW p \in Along(steps, s), p # <<s>>
    PROVE  \E t \in steps[s] : \E q \in Along(steps, t) : p = <<s>> \o q
<1> DEFINE U == UNION {Along(steps, t) : t \in steps[s]}
<1>1. Along(steps, s) = {<<s>>} \cup {<<s>> \o q : q \in U}
  BY AlongUnfolds
<1>2. PICK q \in U : p = <<s>> \o q
  <2> HIDE DEF U
  <2> QED BY <1>1
<1>3. PICK t \in steps[s] : q \in Along(steps, t)
  BY <1>2
<1> QED BY <1>2, <1>3

LEMMA AlongGrows ==
    ASSUME NEW steps \in Walks, NEW s \in Seal, NEW t \in steps[s], NEW q \in Along(steps, t)
    PROVE  <<s>> \o q \in Along(steps, s)
<1> DEFINE U == UNION {Along(steps, u) : u \in steps[s]}
<1>1. Along(steps, s) = {<<s>>} \cup {<<s>> \o p : p \in U}
  BY AlongUnfolds
<1>2. q \in U
  OBVIOUS
<1> HIDE DEF U
<1> QED BY <1>1, <1>2

(* PathsAlong is defined by recursion; where every walk ends, it gives the *)
(* lists that follow the steps.                                            *)
LEMMA PathsAlongAre ==
    ASSUME NEW steps \in Walks, Ends(steps)
    PROVE  PathsAlong(steps) = [s \in Seal |-> Along(steps, s)]
<1> DEFINE Step(f, s) == {<<s>>} \cup {<<s>> \o p : p \in UNION {f[t] : t \in steps[s]}}
           g == [s \in Seal |-> Along(steps, s)]
           Solves(f) == f = [s \in Seal |-> Step(f, s)]
<1>1. Solves(g)
  <2>1. ASSUME NEW s \in Seal PROVE Along(steps, s) = Step(g, s)
    <3>1. \A t \in steps[s] : g[t] = Along(steps, t)
      BY DEF Walks
    <3>2. UNION {g[t] : t \in steps[s]} = UNION {Along(steps, t) : t \in steps[s]}
      BY <3>1
    <3> HIDE DEF g
    <3> QED BY <3>2, AlongUnfolds
  <2> QED BY <2>1
<1>2. PathsAlong(steps) = CHOOSE f : Solves(f)
  BY DEF PathsAlong
<1>3. Solves(PathsAlong(steps))
  <2> HIDE DEF Solves, g
  <2> QED BY <1>1, <1>2
<1>4. ASSUME NEW f, Solves(f) PROVE f = g
  <2> DEFINE C == {s \in Seal : f[s] # g[s]}
  <2>1. ASSUME C # {} PROVE FALSE
    <3>1. PICK s \in C : steps[s] \cap C = {}
      BY <2>1 DEF Ends
    <3>2. \A t \in steps[s] : f[t] = g[t]
      BY <3>1 DEF Walks
    <3>3. UNION {f[t] : t \in steps[s]} = UNION {g[t] : t \in steps[s]}
      BY <3>2
    <3>4. f[s] = Step(f, s) /\ g[s] = Step(g, s)
      <4>1. f[s] = Step(f, s)
        <5> HIDE DEF Step
        <5> QED BY <1>4
      <4>2. g[s] = Step(g, s)
        <5> HIDE DEF Step, g
        <5>1. s \in Seal
          OBVIOUS
        <5> QED BY <1>1, <5>1
      <4> QED BY <4>1, <4>2
    <3>5. Step(f, s) = Step(g, s)
      <4> HIDE DEF g
      <4> QED BY <3>3
    <3> QED BY <3>4, <3>5
  <2>2. f = [s \in Seal |-> f[s]]
    <3> HIDE DEF Step
    <3> QED BY <1>4
  <2>3. \A s \in Seal : f[s] = g[s]
    BY <2>1
  <2> QED BY <2>2, <2>3
<1>5. PathsAlong(steps) = g
  <2> HIDE DEF Solves, g
  <2> QED BY <1>3, <1>4
<1> QED BY <1>5

LEMMA ImageIsFinite ==
    ASSUME NEW S, IsFiniteSet(S), NEW f
    PROVE  IsFiniteSet({f[x] : x \in S})
<1> DEFINE g == [x \in S |-> f[x]]
           T == {f[x] : x \in S}
<1>1. g \in Surjection(S, T)
  <2>1. g \in [S -> T] /\ \A t \in T : \E x \in S : g[x] = t
    OBVIOUS
  <2> HIDE DEF g, T
  <2> QED BY <2>1 DEF Surjection
<1> HIDE DEF g, T
<1>2. IsFiniteSet(T)
  BY <1>1, FS_Surjection
<1> QED BY <1>2 DEF T

(* Lists made longer by one Seal, from finitely many finite sets. *)
LEMMA MergedIsFinite ==
    ASSUME NEW s \in Seal, NEW A, NEW T \in SUBSET Seal,
           \A t \in T : A[t] \in SUBSET Seq(Seal) /\ IsFiniteSet(A[t])
    PROVE  /\ {<<s>> \o p : p \in UNION {A[t] : t \in T}} \in SUBSET Seq(Seal)
           /\ IsFiniteSet({<<s>> \o p : p \in UNION {A[t] : t \in T}})
<1> DEFINE U == UNION {A[t] : t \in T}
           f == [p \in U |-> <<s>> \o p]
<1>1. IsFiniteSet(T)
  BY SealsAreNumbers, FS_Subset
<1>2. IsFiniteSet({A[t] : t \in T})
  BY <1>1, ImageIsFinite
<1>3. IsFiniteSet(U)
  BY <1>2, FS_UNION
<1>4. IsFiniteSet({f[p] : p \in U})
  <2> HIDE DEF f, U
  <2> QED BY <1>3, ImageIsFinite
<1>5. {f[p] : p \in U} = {<<s>> \o p : p \in U}
  <2> HIDE DEF U
  <2> QED OBVIOUS
<1>6. ASSUME NEW p \in U PROVE <<s>> \o p \in Seq(Seal)
  <2>1. p \in Seq(Seal)
    OBVIOUS
  <2> QED BY <2>1
<1> HIDE DEF U, f
<1> QED BY <1>4, <1>5, <1>6 DEF U

LEMMA AlongIsFinite ==
    ASSUME NEW steps \in Walks, Ends(steps)
    PROVE  \A s \in Seal : Along(steps, s) \in SUBSET Seq(Seal) /\ IsFiniteSet(Along(steps, s))
<1> DEFINE C == {s \in Seal : ~IsFiniteSet(Along(steps, s))}
           A == [s \in Seal |-> Along(steps, s)]
<1>1. ASSUME NEW s \in Seal PROVE Along(steps, s) \in SUBSET Seq(Seal)
  BY DEF Along
<1>2. ASSUME C # {} PROVE FALSE
  <2>1. PICK s \in C : steps[s] \cap C = {}
    BY <1>2 DEF Ends
  <2>2. s \in Seal /\ steps[s] \in SUBSET Seal
    BY DEF Walks
  <2>3. \A t \in steps[s] : A[t] = Along(steps, t) /\ IsFiniteSet(Along(steps, t))
    BY <2>1, <2>2
  <2>4. \A t \in steps[s] : A[t] \in SUBSET Seq(Seal) /\ IsFiniteSet(A[t])
    BY <2>2, <2>3, <1>1
  <2> DEFINE M == {<<s>> \o p : p \in UNION {A[t] : t \in steps[s]}}
  <2>5. IsFiniteSet(M)
    <3> HIDE DEF A, C
    <3> QED BY <2>2, <2>4, MergedIsFinite
  <2>6. Along(steps, s) = {<<s>>} \cup M
    <3>1. UNION {A[t] : t \in steps[s]} = UNION {Along(steps, t) : t \in steps[s]}
      BY <2>3
    <3> HIDE DEF A
    <3> QED BY <3>1, <2>2, AlongUnfolds
  <2>7. IsFiniteSet({<<s>>})
    BY FS_Singleton
  <2>8. IsFiniteSet(Along(steps, s))
    <3> HIDE DEF M
    <3> QED BY <2>5, <2>6, <2>7, FS_Union
  <2> QED BY <2>8
<1> QED BY <1>1, <1>2

-----------------------------------------------------------------------------
(* What is reached is what a path leads to.                                *)

Edges(steps) == UNION {{s} \X steps[s] : s \in Seal}

LEMMA AlongAppends ==
    ASSUME NEW steps \in Walks, NEW s \in Seal, NEW p \in Along(steps, s), NEW t \in steps[End(p)]
    PROVE  Append(p, t) \in Along(steps, s) /\ End(Append(p, t)) = t
<1> DEFINE q == Append(p, t)
<1>1. /\ p \in Seq(Seal) /\ Len(p) >= 1 /\ p[1] = s /\ Len(p) \in Nat
      /\ \A i \in 1..(Len(p) - 1) : p[i + 1] \in steps[p[i]]
  BY DEF Along
<1>2. p[Len(p)] \in Seal
  BY <1>1
<1>3. t \in Seal
  BY <1>2 DEF End, Walks
<1>4. q \in Seq(Seal) /\ Len(q) = Len(p) + 1 /\ q[Len(q)] = t /\ \A i \in 1..Len(p) : q[i] = p[i]
  BY <1>1, <1>3
<1> HIDE DEF q
<1>5. ASSUME NEW i \in 1..(Len(q) - 1) PROVE q[i + 1] \in steps[q[i]]
  <2>1. i \in 1..Len(p)
    BY <1>1, <1>4
  <2>2. CASE i = Len(p)
    BY <1>1, <1>4, <2>1, <2>2 DEF End
  <2>3. CASE i # Len(p)
    <3>1. i \in 1..(Len(p) - 1) /\ i + 1 \in 1..Len(p)
      BY <1>1, <2>1, <2>3
    <3> QED BY <1>1, <1>4, <2>1, <3>1
  <2> QED BY <2>2, <2>3
<1>6. q[1] = s /\ Len(q) >= 1
  BY <1>1, <1>4
<1>7. q \in Along(steps, s) /\ End(q) = t
  BY <1>4, <1>5, <1>6 DEF Along, End
<1> QED BY <1>7 DEF q

LEMMA ReachCloses ==
    ASSUME NEW E, NEW T, NEW s \in G!Reach(E, T), NEW t \in Seal, <<s, t>> \in E
    PROVE  t \in G!Reach(E, T)
<1>1. SUFFICES ASSUME NEW S \in SUBSET Seal, T \subseteq S,
                      \A e \in E : e[1] \in S => e[2] \in S
               PROVE  t \in S
  BY DEF G!Reach
<1>2. s \in S
  BY <1>1 DEF G!Reach
<1>3. <<s, t>>[1] \in S => <<s, t>>[2] \in S
  BY <1>1
<1> QED BY <1>2, <1>3

LEMMA ReachIsLeast ==
    ASSUME NEW E, NEW T, NEW S \in SUBSET Seal, T \subseteq S,
           \A e \in E : e[1] \in S => e[2] \in S
    PROVE  G!Reach(E, T) \subseteq S
BY DEF G!Reach

LEMMA ReachStarts ==
    ASSUME NEW E, NEW T \in SUBSET Seal
    PROVE  T \subseteq G!Reach(E, T) /\ G!Reach(E, T) \subseteq Seal
BY DEF G!Reach

(* Every Seal on a path is reached from its first one. *)
LEMMA PathsReach ==
    ASSUME NEW steps \in Walks, NEW T \in SUBSET Seal, NEW s \in T, NEW p \in Along(steps, s),
           NEW i \in 1..Len(p)
    PROVE  p[i] \in G!Reach(Edges(steps), T)
<1> DEFINE R == G!Reach(Edges(steps), T)
           B == {k \in Nat : k \in 1..Len(p) /\ p[k] \notin R}
<1>1. /\ p \in Seq(Seal) /\ Len(p) >= 1 /\ p[1] = s /\ Len(p) \in Nat
      /\ \A k \in 1..(Len(p) - 1) : p[k + 1] \in steps[p[k]]
  BY DEF Along
<1>2. ASSUME B # {} PROVE FALSE
  <2>1. PICK k \in B : \A j \in B : k <= j
    <3>1. B \in SUBSET Nat
      OBVIOUS
    <3> HIDE DEF B
    <3> QED BY <1>2, <3>1, LeastMember
  <2>2. k # 1
    BY <1>1, ReachStarts
  <2>3. k - 1 \in 1..(Len(p) - 1) /\ k = (k - 1) + 1 /\ k - 1 \in 1..Len(p) /\ k - 1 \in Nat
    BY <2>2, <1>1
  <2>4. p[k - 1] \in R
    <3>1. k - 1 \notin B
      <4> HIDE DEF B
      <4> QED BY <2>1, <2>3
    <3> QED BY <3>1, <2>3
  <2>5. p[k - 1] \in Seal /\ p[k] \in Seal /\ p[k] \in steps[p[k - 1]]
    BY <1>1, <2>3
  <2>6. <<p[k - 1], p[k]>> \in Edges(steps)
    BY <2>5 DEF Edges
  <2>7. p[k] \in R
    BY <2>4, <2>5, <2>6, ReachCloses
  <2> QED BY <2>7
<1> QED BY <1>1, <1>2

LEMMA ReachIsPaths ==
    ASSUME NEW steps \in Walks, NEW T \in SUBSET Seal, NEW t
    PROVE  t \in G!Reach(Edges(steps), T) <=> \E s \in T : \E p \in Along(steps, s) : End(p) = t
<1> DEFINE S == {u \in Seal : \E s \in T : \E p \in Along(steps, s) : End(p) = u}
<1>1. G!Reach(Edges(steps), T) \subseteq S
  <2>1. T \subseteq S
    <3> SUFFICES ASSUME NEW s \in T PROVE s \in S
      OBVIOUS
    <3>1. <<s>> \in Along(steps, s) /\ End(<<s>>) = s
      BY AlongUnfolds DEF End
    <3> QED BY <3>1
  <2>2. ASSUME NEW e \in Edges(steps), e[1] \in S PROVE e[2] \in S
    <3>1. PICK s \in T : \E p \in Along(steps, s) : End(p) = e[1]
      BY <2>2
    <3>2. PICK p \in Along(steps, s) : End(p) = e[1]
      BY <3>1
    <3>3. e[2] \in steps[End(p)] /\ e[2] \in Seal
      BY <3>2 DEF Edges, Walks
    <3>4. Append(p, e[2]) \in Along(steps, s) /\ End(Append(p, e[2])) = e[2]
      BY <3>3, AlongAppends
    <3> QED BY <3>3, <3>4
  <2>3. S \in SUBSET Seal
    OBVIOUS
  <2> HIDE DEF S
  <2> QED BY <2>1, <2>2, <2>3, ReachIsLeast
<1>2. ASSUME NEW s \in T, NEW p \in Along(steps, s) PROVE End(p) \in G!Reach(Edges(steps), T)
  <2>1. Len(p) \in 1..Len(p)
    BY DEF Along
  <2> QED BY <2>1, PathsReach DEF End
<1> QED BY <1>1, <1>2

-----------------------------------------------------------------------------
(* The first paths of a merged list.                                       *)

LEMMA OneByOne ==
    ASSUME NEW S, IsFiniteSet(S), NEW f, f = [x \in S |-> f[x]],
           \A x, y \in S : f[x] = f[y] => x = y
    PROVE  Cardinality({f[x] : x \in S}) = Cardinality(S)
<1> DEFINE T == {f[x] : x \in S}
<1>1. IsFiniteSet(T)
  BY ImageIsFinite
<1>2. f \in [S -> T] /\ \A t \in T : \E x \in S : f[x] = t
  OBVIOUS
<1> HIDE DEF T
<1>3. f \in Injection(S, T) /\ f \in Surjection(S, T)
  BY <1>2 DEF Injection, IsInjective, Surjection
<1>4. Cardinality(S) <= Cardinality(T) /\ Cardinality(T) <= Cardinality(S)
  BY <1>1, <1>3, FS_Injection, FS_Surjection
<1>5. Cardinality(S) \in Nat /\ Cardinality(T) \in Nat
  BY <1>1, FS_CardinalityType
<1>6. Cardinality(T) = Cardinality(S)
  BY <1>4, <1>5
<1> QED BY <1>6 DEF T

(* A Seal put in front of every path leaves the order as it is. *)
LEMMA FirstUnderPrefix ==
    ASSUME NEW s \in Seal, NEW U \in SUBSET Seq(Seal), IsFiniteSet(U), NEW n
    PROVE  First(n, {<<s>> \o p : p \in U}) = {<<s>> \o p : p \in First(n, U)}
<1> DEFINE M == {<<s>> \o p : p \in U}
<1>1. ASSUME NEW p \in U
      PROVE  Cardinality({q \in M : Before(q, <<s>> \o p)}) = Cardinality({q \in U : Before(q, p)})
  <2> DEFINE B == {q \in U : Before(q, p)}
             f == [q \in B |-> <<s>> \o q]
  <2>1. B \in SUBSET U
    OBVIOUS
  <2>2. ASSUME NEW q \in U
        PROVE  q \in Seq(Seal) /\ (Before(<<s>> \o q, <<s>> \o p) <=> Before(q, p))
    BY SealsAreNumbers, BeforeUnderPrefix
  <2>3. {q \in M : Before(q, <<s>> \o p)} = {<<s>> \o q : q \in B}
    BY <2>2
  <2>4. {<<s>> \o q : q \in B} = {f[q] : q \in B}
    <3> HIDE DEF B
    <3> QED OBVIOUS
  <2>5. IsFiniteSet(B)
    <3> HIDE DEF B
    <3> QED BY <2>1, FS_Subset
  <2>6. \A q, r \in B : f[q] = f[r] => q = r
    <3> SUFFICES ASSUME NEW q \in B, NEW r \in B, f[q] = f[r] PROVE q = r
      OBVIOUS
    <3>1. <<s>> \o q = <<s>> \o r
      <4> HIDE DEF B
      <4> QED OBVIOUS
    <3>2. q \in Seq(Seal) /\ r \in Seq(Seal)
      BY <2>2
    <3> QED BY <3>1, <3>2, PrefixedTells
  <2>7. f = [q \in B |-> f[q]]
    <3> HIDE DEF B
    <3> QED OBVIOUS
  <2>8. Cardinality({f[q] : q \in B}) = Cardinality(B)
    <3> HIDE DEF B, f
    <3> QED BY <2>5, <2>6, <2>7, OneByOne
  <2> QED BY <2>3, <2>4, <2>8
<1>2. ASSUME NEW x
      PROVE  x \in First(n, M) <=> x \in {<<s>> \o p : p \in First(n, U)}
  <2>1. x \in First(n, M) <=> \E p \in U : x = <<s>> \o p /\ Cardinality({q \in M : Before(q, x)}) < n
    BY DEF First
  <2>2. x \in {<<s>> \o p : p \in First(n, U)} <=>
            \E p \in U : x = <<s>> \o p /\ Cardinality({q \in U : Before(q, p)}) < n
    BY DEF First
  <2> HIDE DEF M
  <2> QED BY <1>1, <2>1, <2>2
<1> QED BY <1>2

(* The first of all are among the first of each list. *)
LEMMA FirstOfEach ==
    ASSUME NEW T \in SUBSET Seal, NEW A, NEW n \in Nat,
           \A t \in T : A[t] \in SUBSET Seq(Seal) /\ IsFiniteSet(A[t])
    PROVE  First(n, UNION {First(n, A[t]) : t \in T}) = First(n, UNION {A[t] : t \in T})
<1> DEFINE X == UNION {A[t] : t \in T}
           Y == UNION {First(n, A[t]) : t \in T}
           R == BeforeOn(X)
<1>1. X \in SUBSET Seq(Seal) /\ IsFiniteSet(X)
  <2>1. IsFiniteSet(T)
    BY SealsAreNumbers, FS_Subset
  <2>2. IsFiniteSet({A[t] : t \in T})
    BY <2>1, ImageIsFinite
  <2> QED BY <2>2, FS_UNION
<1>2. Orders(R, X)
  <2> HIDE DEF X
  <2>1. X \in SUBSET Seq(Nat)
    BY <1>1, SealsAreNumbers
  <2> QED BY <2>1, PathsAreOrdered
<1>3. Y \in SUBSET X
  BY DEF First
<1>4. Leading(R, n, X) \subseteq Y
  <2> SUFFICES ASSUME NEW x \in X, Rank(R, X, x) < n PROVE x \in Y
    BY DEF Leading
  <2>1. PICK t \in T : x \in A[t]
    OBVIOUS
  <2> DEFINE B == {y \in A[t] : Before(y, x)}
             C == {y \in X : <<y, x>> \in R}
  <2>2. B \in SUBSET C
    BY DEF BeforeOn
  <2>3. IsFiniteSet(C) /\ Cardinality(C) \in Nat
    <3> HIDE DEF X
    <3> QED BY <1>1, RankIsNat DEF Rank
  <2>4. IsFiniteSet(B) /\ Cardinality(B) <= Cardinality(C) /\ Cardinality(B) \in Nat
    <3> HIDE DEF B, C
    <3> QED BY <2>2, <2>3, FS_Subset, FS_CardinalityType
  <2>5. Cardinality(C) < n
    BY DEF Rank
  <2>6. Cardinality(B) < n
    <3> HIDE DEF B, C
    <3> QED BY <2>3, <2>4, <2>5
  <2>7. x \in First(n, A[t])
    BY <2>1, <2>6 DEF First
  <2> QED BY <2>1, <2>7
<1>5. Leading(R, n, Y) = Leading(R, n, X)
  <2> HIDE DEF X, Y, R
  <2> QED BY <1>1, <1>2, <1>3, <1>4, LeadingOfPart
<1>6. First(n, Y) = Leading(R, n, Y) /\ First(n, X) = Leading(R, n, X)
  <2> HIDE DEF X, Y
  <2> QED BY <1>3, FirstIsLeading
<1> QED BY <1>5, <1>6

Merged(s, A, T)         == {<<s>> \o p : p \in UNION {A[t] : t \in T}}
FirstMerged(n, s, A, T) == {<<s>> \o p : p \in UNION {First(n, A[t]) : t \in T}}

LEMMA FirstOfMerged ==
    ASSUME NEW s \in Seal, NEW T \in SUBSET Seal, NEW A, NEW n \in Nat,
           \A t \in T : A[t] \in SUBSET Seq(Seal) /\ IsFiniteSet(A[t])
    PROVE  First(n, FirstMerged(n, s, A, T)) = First(n, Merged(s, A, T))
<1> DEFINE X == UNION {A[t] : t \in T}
           Y == UNION {First(n, A[t]) : t \in T}
<1>1. X \in SUBSET Seq(Seal) /\ IsFiniteSet(X)
  <2>1. IsFiniteSet(T)
    BY SealsAreNumbers, FS_Subset
  <2>2. IsFiniteSet({A[t] : t \in T})
    BY <2>1, ImageIsFinite
  <2> QED BY <2>2, FS_UNION
<1>2. Y \in SUBSET X
  BY DEF First
<1>3. First(n, Y) = First(n, X)
  BY FirstOfEach
<1>4. Y \in SUBSET Seq(Seal) /\ IsFiniteSet(Y)
  <2> HIDE DEF X, Y
  <2> QED BY <1>1, <1>2, FS_Subset
<1>5. /\ First(n, {<<s>> \o p : p \in Y}) = {<<s>> \o p : p \in First(n, Y)}
      /\ First(n, {<<s>> \o p : p \in X}) = {<<s>> \o p : p \in First(n, X)}
  <2> HIDE DEF X, Y
  <2> QED BY <1>1, <1>4, FirstUnderPrefix
<1>6. FirstMerged(n, s, A, T) = {<<s>> \o p : p \in Y} /\ Merged(s, A, T) = {<<s>> \o p : p \in X}
  BY DEF FirstMerged, Merged
<1> HIDE DEF X, Y
<1> QED BY <1>3, <1>5, <1>6

-----------------------------------------------------------------------------
(* Walks that stop at the first member of a set.                           *)

Stops(steps, sources, s) ==
    {p \in Along(steps, s) : End(p) \in sources /\ \A i \in 1..(Len(p) - 1) : p[i] \notin sources}

LEMMA AlongFacts ==
    ASSUME NEW steps \in Walks, NEW s, NEW p \in Along(steps, s)
    PROVE  /\ p \in Seq(Seal) /\ Len(p) \in Nat /\ Len(p) >= 1 /\ p[1] = s /\ s \in Seal
           /\ \A i \in 1..(Len(p) - 1) : p[i + 1] \in steps[p[i]]
           /\ DOMAIN p = 1..Len(p) /\ \A i \in 1..Len(p) : p[i] \in Seal
           /\ End(p) \in Seal
BY DEF Along, End

LEMMA StopsUnfold ==
    ASSUME NEW steps \in Walks, NEW sources, NEW s \in Seal
    PROVE  /\ s \in sources => Stops(steps, sources, s) = {<<s>>}
           /\ s \notin sources =>
                 Stops(steps, sources, s) = {<<s>> \o p : p \in UNION {Stops(steps, sources, t) : t \in steps[s]}}
<1>1. <<s>> \in Along(steps, s) /\ Len(<<s>>) = 1 /\ End(<<s>>) = s
  BY AlongOne
<1>2. ASSUME s \in sources PROVE Stops(steps, sources, s) = {<<s>>}
  <2>1. <<s>> \in Stops(steps, sources, s)
    BY <1>1, <1>2 DEF Stops
  <2>2. ASSUME NEW p \in Stops(steps, sources, s) PROVE p = <<s>>
    <3>1. p \in Along(steps, s) /\ \A i \in 1..(Len(p) - 1) : p[i] \notin sources
      BY DEF Stops
    <3>2. p \in Seq(Seal) /\ Len(p) \in Nat /\ Len(p) >= 1 /\ p[1] = s
      BY <3>1, AlongFacts
    <3>3. 1 \notin 1..(Len(p) - 1)
      BY <1>2, <3>1, <3>2
    <3>4. Len(p) = 1
      <4> DEFINE n == Len(p)
      <4>1. n \in Nat /\ n >= 1 /\ 1 \notin 1..(n - 1)
        BY <3>2, <3>3
      <4> HIDE DEF n
      <4>2. n = 1
        BY <4>1
      <4> QED BY <4>2 DEF n
    <3> QED BY <3>2, <3>4
  <2> QED BY <2>1, <2>2
<1>3. ASSUME s \notin sources
      PROVE  Stops(steps, sources, s) = {<<s>> \o p : p \in UNION {Stops(steps, sources, t) : t \in steps[s]}}
  <2> DEFINE U == UNION {Stops(steps, sources, t) : t \in steps[s]}
  <2>1. ASSUME NEW p \in Stops(steps, sources, s)
        PROVE  \E q \in U : p = <<s>> \o q
    <3>1. p \in Along(steps, s) /\ End(p) \in sources /\ \A i \in 1..(Len(p) - 1) : p[i] \notin sources
      BY DEF Stops
    <3>2. p # <<s>>
      BY <1>1, <1>3, <3>1
    <3>0. PICK t \in steps[s] : \E q \in Along(steps, t) : p = <<s>> \o q
      BY <3>1, <3>2, AlongSplits
    <3>3. PICK q \in Along(steps, t) : p = <<s>> \o q
      BY <3>0
    <3>4. t \in Seal
      BY DEF Walks
    <3>5. q \in Seq(Seal) /\ Len(q) \in Nat /\ Len(q) >= 1
      BY <3>4, AlongFacts
    <3>6. /\ Len(p) = Len(q) + 1 /\ End(p) = End(q)
          /\ \A i \in 1..Len(q) : p[i + 1] = q[i]
      BY <3>3, <3>5, Prefixed
    <3>7. ASSUME NEW i \in 1..(Len(q) - 1) PROVE q[i] \notin sources
      <4>1. i + 1 \in 1..(Len(p) - 1) /\ i \in 1..Len(q)
        BY <3>5, <3>6
      <4> QED BY <3>1, <3>6, <4>1
    <3>8. q \in Stops(steps, sources, t)
      BY <3>1, <3>6, <3>7 DEF Stops
    <3> QED BY <3>3, <3>8
  <2>2. ASSUME NEW t \in steps[s], NEW q \in Stops(steps, sources, t)
        PROVE  <<s>> \o q \in Stops(steps, sources, s)
    <3>1. q \in Along(steps, t) /\ End(q) \in sources /\ \A i \in 1..(Len(q) - 1) : q[i] \notin sources
      BY DEF Stops
    <3>2. t \in Seal
      BY DEF Walks
    <3>3. q \in Seq(Seal) /\ Len(q) \in Nat /\ Len(q) >= 1
      BY <3>1, <3>2, AlongFacts
    <3> DEFINE p == <<s>> \o q
    <3>4. /\ Len(p) = Len(q) + 1 /\ End(p) = End(q) /\ p[1] = s
          /\ \A i \in 1..Len(q) : p[i + 1] = q[i]
      BY <3>3, Prefixed
    <3>5. p \in Along(steps, s)
      BY <3>1, AlongGrows
    <3> HIDE DEF p
    <3>6. ASSUME NEW i \in 1..(Len(p) - 1) PROVE p[i] \notin sources
      <4>1. CASE i = 1
        BY <1>3, <3>4, <4>1
      <4>2. CASE i # 1
        <5>1. i - 1 \in 1..(Len(q) - 1) /\ i - 1 \in 1..Len(q) /\ i = (i - 1) + 1
          BY <3>3, <3>4, <4>2
        <5>2. p[(i - 1) + 1] = q[i - 1]
          BY <3>4, <5>1
        <5> QED BY <3>1, <5>1, <5>2
      <4> QED BY <4>1, <4>2
    <3>7. p \in Stops(steps, sources, s)
      BY <3>1, <3>4, <3>5, <3>6 DEF Stops
    <3> QED BY <3>7 DEF p
  <2>3. \A q \in U : <<s>> \o q \in Stops(steps, sources, s)
    BY <2>2
  <2> HIDE DEF U
  <2>4. Stops(steps, sources, s) = {<<s>> \o q : q \in U}
    BY <2>1, <2>3
  <2> QED BY <2>4 DEF U
<1> QED BY <1>2, <1>3

LEMMA StopsAreFinite ==
    ASSUME NEW steps \in Walks, Ends(steps), NEW sources
    PROVE  \A s \in Seal : Stops(steps, sources, s) \in SUBSET Seq(Seal) /\ IsFiniteSet(Stops(steps, sources, s))
<1> SUFFICES ASSUME NEW s \in Seal
             PROVE  Stops(steps, sources, s) \in SUBSET Seq(Seal) /\ IsFiniteSet(Stops(steps, sources, s))
  OBVIOUS
<1>1. Along(steps, s) \in SUBSET Seq(Seal) /\ IsFiniteSet(Along(steps, s))
  BY AlongIsFinite
<1>2. Stops(steps, sources, s) \in SUBSET Along(steps, s)
  BY DEF Stops
<1> QED BY <1>1, <1>2, FS_Subset

CauseSteps == [s \in Seal |-> G!Targets(s)]

(* impactSuffixPaths: what is kept at every Seal are the first of all the  *)
(* paths from it to the sources.                                           *)
LEMMA SuffixPathsAre ==
    ASSUME CauseSteps \in Walks, Ends(CauseSteps), NEW sources, NEW n \in Nat, n >= 1
    PROVE  SuffixPaths(sources, n) = [s \in Seal |-> First(n, Stops(CauseSteps, sources, s))]
<1> DEFINE Step(f, s) == IF s \in sources THEN {<<s>>}
                         ELSE First(n, {<<s>> \o p : p \in UNION {f[t] : t \in G!Targets(s)}})
           A == [s \in Seal |-> Stops(CauseSteps, sources, s)]
           g == [s \in Seal |-> First(n, Stops(CauseSteps, sources, s))]
           Solves(f) == f = [s \in Seal |-> Step(f, s)]
<1>0. ASSUME NEW s \in Seal PROVE CauseSteps[s] = G!Targets(s) /\ G!Targets(s) \in SUBSET Seal
  BY DEF CauseSteps, Walks
<1>1. ASSUME NEW s \in Seal PROVE g[s] = Step(g, s)
  <2>1. CASE s \in sources
    <3>1. Stops(CauseSteps, sources, s) = {<<s>>}
      BY <2>1, StopsUnfold
    <3>2. First(n, {<<s>>}) = {<<s>>}
      <4>1. {q \in {<<s>>} : Before(q, <<s>>)} = {}
        <5>1. s \in Nat /\ <<s>> \in Seq(Nat)
          BY SealsAreNumbers
        <5>2. ~Lexical(<<s>>, <<s>>) /\ Len(<<s>>) = 1
          BY <5>1, LexicalIsStrict
        <5> DEFINE p == <<s>>
        <5> HIDE DEF p
        <5>3. ~Before(p, p)
          BY <5>2 DEF Before, p
        <5> QED BY <5>3 DEF p
      <4>2. Cardinality({}) = 0
        BY FS_EmptySet
      <4> QED BY <4>1, <4>2 DEF First
    <3> QED BY <2>1, <3>1, <3>2
  <2>2. CASE s \notin sources
    <3> DEFINE T == G!Targets(s)
    <3>1. Stops(CauseSteps, sources, s) = {<<s>> \o p : p \in UNION {Stops(CauseSteps, sources, t) : t \in T}}
      BY <2>2, <1>0, StopsUnfold
    <3>2. \A t \in T : A[t] = Stops(CauseSteps, sources, t) /\ g[t] = First(n, A[t])
      BY <1>0
    <3>4. T \in SUBSET Seal
      BY <1>0
    <3>3. \A t \in T : A[t] \in SUBSET Seq(Seal) /\ IsFiniteSet(A[t])
      <4> HIDE DEF A, T
      <4> QED BY <3>2, <3>4, StopsAreFinite
    <3>5. UNION {Stops(CauseSteps, sources, t) : t \in T} = UNION {A[t] : t \in T}
      <4> HIDE DEF A, g, T
      <4> QED BY <3>2
    <3>6. UNION {g[t] : t \in T} = UNION {First(n, A[t]) : t \in T}
      <4> HIDE DEF A, g, T
      <4> QED BY <3>2
    <3>7. First(n, {<<s>> \o p : p \in UNION {First(n, A[t]) : t \in T}})
             = First(n, {<<s>> \o p : p \in UNION {A[t] : t \in T}})
      <4> HIDE DEF A, T
      <4>1. First(n, FirstMerged(n, s, A, T)) = First(n, Merged(s, A, T))
        BY <3>3, <3>4, FirstOfMerged
      <4> QED BY <4>1 DEF FirstMerged, Merged
    <3>8. g[s] = First(n, {<<s>> \o p : p \in UNION {A[t] : t \in T}})
      <4>1. g[s] = First(n, Stops(CauseSteps, sources, s))
        OBVIOUS
      <4> HIDE DEF A, g, T
      <4> QED BY <4>1, <3>1, <3>5
    <3>9. Step(g, s) = First(n, {<<s>> \o p : p \in UNION {g[t] : t \in T}})
      BY <2>2
    <3> HIDE DEF A, g, T, Step
    <3> QED BY <3>6, <3>7, <3>8, <3>9
  <2> QED BY <2>1, <2>2
<1>2. Solves(g)
  <2>1. g = [s \in Seal |-> g[s]]
    OBVIOUS
  <2> HIDE DEF g, Step
  <2> QED BY <1>1, <2>1
<1>3. SuffixPaths(sources, n) = CHOOSE f : Solves(f)
  BY DEF SuffixPaths
<1>4. Solves(SuffixPaths(sources, n))
  <2> HIDE DEF Solves, g
  <2> QED BY <1>2, <1>3
<1>5. ASSUME NEW f, Solves(f) PROVE f = g
  <2> DEFINE C == {s \in Seal : f[s] # g[s]}
  <2>1. ASSUME C # {} PROVE FALSE
    <3>1. PICK s \in C : CauseSteps[s] \cap C = {}
      BY <2>1 DEF Ends
    <3>2. s \in Seal /\ f[s] # g[s]
      OBVIOUS
    <3>3. \A t \in G!Targets(s) : f[t] = g[t]
      BY <3>1, <3>2, <1>0
    <3>4. UNION {f[t] : t \in G!Targets(s)} = UNION {g[t] : t \in G!Targets(s)}
      <4> HIDE DEF g
      <4> QED BY <3>3
    <3>5. f[s] = Step(f, s)
      <4> HIDE DEF Step
      <4> QED BY <1>5, <3>2
    <3>6. Step(f, s) = Step(g, s)
      <4> HIDE DEF g
      <4> QED BY <3>4
    <3> HIDE DEF g, Step
    <3> QED BY <3>2, <3>5, <3>6, <1>1
  <2>2. f = [s \in Seal |-> f[s]]
    <3> HIDE DEF Step
    <3> QED BY <1>5
  <2>3. \A s \in Seal : f[s] = g[s]
    BY <2>1
  <2>4. g = [s \in Seal |-> g[s]]
    OBVIOUS
  <2> HIDE DEF g
  <2> QED BY <2>2, <2>3, <2>4
<1>6. SuffixPaths(sources, n) = g
  <2> HIDE DEF Solves, g
  <2> QED BY <1>4, <1>5
<1> QED BY <1>6

(* firstStalePaths: the paths to the first Seal that is not a leaf. *)
LEMMA FirstStalePathsAre ==
    ASSUME CauseSteps \in Walks, Ends(CauseSteps)
    PROVE  FirstStalePaths = [s \in Seal |-> Stops(CauseSteps, Seal \ graph.leaves, s)]
<1> DEFINE O == Seal \ graph.leaves
           Step(f, s) == IF s \notin graph.leaves THEN {<<s>>}
                         ELSE {<<s>> \o p : p \in UNION {f[t] : t \in G!Targets(s)}}
           g == [s \in Seal |-> Stops(CauseSteps, O, s)]
           Solves(f) == f = [s \in Seal |-> Step(f, s)]
<1>0. ASSUME NEW s \in Seal PROVE CauseSteps[s] = G!Targets(s) /\ G!Targets(s) \in SUBSET Seal
  BY DEF CauseSteps, Walks
<1>1. ASSUME NEW s \in Seal PROVE g[s] = Step(g, s)
  <2>1. g[s] = Stops(CauseSteps, O, s) /\ \A t \in G!Targets(s) : g[t] = Stops(CauseSteps, O, t)
    BY <1>0
  <2>2. UNION {g[t] : t \in G!Targets(s)} = UNION {Stops(CauseSteps, O, t) : t \in G!Targets(s)}
    <3> HIDE DEF g, O
    <3> QED BY <2>1
  <2>3. s \in O <=> s \notin graph.leaves
    OBVIOUS
  <2>4. CASE s \in O
    <3>1. Stops(CauseSteps, O, s) = {<<s>>}
      <4> HIDE DEF O
      <4> QED BY <2>4, StopsUnfold
    <3> QED BY <2>1, <2>3, <2>4, <3>1
  <2>5. CASE s \notin O
    <3>1. Stops(CauseSteps, O, s) = {<<s>> \o p : p \in UNION {Stops(CauseSteps, O, t) : t \in CauseSteps[s]}}
      <4> HIDE DEF O
      <4> QED BY <2>5, StopsUnfold
    <3>2. Step(g, s) = {<<s>> \o p : p \in UNION {g[t] : t \in G!Targets(s)}}
      BY <2>3, <2>5
    <3> HIDE DEF g, O, Step
    <3> QED BY <2>1, <2>2, <1>0, <3>1, <3>2
  <2> QED BY <2>4, <2>5
<1>2. Solves(g)
  <2>1. g = [s \in Seal |-> g[s]]
    OBVIOUS
  <2> HIDE DEF g, Step
  <2> QED BY <1>1, <2>1
<1>3. FirstStalePaths = CHOOSE f : Solves(f)
  BY DEF FirstStalePaths
<1>4. Solves(FirstStalePaths)
  <2> HIDE DEF Solves, g
  <2> QED BY <1>2, <1>3
<1>5. ASSUME NEW f, Solves(f) PROVE f = g
  <2> DEFINE C == {s \in Seal : f[s] # g[s]}
  <2>1. ASSUME C # {} PROVE FALSE
    <3>1. PICK s \in C : CauseSteps[s] \cap C = {}
      BY <2>1 DEF Ends
    <3>2. s \in Seal /\ f[s] # g[s]
      OBVIOUS
    <3>3. \A t \in G!Targets(s) : f[t] = g[t]
      BY <3>1, <3>2, <1>0
    <3>4. UNION {f[t] : t \in G!Targets(s)} = UNION {g[t] : t \in G!Targets(s)}
      <4> HIDE DEF g
      <4> QED BY <3>3
    <3>5. f[s] = Step(f, s)
      <4> HIDE DEF Step
      <4> QED BY <1>5, <3>2
    <3>6. Step(f, s) = Step(g, s)
      <4> HIDE DEF g
      <4> QED BY <3>4
    <3> HIDE DEF g, Step
    <3> QED BY <3>2, <3>5, <3>6, <1>1
  <2>2. f = [s \in Seal |-> f[s]]
    <3> HIDE DEF Step
    <3> QED BY <1>5
  <2>3. \A s \in Seal : f[s] = g[s]
    BY <2>1
  <2>4. g = [s \in Seal |-> g[s]]
    OBVIOUS
  <2> HIDE DEF g
  <2> QED BY <2>2, <2>3, <2>4
<1>6. FirstStalePaths = g
  <2> HIDE DEF Solves, g
  <2> QED BY <1>4, <1>5
<1> QED BY <1>6

(* Where every walk ends, no path meets a Seal twice. *)
LEMMA NoReturn ==
    ASSUME NEW steps \in Walks, Ends(steps), NEW s, NEW p \in Along(steps, s),
           NEW i \in 1..Len(p), NEW j \in 1..Len(p), i < j
    PROVE  p[i] # p[j]
<1> SUFFICES ASSUME p[i] = p[j] PROVE FALSE
  OBVIOUS
<1> DEFINE C == {p[k] : k \in i..(j - 1)}
<1>1. /\ Len(p) \in Nat /\ \A k \in 1..(Len(p) - 1) : p[k + 1] \in steps[p[k]]
      /\ \A k \in 1..Len(p) : p[k] \in Seal
  BY AlongFacts
<1>2. \A k \in i..(j - 1) : k \in 1..(Len(p) - 1) /\ k \in 1..Len(p)
  BY <1>1
<1>3. C \in SUBSET Seal
  BY <1>1, <1>2
<1>4. i \in i..(j - 1)
  OBVIOUS
<1>5. p[i] \in C
  BY <1>4
<1>6. PICK u \in C : steps[u] \cap C = {}
  <2> HIDE DEF C
  <2> QED BY <1>3, <1>5 DEF Ends
<1>7. PICK k \in i..(j - 1) : u = p[k]
  BY <1>6
<1>8. p[k + 1] \in steps[u]
  BY <1>1, <1>2, <1>7
<1>9. p[k + 1] \in C
  <2>1. CASE k = j - 1
    <3>1. k + 1 = j
      BY <1>1, <2>1
    <3> QED BY <1>5, <3>1
  <2>2. CASE k # j - 1
    <3>1. k + 1 \in i..(j - 1)
      BY <2>2
    <3> QED BY <3>1
  <2> QED BY <2>1, <2>2
<1> QED BY <1>6, <1>8, <1>9

-----------------------------------------------------------------------------
(* The graph of a command.                                                 *)

(* The stored Seals and the graph of the current heads never change. *)
Built == /\ \E links \in Stored : body = [s \in Seal |-> Saying(links[s])]
         /\ refs \in HeadMaps /\ graph = G!GraphOf({refs[r] : r \in DOMAIN refs})
         /\ graph.acyclic

LEMMA LinksAre ==
    ASSUME Built
    PROVE  \A s \in Seal : body[s].links \in SUBSET [target : Seal, previous : SUBSET Seal]
<1>1. PICK links \in Stored : body = [s \in Seal |-> Saying(links[s])]
  BY DEF Built
<1>2. ASSUME NEW s \in Seal PROVE body[s].links = links[s]
  BY <1>1 DEF Saying
<1>3. links \in [Seal -> SUBSET [target : Seal, previous : SUBSET Seal]]
  BY StoredAssumption
<1> QED BY <1>2, <1>3

LEMMA CausesEnd ==
    ASSUME Built
    PROVE  /\ CauseSteps \in Walks /\ Ends(CauseSteps)
           /\ G!CauseEdges(Seal) = Edges(CauseSteps)
           /\ \A s \in Seal : CauseSteps[s] = G!Targets(s) /\ G!Targets(s) \in SUBSET Seal
<1>1. ASSUME NEW s \in Seal PROVE CauseSteps[s] = G!Targets(s) /\ G!Targets(s) \in SUBSET Seal
  BY LinksAre DEF CauseSteps, G!Targets
<1>2. CauseSteps \in Walks
  BY <1>1 DEF CauseSteps, Walks
<1>3. ASSUME NEW C \in SUBSET Seal, C # {}
      PROVE  \E s \in C : CauseSteps[s] \cap C = {}
  <2>1. PICK links \in Stored : body = [s \in Seal |-> Saying(links[s])]
    BY DEF Built
  <2>2. PICK s \in C : \A l \in links[s] : l.target \notin C
    BY <1>3, <2>1, StoredAssumption
  <2>3. body[s].links = links[s]
    BY <2>1 DEF Saying
  <2>4. CauseSteps[s] = {l.target : l \in links[s]}
    BY <2>3, <1>1 DEF G!Targets
  <2> QED BY <2>2, <2>4
<1>4. G!CauseEdges(Seal) = Edges(CauseSteps)
  <2>1. \A s \in Seal : {s} \X G!Targets(s) = {s} \X CauseSteps[s]
    BY <1>1
  <2> QED BY <2>1 DEF G!CauseEdges, Edges
<1> QED BY <1>1, <1>2, <1>3, <1>4 DEF Ends

LEMMA GraphFacts ==
    ASSUME Built
    PROVE  /\ graph.heads \in SUBSET Seal /\ graph.nodes \in SUBSET Seal
           /\ graph.active \in SUBSET Seal /\ graph.leaves \in SUBSET Seal
           /\ graph.revisions = G!RevisionEdges(graph.nodes)
           /\ G!IsAcyclic(graph.nodes, G!CauseEdges(graph.nodes) \cup graph.revisions)
           /\ graph.nodes = G!Nodes(graph.heads)
           /\ graph.leaves = G!Leaves(graph.active, graph.revisions)
           /\ graph.heads = {refs[r] : r \in DOMAIN refs}
<1> DEFINE H == {refs[r] : r \in DOMAIN refs}
<1>1. graph = G!GraphOf(H)
  BY DEF Built
<1>2. /\ graph.heads = H /\ graph.nodes = G!Nodes(H)
      /\ graph.revisions = G!RevisionEdges(graph.nodes)
      /\ graph.active = G!Reach(graph.revisions, H)
      /\ graph.leaves = G!Leaves(graph.active, graph.revisions)
      /\ graph.acyclic = G!IsAcyclic(graph.nodes, G!CauseEdges(graph.nodes) \cup graph.revisions)
  BY <1>1 DEF G!GraphOf
<1>3. H \in SUBSET Seal
  BY StoredAssumption DEF Built
<1>4. graph.acyclic
  BY DEF Built
<1>5. graph.nodes \in SUBSET Seal /\ graph.active \in SUBSET Seal
  BY <1>2, <1>3 DEF G!Nodes, G!Reach
<1>6. graph.leaves \in SUBSET Seal
  BY <1>2, <1>5 DEF G!Leaves
<1> QED BY <1>2, <1>3, <1>4, <1>5, <1>6

LEMMA CausePathsAre ==
    ASSUME Built
    PROVE  CausePaths = [s \in Seal |-> Along(CauseSteps, s)]
BY CausesEnd, PathsAlongAre DEF CausePaths, CauseSteps

(* What a Seal rests on is where its Cause paths lead. *)
LEMMA CausesArePaths ==
    ASSUME Built, NEW s \in Seal, NEW t
    PROVE  t \in Causes(s) <=> \E p \in Along(CauseSteps, s) : Len(p) > 1 /\ End(p) = t
<1>1. CauseSteps \in Walks /\ G!Targets(s) \in SUBSET Seal /\ CauseSteps[s] = G!Targets(s)
  BY CausesEnd
<1>2. t \in Causes(s) <=> \E u \in G!Targets(s) : \E q \in Along(CauseSteps, u) : End(q) = t
  BY <1>1, CausesEnd, ReachIsPaths DEF Causes
<1>3. ASSUME NEW u \in G!Targets(s), NEW q \in Along(CauseSteps, u)
      PROVE  /\ <<s>> \o q \in Along(CauseSteps, s)
             /\ Len(<<s>> \o q) > 1 /\ End(<<s>> \o q) = End(q)
  <2>1. q \in Seq(Seal) /\ Len(q) \in Nat /\ Len(q) >= 1
    BY <1>1, AlongFacts
  <2>2. Len(<<s>> \o q) = Len(q) + 1 /\ End(<<s>> \o q) = End(q)
    BY <2>1, Prefixed
  <2>3. <<s>> \o q \in Along(CauseSteps, s)
    BY <1>1, AlongGrows
  <2>4. Len(<<s>> \o q) > 1
    <3> DEFINE r == <<s>> \o q
    <3>1. Len(r) = Len(q) + 1
      BY <2>2
    <3> HIDE DEF r
    <3>2. Len(r) > 1
      BY <2>1, <3>1
    <3> QED BY <3>2 DEF r
  <2> QED BY <2>2, <2>3, <2>4
<1>4. ASSUME NEW p \in Along(CauseSteps, s), Len(p) > 1
      PROVE  \E u \in G!Targets(s) : \E q \in Along(CauseSteps, u) : p = <<s>> \o q
  <2>1. p # <<s>>
    <3> DEFINE one == <<s>>
    <3>1. Len(one) = 1
      OBVIOUS
    <3> HIDE DEF one
    <3>2. ASSUME p = one PROVE FALSE
      <4>1. Len(p) = 1
        BY <3>1, <3>2
      <4> QED BY <4>1, <1>4
    <3> QED BY <3>2 DEF one
  <2> QED BY <2>1, <1>1, AlongSplits
<1> QED BY <1>2, <1>3, <1>4

-----------------------------------------------------------------------------
(* observe.                                                                *)

(* Of two Cause paths to one Seal, neither begins the other. *)
LEMMA RoutesAreOrdered ==
    ASSUME Built, NEW s \in Seal, NEW t, NEW X \in SUBSET {p \in Along(CauseSteps, s) : End(p) = t}
    PROVE  Orders(LexicalOn(X), X)
<1>0. \A x, y \in X : <<x, y>> \in LexicalOn(X) <=> Lexical(x, y)
  BY DEF LexicalOn
<1>1. ASSUME NEW x \in X
      PROVE  x \in Seq(Nat) /\ x \in Along(CauseSteps, s) /\ Len(x) \in Nat /\ Len(x) >= 1 /\ x[Len(x)] = t
             /\ DOMAIN x = 1..Len(x)
  <2>1. x \in Along(CauseSteps, s) /\ End(x) = t
    OBVIOUS
  <2>2. x \in Seq(Seal) /\ Len(x) \in Nat /\ Len(x) >= 1 /\ DOMAIN x = 1..Len(x)
    BY <2>1, CausesEnd, AlongFacts
  <2> QED BY <2>1, <2>2, SealsAreNumbers DEF End
<1>2. ASSUME NEW x \in X, NEW y \in X, x # y, Len(x) <= Len(y) PROVE Lexical(x, y) \/ Lexical(y, x)
  <2>1. CASE \E k \in 1..Len(x) : x[k] # y[k]
    <3>1. PICK k \in 1..Len(x) : x[k] # y[k]
      BY <2>1
    <3>2. k \in DOMAIN x \cap DOMAIN y
      BY <1>1, <1>2
    <3> QED BY <1>1, <3>1, <3>2, LexicalIsTotal
  <2>2. CASE \A k \in 1..Len(x) : x[k] = y[k]
    <3>1. Len(x) # Len(y)
      BY <1>1, <1>2, <2>2
    <3>2. Len(x) \in 1..Len(y) /\ Len(y) \in 1..Len(y) /\ Len(x) < Len(y) /\ Len(x) \in 1..Len(x)
      BY <3>1, <1>1, <1>2
    <3>3. y[Len(x)] = t /\ y[Len(y)] = t
      BY <1>1, <2>2, <3>2
    <3>4. y[Len(x)] # y[Len(y)]
      BY <3>2, <1>1, CausesEnd, NoReturn
    <3> QED BY <3>3, <3>4
  <2> QED BY <2>1, <2>2
<1>3. ASSUME NEW x \in X, NEW y \in X, x # y PROVE Lexical(x, y) \/ Lexical(y, x)
  <2>1. Len(x) <= Len(y) \/ Len(y) <= Len(x)
    BY <1>1
  <2> QED BY <2>1, <1>2, <1>3
<1>4. \A x \in X : ~Lexical(x, x)
  BY <1>1, LexicalIsStrict
<1>5. \A x, y, z \in X : Lexical(x, y) /\ Lexical(y, z) => Lexical(x, z)
  BY <1>1, LexicalIsTransitive
<1> HIDE DEF LexicalOn
<1> QED BY <1>0, <1>3, <1>4, <1>5 DEF Orders

Listed(n, X) == {p \in X : Cardinality({q \in X : Met(q, p)}) < n}

LEMMA RoutesShown ==
    ASSUME Built, NEW s \in Seal, NEW t, NEW X \in SUBSET {p \in Along(CauseSteps, s) : End(p) = t},
           NEW n \in Nat
    PROVE  Cardinality(X) <= n <=> Listed(n, X) = X
<1> DEFINE R == LexicalOn(X)
<1>1. Orders(R, X)
  BY RoutesAreOrdered
<1>2. IsFiniteSet(X)
  <2>1. X \in SUBSET Along(CauseSteps, s)
    OBVIOUS
  <2> QED BY <2>1, CausesEnd, AlongIsFinite, FS_Subset
<1>3. ASSUME NEW p \in X PROVE {q \in X : Met(q, p)} = {q \in X : <<q, p>> \in R}
  BY DEF LexicalOn, Met
<1>4. Listed(n, X) = Leading(R, n, X)
  <2> HIDE DEF R
  <2> QED BY <1>3 DEF Listed, Leading, Rank
<1> HIDE DEF R
<1> QED BY <1>1, <1>2, <1>4, LeadingIsAll

ObserveAnswer(subject, max) ==
    [query |-> "observe", subject |-> subject, max |-> max,
     reasons |-> {Reason(t, {p \in ReasonPaths(subject) : End(p) = t}, max) :
                     t \in {End(p) : p \in ReasonPaths(subject)}},
     successors |-> {s \in Seal : subject \in Revisions[s]},
     direct |-> G!StaleDirect(graph, subject), transitive |-> TransitivePaths(subject)]

LEMMA ObserveIsExact ==
    ASSUME Built, NEW s \in Seal, NEW n \in Nat, answer = ObserveAnswer(s, n)
    PROVE  ReasonsAreExact
<1> DEFINE P == {p \in Along(CauseSteps, s) : Len(p) > 1 /\ End(p) \notin graph.leaves}
           To(t) == {p \in P : End(p) = t}
<1>1. ReasonPaths(s) = P
  BY CausePathsAre DEF ReasonPaths
<1>2. /\ answer.subject = s /\ answer.direct = G!StaleDirect(graph, s)
      /\ answer.transitive = TransitivePaths(s)
      /\ answer.reasons = {Reason(t, To(t), n) : t \in {End(p) : p \in P}}
  <2> HIDE DEF P
  <2> QED BY <1>1 DEF ObserveAnswer
<1>3. ASSUME NEW t
      PROVE  /\ Reason(t, To(t), n).target = t
             /\ Reason(t, To(t), n).direct <=> \E p \in P : End(p) = t /\ Len(p) = 2
             /\ Reason(t, To(t), n).complete <=> Reason(t, To(t), n).paths = To(t)
  <2>1. To(t) \in SUBSET {p \in Along(CauseSteps, s) : End(p) = t}
    OBVIOUS
  <2>2. Reason(t, To(t), n).direct <=> \E p \in P : End(p) = t /\ Len(p) = 2
    BY DEF Reason, IsDirect
  <2> HIDE DEF To
  <2>3. /\ Reason(t, To(t), n).target = t
        /\ Reason(t, To(t), n).paths = Listed(n, To(t))
        /\ Reason(t, To(t), n).complete = (Cardinality(To(t)) <= n)
    BY DEF Reason, Listed
  <2>4. Cardinality(To(t)) <= n <=> Listed(n, To(t)) = To(t)
    BY <2>1, RoutesShown
  <2> QED BY <2>2, <2>3, <2>4
<1>4. ASSUME NEW r \in answer.reasons
      PROVE  /\ r.target \in {End(p) : p \in P}
             /\ r = Reason(r.target, To(r.target), n)
  <2>1. PICK t \in {End(p) : p \in P} : r = Reason(t, To(t), n)
    <3> HIDE DEF P, To
    <3> QED BY <1>2
  <2> QED BY <2>1, <1>3
<1>5. ASSUME NEW t \in {End(p) : p \in P}
      PROVE  Reason(t, To(t), n) \in answer.reasons
  <2> HIDE DEF P, To
  <2> QED BY <1>2
<1>6. {r.target : r \in answer.reasons} = {End(p) : p \in P}
  <2> HIDE DEF P, To
  <2> QED BY <1>3, <1>4, <1>5
<1>7. {End(p) : p \in P} = Causes(s) \ graph.leaves
  BY CausesArePaths
<1>8. ReasonsAreComplete
  <2>1. ASSUME NEW r \in answer.reasons
        PROVE  r.complete <=> r.paths = {p \in CausePaths[s] : Len(p) > 1 /\ End(p) = r.target}
    <3>1. r = Reason(r.target, To(r.target), n) /\ r.target \in {End(p) : p \in P}
      BY <2>1, <1>4
    <3>2. r.complete <=> r.paths = To(r.target)
      <4> HIDE DEF To, P
      <4> QED BY <3>1, <1>3
    <3>3. r.target \notin graph.leaves
      BY <3>1
    <3>4. To(r.target) = {p \in Along(CauseSteps, s) : Len(p) > 1 /\ End(p) = r.target}
      BY <3>3
    <3> QED BY <3>2, <3>4, CausePathsAre
  <2> HIDE DEF P, To
  <2> QED BY <2>1, <1>2, <1>6, <1>7 DEF ReasonsAreComplete
<1>9. {r.target : r \in {q \in answer.reasons : q.direct}} = answer.direct
  <2>1. ASSUME NEW t
        PROVE  t \in answer.direct <=> \E p \in P : End(p) = t /\ Len(p) = 2
    <3>1. t \in answer.direct <=> t \in G!Targets(s) /\ t \notin graph.leaves
      BY <1>2 DEF G!StaleDirect
    <3>2. ASSUME t \in G!Targets(s), t \notin graph.leaves PROVE \E p \in P : End(p) = t /\ Len(p) = 2
      <4>1. CauseSteps \in Walks /\ t \in CauseSteps[s] /\ t \in Seal
        BY <3>2, CausesEnd
      <4> DEFINE one == <<t>>
                 two == <<s>> \o one
      <4>2. one \in Along(CauseSteps, t) /\ Len(one) = 1 /\ End(one) = t /\ one \in Seq(Seal)
        BY <4>1, AlongOne, AlongFacts
      <4> HIDE DEF one
      <4>3. two \in Along(CauseSteps, s)
        BY <4>1, <4>2, AlongGrows
      <4>0. Len(one) >= 1
        BY <4>2
      <4>4. Len(two) = Len(one) + 1 /\ End(two) = End(one)
        <5>1. one \in Seq(Seal) /\ s \in Seal
          BY <4>2
        <5> QED BY <4>0, <5>1, Prefixed
      <4> HIDE DEF two
      <4>5. Len(two) = 2 /\ Len(two) > 1 /\ End(two) = t
        BY <4>2, <4>4
      <4> QED BY <3>2, <4>3, <4>5
    <3>3. ASSUME NEW p \in P, End(p) = t, Len(p) = 2 PROVE t \in G!Targets(s) /\ t \notin graph.leaves
      <4>1. p[1] = s /\ \A i \in 1..(Len(p) - 1) : p[i + 1] \in CauseSteps[p[i]]
        BY CausesEnd, AlongFacts
      <4>2. p[1 + 1] \in CauseSteps[s]
        BY <3>3, <4>1
      <4>3. p[2] = t
        BY <3>3 DEF End
      <4> QED BY <3>3, <4>2, <4>3, CausesEnd
    <3> QED BY <3>1, <3>2, <3>3
  <2>2. ASSUME NEW t
        PROVE  t \in {r.target : r \in {q \in answer.reasons : q.direct}} <=> \E p \in P : End(p) = t /\ Len(p) = 2
    <3>1. ASSUME NEW r \in answer.reasons, r.direct, r.target = t PROVE \E p \in P : End(p) = t /\ Len(p) = 2
      <4>1. r = Reason(t, To(t), n)
        <5> HIDE DEF P, To
        <5> QED BY <3>1, <1>4
      <4>2. Reason(t, To(t), n).direct
        <5> HIDE DEF P, To
        <5> QED BY <3>1, <4>1
      <4> QED BY <4>2, <1>3
    <3>2. ASSUME NEW p \in P, End(p) = t, Len(p) = 2
          PROVE  Reason(t, To(t), n) \in answer.reasons /\ Reason(t, To(t), n).direct /\ Reason(t, To(t), n).target = t
      <4>1. t \in {End(q) : q \in P}
        BY <3>2
      <4> QED BY <3>2, <4>1, <1>3, <1>5
    <3> HIDE DEF P, To
    <3> QED BY <3>1, <3>2
  <2> HIDE DEF P, To
  <2> QED BY <2>1, <2>2
<1>10. ASSUME NEW p \in answer.transitive
       PROVE  \E r \in answer.reasons : r.target = End(p) /\ (r.complete => <<s>> \o p \in r.paths)
  <2>1. PICK t \in G!Targets(s) : p \in FirstStalePaths[t]
    <3>1. p \in TransitivePaths(s)
      BY <1>2
    <3> QED BY <3>1 DEF TransitivePaths
  <2>2. t \in Seal /\ t \in CauseSteps[s] /\ CauseSteps \in Walks
    BY CausesEnd
  <2>3. p \in Along(CauseSteps, t) /\ End(p) \notin graph.leaves
    BY <2>1, <2>2, CausesEnd, FirstStalePathsAre DEF Stops
  <2>4. p \in Seq(Seal) /\ Len(p) \in Nat /\ Len(p) >= 1
    BY <2>2, <2>3, AlongFacts
  <2> DEFINE q == <<s>> \o p
  <2>5. q \in Along(CauseSteps, s)
    BY <2>2, <2>3, AlongGrows
  <2>6. Len(q) = Len(p) + 1 /\ End(q) = End(p)
    BY <2>4, Prefixed
  <2> HIDE DEF q
  <2>7. q \in To(End(p))
    <3>1. Len(q) > 1
      BY <2>4, <2>6
    <3> QED BY <3>1, <2>3, <2>5, <2>6
  <2>8. End(p) \in {End(x) : x \in P}
    BY <2>7
  <2> DEFINE r == Reason(End(p), To(End(p)), n)
  <2>9. r \in answer.reasons /\ r.target = End(p) /\ (r.complete => r.paths = To(End(p)))
    <3> HIDE DEF P, To
    <3> QED BY <2>8, <1>3, <1>5
  <2> HIDE DEF r, To, P
  <2> QED BY <2>7, <2>9 DEF q
<1>11. StaleIsExplained
  <2> HIDE DEF P, To
  <2> QED BY <1>2, <1>9, <1>10 DEF StaleIsExplained
<1> QED BY <1>8, <1>11 DEF ReasonsAreExact

-----------------------------------------------------------------------------
(* The Seals and the graph stay what they are.                             *)

LEMMA InitBuilds ==
    ASSUME Init
    PROVE  Built
BY DEF Init, Built

LEMMA NothingIsStored ==
    ASSUME [Next]_vars
    PROVE  body' = body /\ refs' = refs /\ graph' = graph
BY DEF Next, vars, Impact, LogBegin, LogVisit, LogEmit, LinkLogEmit, Observe, DirectionBegin,
       ClosureVisit, DirectionVisit, DirectionTurn, DirectionEmit

(* What each action answers. *)
LEMMA AnswersAre ==
    ASSUME [Next]_vars
    PROVE  \/ answer' = answer
           \/ \E s \in Seal, filter \in Scopes, n \in Limits : Impact(s, filter, n) /\ answer'.query = "impact"
           \/ \E n \in Limits : LogEmit(n) /\ answer'.query = "log"
           \/ \E upstream \in {{}} \cup {{s} : s \in Seal} :
                 LinkLogEmit(upstream) /\ answer'.query = "linklog"
           \/ \E s \in Seal, n \in Limits : Observe(s, n) /\ answer'.query = "observe"
           \/ DirectionEmit /\ answer'.query = "direction"
           \/ answer'.query = "refused"
<1>1. ASSUME NEW s \in Seal, NEW filter \in Scopes, NEW n \in Limits, Impact(s, filter, n)
      PROVE  answer'.query = "impact"
  BY <1>1 DEF Impact
<1>2. ASSUME NEW n \in Limits, LogEmit(n) PROVE answer'.query = "log"
  BY <1>2 DEF LogEmit
<1>3. ASSUME NEW upstream, LinkLogEmit(upstream) PROVE answer'.query = "linklog"
  <2> DEFINE edges == UNION {{s} \X Revisions[s] : s \in DOMAIN walk.depths}
             kept(e) == {c \in DiffCauseLinks(body[e[2]].links, body[e[1]].links) :
                          upstream # {} => c.target \in upstream}
             entries == {[newer |-> e[1], previous |-> e[2], depth |-> walk.depths[e[1]], changes |-> kept(e)] :
                            e \in {d \in edges : upstream # {} => kept(d) # {}}}
  <2>1. answer' = [query |-> "linklog", head |-> walk.head, upstream |-> upstream, entries |-> entries]
    BY <1>3 DEF LinkLogEmit
  <2> HIDE DEF entries
  <2> QED BY <2>1
<1>4. ASSUME NEW s \in Seal, NEW n \in Limits, Observe(s, n) PROVE answer'.query = "observe"
  BY <1>4 DEF Observe
<1>5. ASSUME DirectionTurn PROVE answer' = answer \/ answer'.query = "refused"
  BY <1>5 DEF DirectionTurn
<1>6. ASSUME DirectionEmit PROVE answer'.query = "direction"
  BY <1>6 DEF DirectionEmit
<1>7. ASSUME \/ \E h \in graph.heads : LogBegin(h)
             \/ LogVisit
             \/ \E s \in Seal, n \in Budgets : DirectionBegin(s, n)
             \/ ClosureVisit \/ DirectionVisit \/ UNCHANGED vars
      PROVE  answer' = answer
  BY <1>7 DEF LogBegin, LogVisit, DirectionBegin, ClosureVisit, DirectionVisit, vars
<1> QED BY <1>1, <1>2, <1>3, <1>4, <1>5, <1>6, <1>7 DEF Next

LEMMA FrozenGraph ==
    ASSUME body' = body, graph' = graph, refs' = refs
    PROVE  /\ Built' <=> Built
           /\ G!CauseEdges(Seal)' = G!CauseEdges(Seal)
           /\ \A s \in Seal : G!Targets(s)' = G!Targets(s)
           /\ CausePaths' = CausePaths
           /\ FirstStalePaths' = FirstStalePaths
           /\ Revisions' = Revisions
<1>1. Built' <=> Built
  <2>1. \A H : G!GraphOf(H)' = G!GraphOf(H)
    BY DEF G!GraphOf, G!Nodes, G!Targets, G!Asserted, G!RevisionEdges, G!CauseEdges, G!Reach, G!IsAcyclic,
           G!Leaves
  <2>2. G!GraphOf({refs[r] : r \in DOMAIN refs})' = G!GraphOf({refs[r] : r \in DOMAIN refs})
    BY <2>1
  <2> QED BY <2>2 DEF Built, Saying
<1>2. CausePaths' = CausePaths
  BY DEF CausePaths, PathsAlong, G!Targets
<1>3. FirstStalePaths' = FirstStalePaths
  BY DEF FirstStalePaths, G!Targets
<1>4. Revisions' = Revisions
  BY DEF Revisions, FilteredRevisions, InScope, Assertions, Supports
<1>5. G!CauseEdges(Seal)' = G!CauseEdges(Seal) /\ \A s \in Seal : G!Targets(s)' = G!Targets(s)
  BY DEF G!CauseEdges, G!Targets
<1> QED BY <1>1, <1>2, <1>3, <1>4, <1>5

LEMMA FrozenObserve ==
    ASSUME body' = body, graph' = graph, refs' = refs, NEW s \in Seal, NEW n
    PROVE  ObserveAnswer(s, n)' = ObserveAnswer(s, n)
<1>1. ReasonPaths(s)' = ReasonPaths(s)
  BY FrozenGraph DEF ReasonPaths
<1>2. \A t, P, m : Reason(t, P, m)' = Reason(t, P, m)
  BY DEF Reason, State, IsDirect, Met, Lexical
<1>3. TransitivePaths(s)' = TransitivePaths(s)
  BY FrozenGraph DEF TransitivePaths, G!StaleDirect, G!Targets
<1>4. G!StaleDirect(graph, s)' = G!StaleDirect(graph, s)
  BY DEF G!StaleDirect, G!Targets
<1> QED BY <1>1, <1>2, <1>3, <1>4, FrozenGraph DEF ObserveAnswer

ObserveAnswers == Asks("observe") => \E s \in Seal, n \in Limits : answer = ObserveAnswer(s, n)

LEMMA ObserveStep ==
    ASSUME ObserveAnswers, [Next]_vars
    PROVE  ObserveAnswers'
<1>1. body' = body /\ graph' = graph /\ refs' = refs
  BY NothingIsStored
<1>2. \A s \in Seal, n \in Limits : ObserveAnswer(s, n)' = ObserveAnswer(s, n)
  BY <1>1, FrozenObserve
<1>3. CASE UNCHANGED answer
  <2>1. Asks("observe")' => Asks("observe")
    BY <1>3 DEF Asks
  <2> QED BY <1>2, <1>3, <2>1 DEF ObserveAnswers
<1>4. ASSUME NEW s \in Seal, NEW n \in Limits, Observe(s, n) PROVE ObserveAnswers'
  <2>1. answer' = ObserveAnswer(s, n)
    BY <1>4 DEF Observe, ObserveAnswer
  <2> QED BY <1>2, <2>1 DEF ObserveAnswers
<1>5. ASSUME answer' # answer, ~ \E s \in Seal, n \in Limits : Observe(s, n)
      PROVE  ~Asks("observe")'
  BY <1>5, AnswersAre DEF Asks
<1> QED BY <1>3, <1>4, <1>5 DEF ObserveAnswers

(* observe explains every Cause that is not a current leaf, says so when   *)
(* it does not list every path, and agrees with the stale labels           *)
(* (observation_inspect.go observationReasons).                            *)
THEOREM ReasonsExact == Spec => []ReasonsAreExact
<1>1. Init => Built /\ ObserveAnswers
  <2>1. Init => Built
    BY InitBuilds
  <2>2. Init => ObserveAnswers
    BY DEF Init, NoAnswer, ObserveAnswers, Asks
  <2> QED BY <2>1, <2>2
<1>2. Built /\ ObserveAnswers /\ [Next]_vars => (Built /\ ObserveAnswers)'
  BY NothingIsStored, FrozenGraph, ObserveStep
<1>3. Built /\ ObserveAnswers => ReasonsAreExact
  <2>1. ASSUME Built, Asks("observe"), ObserveAnswers PROVE ReasonsAreExact
    <3>1. PICK s \in Seal, n \in Limits : answer = ObserveAnswer(s, n)
      BY <2>1 DEF ObserveAnswers
    <3>2. n \in Nat
      BY StoredAssumption
    <3> QED BY <2>1, <3>1, <3>2, ObserveIsExact
  <2>2. ASSUME ~Asks("observe") PROVE ReasonsAreExact
    BY <2>2 DEF ReasonsAreExact, ReasonsAreComplete, StaleIsExplained
  <2> QED BY <2>1, <2>2
<1> QED BY <1>1, <1>2, <1>3, PTL DEF Spec

-----------------------------------------------------------------------------
(* impact.                                                                 *)

(* The previous revisions that observers in scope assert are among those   *)
(* of the graph, and lead in no circle.                                    *)
LEMMA ScopedRevisions ==
    ASSUME Built, NEW filter
    PROVE  /\ FilteredRevisions(filter) \in Walks
           /\ Ends(FilteredRevisions(filter))
<1> DEFINE F == FilteredRevisions(filter)
<1>1. F \in Walks
  BY DEF FilteredRevisions, Walks
<1>2. ASSUME NEW t \in Seal, NEW p \in F[t]
      PROVE  p \in graph.nodes /\ <<t, p>> \in graph.revisions
  <2>1. PICK a \in Assertions : Supports(a, t, p)
    BY DEF FilteredRevisions, InScope
  <2>2. PICK s \in graph.nodes : \E l \in body[s].links : a = [observer |-> s, link |-> l]
    BY DEF Assertions
  <2>0. PICK l \in body[s].links : a = [observer |-> s, link |-> l]
    BY <2>2
  <2>3. l.target = t /\ p \in l.previous /\ p \in Seal /\ s \in Seal
    BY <2>0, <2>1, <2>2, GraphFacts, LinksAre DEF Supports
  <2>4. <<t, p>> \in graph.revisions
    BY <2>0, <2>2, <2>3, GraphFacts DEF G!RevisionEdges
  <2>5. p \in graph.nodes
    <3> DEFINE E == UNION {{u} \X (G!Targets(u) \cup G!Asserted(u)) : u \in Seal}
    <3>1. <<s, p>> \in E
      BY <2>0, <2>2, <2>3 DEF G!Asserted
    <3>2. graph.nodes = G!Reach(E, graph.heads)
      BY GraphFacts DEF G!Nodes
    <3> HIDE DEF E
    <3> QED BY <2>2, <2>3, <3>1, <3>2, ReachCloses
  <2> QED BY <2>4, <2>5
<1>3. ASSUME NEW C \in SUBSET Seal, C # {}
      PROVE  \E s \in C : F[s] \cap C = {}
  <2>1. CASE C \cap graph.nodes = {}
    <3>1. PICK s \in C : TRUE
      BY <1>3
    <3> HIDE DEF F
    <3> QED BY <1>2, <2>1, <3>1
  <2>2. CASE C \cap graph.nodes # {}
    <3>1. PICK s \in C \cap graph.nodes : \A t \in C \cap graph.nodes : <<s, t>> \notin graph.revisions
      BY <2>2, GraphFacts DEF G!IsAcyclic
    <3> HIDE DEF F
    <3> QED BY <1>2, <3>1
  <2> QED BY <2>1, <2>2
<1> QED BY <1>1, <1>3 DEF Ends

LEMMA RevisionsAre ==
    ASSUME Built
    PROVE  graph.revisions = Edges(Revisions)
<1>1. ASSUME NEW e \in graph.revisions PROVE e \in Edges(Revisions)
  <2>1. PICK s \in graph.nodes : \E l \in body[s].links : e \in {l.target} \X l.previous
    BY GraphFacts DEF G!RevisionEdges
  <2>0. PICK l \in body[s].links : e \in {l.target} \X l.previous
    BY <2>1
  <2>2. l.target \in Seal /\ l.previous \in SUBSET Seal
    BY <2>0, <2>1, GraphFacts, LinksAre
  <2> DEFINE a == [observer |-> s, link |-> l]
  <2>3. a \in Assertions
    BY <2>0, <2>1 DEF Assertions
  <2>4. e[2] \in Revisions[l.target]
    BY <2>0, <2>2, <2>3 DEF Revisions, FilteredRevisions, InScope, Supports
  <2> QED BY <2>0, <2>2, <2>4 DEF Edges
<1>2. ASSUME NEW e \in Edges(Revisions) PROVE e \in graph.revisions
  <2>1. PICK t \in Seal : e \in {t} \X Revisions[t]
    BY DEF Edges
  <2>2. e[2] \in Revisions[t] /\ e = <<t, e[2]>>
    BY <2>1
  <2>3. PICK a \in Assertions : Supports(a, t, e[2])
    BY <2>2 DEF Revisions, FilteredRevisions, InScope
  <2>4. PICK s \in graph.nodes : \E l \in body[s].links : a = [observer |-> s, link |-> l]
    BY <2>3 DEF Assertions
  <2>0. PICK l \in body[s].links : a = [observer |-> s, link |-> l]
    BY <2>4
  <2>5. l.target = t /\ e[2] \in l.previous
    BY <2>3, <2>0 DEF Supports
  <2>6. <<t, e[2]>> \in {l.target} \X l.previous
    BY <2>5
  <2> QED BY <2>0, <2>2, <2>4, <2>6, GraphFacts DEF G!RevisionEdges
<1> QED BY <1>1, <1>2

(* A path may be cut off at any Seal. *)
LEMMA AlongCut ==
    ASSUME NEW steps \in Walks, NEW s, NEW p \in Along(steps, s), NEW i \in 1..Len(p)
    PROVE  /\ SubSeq(p, 1, i) \in Along(steps, s) /\ Len(SubSeq(p, 1, i)) = i
           /\ End(SubSeq(p, 1, i)) = p[i]
           /\ \A j \in 1..i : SubSeq(p, 1, i)[j] = p[j]
<1> DEFINE q == SubSeq(p, 1, i)
<1>1. /\ p \in Seq(Seal) /\ Len(p) \in Nat /\ Len(p) >= 1 /\ p[1] = s
      /\ \A j \in 1..(Len(p) - 1) : p[j + 1] \in steps[p[j]]
      /\ \A j \in 1..Len(p) : p[j] \in Seal
  BY AlongFacts
<1>0. i \in 1..Len(p) /\ i \in Nat /\ i >= 1
  OBVIOUS
<1>2. q = [j \in 1..i |-> p[j]]
  <2>1. q = [j \in 1..(i - 1 + 1) |-> p[1 + j - 1]]
    BY DEF SubSeq
  <2>2. i - 1 + 1 = i /\ \A j \in 1..i : 1 + j - 1 = j
    BY <1>0
  <2> QED BY <2>1, <2>2
<1>3. \A j \in 1..i : j \in 1..Len(p)
  BY <1>0, <1>1
<1>4. q \in Seq(Seal) /\ Len(q) = i
  <2>1. q \in [1..i -> Seal]
    BY <1>1, <1>2, <1>3
  <2> HIDE DEF q
  <2>2. q \in Seq(Seal)
    BY <1>0, <2>1 DEF Seq
  <2> QED BY <1>0, <2>1, <2>2
<1>5. \A j \in 1..i : q[j] = p[j]
  BY <1>2
<1> HIDE DEF q
<1>6. ASSUME NEW j \in 1..(Len(q) - 1) PROVE q[j + 1] \in steps[q[j]]
  <2>1. j \in 1..i /\ j + 1 \in 1..i /\ j \in 1..(Len(p) - 1)
    BY <1>0, <1>1, <1>4
  <2> QED BY <2>1, <1>1, <1>5
<1>7. 1 \in 1..i /\ i \in 1..i
  BY <1>0
<1>8. Len(q) >= 1 /\ q[1] = s
  BY <1>0, <1>1, <1>4, <1>5, <1>7
<1>9. q \in Along(steps, s) /\ End(q) = p[i]
  BY <1>4, <1>5, <1>6, <1>7, <1>8 DEF Along, End
<1> QED BY <1>4, <1>5, <1>9 DEF q

(* The paths impact looks for are those from the Causes of the head to the *)
(* first member of the sources.                                            *)
LEMMA AllImpactPathsAre ==
    ASSUME Built, NEW h \in Seal, NEW sources
    PROVE  AllImpactPaths(h, sources)
               = {<<h>> \o p : p \in UNION {Stops(CauseSteps, sources, t) : t \in G!Targets(h)}}
<1> DEFINE U == UNION {Stops(CauseSteps, sources, t) : t \in G!Targets(h)}
           Every == {p \in Along(CauseSteps, h) : /\ Len(p) > 1 /\ End(p) \in sources
                                                  /\ \A i \in 2..(Len(p) - 1) : p[i] \notin sources}
<1>0. CauseSteps \in Walks /\ CauseSteps[h] = G!Targets(h) /\ G!Targets(h) \in SUBSET Seal
  BY CausesEnd
<1>1. AllImpactPaths(h, sources) = Every
  BY CausePathsAre DEF AllImpactPaths
<1>2. ASSUME NEW p \in Every PROVE \E q \in U : p = <<h>> \o q
  <2>1. p # <<h>>
    <3>1. Len(<<h>>) = 1
      OBVIOUS
    <3> QED BY <3>1
  <2>2. PICK t \in G!Targets(h) : \E q \in Along(CauseSteps, t) : p = <<h>> \o q
    BY <2>1, <1>0, AlongSplits
  <2>3. PICK q \in Along(CauseSteps, t) : p = <<h>> \o q
    BY <2>2
  <2>4. q \in Seq(Seal) /\ Len(q) \in Nat /\ Len(q) >= 1
    BY <1>0, <2>3, AlongFacts
  <2>5. Len(p) = Len(q) + 1 /\ End(p) = End(q) /\ \A i \in 1..Len(q) : p[i + 1] = q[i]
    BY <2>3, <2>4, Prefixed
  <2>6. ASSUME NEW i \in 1..(Len(q) - 1) PROVE q[i] \notin sources
    <3>1. i + 1 \in 2..(Len(p) - 1) /\ i \in 1..Len(q)
      BY <2>4, <2>5
    <3> QED BY <2>5, <3>1
  <2>7. q \in Stops(CauseSteps, sources, t)
    BY <2>3, <2>5, <2>6 DEF Stops
  <2> QED BY <2>3, <2>7
<1>3. ASSUME NEW t \in G!Targets(h), NEW q \in Stops(CauseSteps, sources, t)
      PROVE  <<h>> \o q \in Every
  <2>1. q \in Along(CauseSteps, t) /\ End(q) \in sources /\ \A i \in 1..(Len(q) - 1) : q[i] \notin sources
    BY DEF Stops
  <2>2. q \in Seq(Seal) /\ Len(q) \in Nat /\ Len(q) >= 1
    BY <2>1, <1>0, AlongFacts
  <2> DEFINE p == <<h>> \o q
  <2>3. /\ Len(p) = Len(q) + 1 /\ End(p) = End(q)
        /\ \A i \in 1..Len(q) : p[i + 1] = q[i]
    BY <2>2, Prefixed
  <2>4. p \in Along(CauseSteps, h)
    BY <2>1, <1>0, AlongGrows
  <2> HIDE DEF p
  <2>5. ASSUME NEW i \in 2..(Len(p) - 1) PROVE p[i] \notin sources
    <3>1. i - 1 \in 1..(Len(q) - 1) /\ i - 1 \in 1..Len(q) /\ i = (i - 1) + 1
      BY <2>2, <2>3
    <3>2. p[(i - 1) + 1] = q[i - 1]
      BY <2>3, <3>1
    <3> QED BY <2>1, <3>1, <3>2
  <2>6. Len(p) > 1
    BY <2>2, <2>3
  <2>7. p \in Every
    BY <2>1, <2>3, <2>4, <2>5, <2>6
  <2> QED BY <2>7 DEF p
<1>4. \A q \in U : <<h>> \o q \in Every
  BY <1>3
<1> HIDE DEF U, Every
<1>5. Every = {<<h>> \o q : q \in U}
  BY <1>2, <1>4
<1> QED BY <1>1, <1>5 DEF U

LEMMA AllImpactPathsFinite ==
    ASSUME Built, NEW h \in Seal, NEW sources
    PROVE  /\ AllImpactPaths(h, sources) \in SUBSET Seq(Seal)
           /\ AllImpactPaths(h, sources) \in SUBSET Along(CauseSteps, h)
           /\ IsFiniteSet(AllImpactPaths(h, sources))
<1>1. AllImpactPaths(h, sources) \in SUBSET Along(CauseSteps, h)
  BY CausePathsAre DEF AllImpactPaths
<1>2. Along(CauseSteps, h) \in SUBSET Seq(Seal) /\ IsFiniteSet(Along(CauseSteps, h))
  BY CausesEnd, AlongIsFinite
<1> QED BY <1>1, <1>2, FS_Subset

(* The lists kept at every Seal give the first of all paths. *)
LEMMA ImpactPathsAre ==
    ASSUME Built, NEW h \in Seal, NEW sources, NEW n \in Nat, n >= 1
    PROVE  ImpactPaths(h, sources, n) = First(n, AllImpactPaths(h, sources))
<1> DEFINE T == G!Targets(h)
           A == [s \in Seal |-> Stops(CauseSteps, sources, s)]
<1>1. CauseSteps \in Walks /\ Ends(CauseSteps) /\ T \in SUBSET Seal
  BY CausesEnd
<1>2. \A t \in T : /\ A[t] = Stops(CauseSteps, sources, t)
                   /\ SuffixPaths(sources, n)[t] = First(n, A[t])
  BY <1>1, SuffixPathsAre
<1>3. \A t \in T : A[t] \in SUBSET Seq(Seal) /\ IsFiniteSet(A[t])
  <2> HIDE DEF A, T
  <2> QED BY <1>1, <1>2, StopsAreFinite
<1>4. UNION {SuffixPaths(sources, n)[t] : t \in T} = UNION {First(n, A[t]) : t \in T}
  <2> HIDE DEF A, T
  <2> QED BY <1>2
<1>5. UNION {Stops(CauseSteps, sources, t) : t \in T} = UNION {A[t] : t \in T}
  <2> HIDE DEF A, T
  <2> QED BY <1>2
<1>6. First(n, {<<h>> \o p : p \in UNION {First(n, A[t]) : t \in T}})
         = First(n, {<<h>> \o p : p \in UNION {A[t] : t \in T}})
  <2> HIDE DEF A, T
  <2>1. First(n, FirstMerged(n, h, A, T)) = First(n, Merged(h, A, T))
    BY <1>1, <1>3, FirstOfMerged
  <2> QED BY <2>1 DEF FirstMerged, Merged
<1>7. ImpactPaths(h, sources, n) = First(n, {<<h>> \o p : p \in UNION {SuffixPaths(sources, n)[t] : t \in T}})
  BY DEF ImpactPaths
<1>8. AllImpactPaths(h, sources) = {<<h>> \o p : p \in UNION {Stops(CauseSteps, sources, t) : t \in T}}
  BY AllImpactPathsAre
<1> HIDE DEF A, T
<1> QED BY <1>4, <1>5, <1>6, <1>7, <1>8

(* What is shown, and how one path more tells whether that is all. *)
LEMMA FirstTells ==
    ASSUME NEW X \in SUBSET Seq(Seal), IsFiniteSet(X), NEW n \in Nat
    PROVE  /\ First(n, First(n + 1, X)) = First(n, X)
           /\ First(n, X) # First(n + 1, X) <=> Cardinality(X) > n
           /\ First(n, X) = X <=> Cardinality(X) <= n
           /\ n >= 1 /\ X # {} => First(n, X) # {}
<1> DEFINE R == BeforeOn(X)
<1>1. Orders(R, X)
  <2>1. X \in SUBSET Seq(Nat)
    BY SealsAreNumbers
  <2> QED BY <2>1, PathsAreOrdered
<1>2. First(n, X) = Leading(R, n, X) /\ First(n + 1, X) = Leading(R, n + 1, X)
  BY FirstIsLeading
<1>3. First(n, First(n + 1, X)) = Leading(R, n, Leading(R, n + 1, X))
  <2>1. Leading(R, n + 1, X) \in SUBSET X
    BY DEF Leading
  <2> QED BY <1>2, <2>1, FirstIsLeading
<1> HIDE DEF R
<1>4. Leading(R, n, Leading(R, n + 1, X)) = Leading(R, n, X)
  BY <1>1, LeadingOfLeading
<1>5. Cardinality(X) \in Nat
  BY FS_CardinalityType
<1>6. (Leading(R, n, X) = X <=> Cardinality(X) <= n) /\ (Leading(R, n + 1, X) = X <=> Cardinality(X) <= n + 1)
  BY <1>1, LeadingIsAll
<1>7. Leading(R, n, X) # Leading(R, n + 1, X) <=> Cardinality(X) > n
  <2>1. ASSUME Cardinality(X) > n PROVE Leading(R, n, X) # Leading(R, n + 1, X)
    <3>1. n \in 0..(Cardinality(X) - 1)
      BY <1>5, <2>1
    <3>2. PICK x \in X : Rank(R, X, x) = n
      BY <1>1, <3>1, RanksCount
    <3> QED BY <3>2 DEF Leading
  <2>2. ASSUME ~(Cardinality(X) > n) PROVE Leading(R, n, X) = Leading(R, n + 1, X)
    BY <1>5, <1>6, <2>2
  <2> QED BY <2>1, <2>2
<1>8. ASSUME n >= 1, X # {} PROVE First(n, X) # {}
  <2>1. Cardinality(X) # 0
    BY <1>8, FS_EmptySet
  <2>2. 0 \in 0..(Cardinality(X) - 1)
    BY <1>5, <2>1
  <2>3. PICK x \in X : Rank(R, X, x) = 0
    BY <1>1, <2>2, RanksCount
  <2>4. x \in Leading(R, n, X)
    BY <2>3, <1>8 DEF Leading
  <2> QED BY <2>4, <1>2
<1> QED BY <1>2, <1>3, <1>4, <1>6, <1>7, <1>8

(* There is a path to the sources when a Cause is one of them. *)
LEMMA SomeImpactPath ==
    ASSUME Built, NEW h \in Seal, NEW sources
    PROVE  AllImpactPaths(h, sources) # {} <=> Causes(h) \cap sources # {}
<1>0. CauseSteps \in Walks
  BY CausesEnd
<1>1. AllImpactPaths(h, sources) =
         {p \in Along(CauseSteps, h) : /\ Len(p) > 1 /\ End(p) \in sources
                                       /\ \A i \in 2..(Len(p) - 1) : p[i] \notin sources}
  BY CausePathsAre DEF AllImpactPaths
<1>2. ASSUME NEW p \in AllImpactPaths(h, sources) PROVE Causes(h) \cap sources # {}
  <2>1. End(p) \in Causes(h) /\ End(p) \in sources
    BY <1>1, CausesArePaths
  <2> QED BY <2>1
<1>3. ASSUME NEW t \in Causes(h), t \in sources PROVE AllImpactPaths(h, sources) # {}
  <2>1. PICK p \in Along(CauseSteps, h) : Len(p) > 1 /\ End(p) = t
    BY CausesArePaths
  <2>2. Len(p) \in Nat
    BY <1>0, AlongFacts
  <2> DEFINE T == {i \in Nat : i \in 2..Len(p) /\ p[i] \in sources}
  <2>3. Len(p) \in T
    BY <1>3, <2>1, <2>2 DEF End
  <2>4. PICK i \in T : \A j \in T : i <= j
    <3>1. T \in SUBSET Nat
      OBVIOUS
    <3> HIDE DEF T
    <3> QED BY <2>3, <3>1, LeastMember
  <2>5. i \in 1..Len(p) /\ i > 1 /\ p[i] \in sources /\ i \in Nat
    BY <2>2
  <2> DEFINE q == SubSeq(p, 1, i)
  <2>6. q \in Along(CauseSteps, h) /\ Len(q) = i /\ End(q) = p[i] /\ \A j \in 1..i : q[j] = p[j]
    BY <1>0, <2>5, AlongCut
  <2> HIDE DEF q
  <2>7. ASSUME NEW j \in 2..(Len(q) - 1) PROVE q[j] \notin sources
    <3>1. j \in 1..i /\ j \in Nat /\ j < i /\ j \in 2..Len(p)
      BY <2>2, <2>5, <2>6
    <3>2. j \notin T
      <4> HIDE DEF T
      <4> QED BY <3>1, <2>4, <2>5
    <3> QED BY <3>1, <3>2, <2>6
  <2>8. q \in AllImpactPaths(h, sources)
    BY <1>1, <2>5, <2>6, <2>7
  <2> QED BY <2>8
<1> QED BY <1>2, <1>3

SourcesOf(origin, filter) == RevisionClosure(origin, FilteredRevisions(filter))

(* The matched revisions are where the scoped previous revisions lead. *)
LEMMA SourcesArePaths ==
    ASSUME Built, NEW origin \in Seal, NEW filter, NEW t
    PROVE  t \in SourcesOf(origin, filter)
               <=> \E p \in Along(FilteredRevisions(filter), origin) : End(p) = t
<1>1. FilteredRevisions(filter) \in Walks
  BY ScopedRevisions
<1>2. SourcesOf(origin, filter) = G!Reach(Edges(FilteredRevisions(filter)), {origin})
  BY DEF SourcesOf, RevisionClosure, Edges
<1>3. {origin} \in SUBSET Seal
  OBVIOUS
<1> QED BY <1>1, <1>2, <1>3, ReachIsPaths

(* A proof exists, and every edge of it is asserted in scope. *)
LEMMA ProofLeads ==
    ASSUME Built, NEW origin \in Seal, NEW filter, NEW t \in SourcesOf(origin, filter)
    PROVE  LET proof == RevisionProof(origin, t, filter)
           IN  /\ proof.path[1] = origin /\ End(proof.path) = t
               /\ \A i \in DOMAIN proof.edges :
                     /\ proof.edges[i] # {}
                     /\ \A a \in proof.edges[i] : filter # {} => a.observer \in filter
                     /\ proof.path[i + 1] \in proof.scope[i].previous
<1> DEFINE F == FilteredRevisions(filter)
           X == {p \in PathsAlong(F)[origin] : End(p) = t}
           path == CHOOSE p \in First(1, X) : TRUE
           proof == RevisionProof(origin, t, filter)
<1>1. F \in Walks /\ Ends(F)
  BY ScopedRevisions
<1>2. X = {p \in Along(F, origin) : End(p) = t}
  <2> HIDE DEF F
  <2> QED BY <1>1, PathsAlongAre
<1>3. X # {}
  <2>1. \E p \in Along(F, origin) : End(p) = t
    BY SourcesArePaths
  <2> QED BY <1>2, <2>1
<1>4. X \in SUBSET Seq(Seal) /\ IsFiniteSet(X)
  <2>1. Along(F, origin) \in SUBSET Seq(Seal) /\ IsFiniteSet(Along(F, origin))
    <3> HIDE DEF F
    <3> QED BY <1>1, AlongIsFinite
  <2>2. X \in SUBSET Along(F, origin)
    BY <1>2
  <2> HIDE DEF X, F
  <2> QED BY <2>1, <2>2, FS_Subset
<1>5. First(1, X) # {}
  <2> HIDE DEF X
  <2> QED BY <1>3, <1>4, FirstTells
<1>6. path \in X
  <2>1. path \in First(1, X)
    <3> HIDE DEF X
    <3> QED BY <1>5
  <2> HIDE DEF path, X
  <2> QED BY <2>1 DEF First
<1>7. /\ proof.path = path
      /\ proof.edges = [i \in 1..(Len(path) - 1) |-> {a \in InScope(filter) : Supports(a, path[i], path[i + 1])}]
      /\ proof.scope = [i \in 1..Len(path) |-> ScopedObservation(path[i], filter)]
  BY DEF RevisionProof
<1>8. path \in Along(F, origin) /\ End(path) = t
  <2> HIDE DEF path, F
  <2> QED BY <1>2, <1>6
<1> HIDE DEF path, F, X, proof
<1>9. /\ path[1] = origin /\ Len(path) \in Nat
      /\ \A i \in 1..(Len(path) - 1) : path[i + 1] \in F[path[i]] /\ path[i] \in Seal /\ i \in 1..Len(path)
  BY <1>1, <1>8, AlongFacts
<1>10. ASSUME NEW i \in DOMAIN proof.edges
       PROVE  /\ proof.edges[i] # {}
              /\ \A a \in proof.edges[i] : filter # {} => a.observer \in filter
              /\ proof.path[i + 1] \in proof.scope[i].previous
  <2>1. i \in 1..(Len(path) - 1)
    BY <1>7
  <2>2. PICK a \in InScope(filter) : Supports(a, path[i], path[i + 1])
    BY <1>9, <2>1 DEF F, FilteredRevisions
  <2>3. proof.edges[i] = {b \in InScope(filter) : Supports(b, path[i], path[i + 1])}
    BY <1>7, <2>1
  <2>4. proof.scope[i] = ScopedObservation(path[i], filter)
    BY <1>7, <1>9, <2>1
  <2>5. path[i + 1] \in ScopedObservation(path[i], filter).previous
    BY <2>2 DEF ScopedObservation, Supports
  <2>6. \A b \in proof.edges[i] : filter # {} => b.observer \in filter
    BY <2>3 DEF InScope
  <2> QED BY <2>2, <2>3, <2>4, <2>5, <2>6, <1>7
<1> QED BY <1>7, <1>8, <1>9, <1>10 DEF proof

LEMMA ImpactRecordIs ==
    ASSUME Built, NEW h \in Seal, NEW origin \in Seal, NEW filter, NEW n \in Nat, n >= 1
    PROVE  LET r   == ImpactRecord(h, origin, filter, n)
               all == AllImpactPaths(h, SourcesOf(origin, filter))
           IN  /\ r.head = h
               /\ {p.causes : p \in r.paths} = First(n, all)
               /\ r.truncated <=> Cardinality(all) > n
               /\ r.paths # {} <=> Causes(h) \cap SourcesOf(origin, filter) # {}
               /\ \A p \in r.paths : /\ p.causes \in all
                                     /\ p.proof = RevisionProof(origin, End(p.causes), filter)
<1> DEFINE r   == ImpactRecord(h, origin, filter, n)
           all == AllImpactPaths(h, SourcesOf(origin, filter))
           paths == ImpactPaths(h, SourcesOf(origin, filter), n + 1)
           listed == First(n, paths)
<1>1. /\ r.head = h /\ r.truncated = (listed # paths)
      /\ r.paths = {[causes |-> p, proof |-> RevisionProof(origin, End(p), filter)] : p \in listed}
  BY DEF ImpactRecord, Asked, SourcesOf
<1>2. all \in SUBSET Seq(Seal) /\ IsFiniteSet(all)
  BY AllImpactPathsFinite
<1>3. paths = First(n + 1, all)
  BY ImpactPathsAre
<1>4. all # {} <=> Causes(h) \cap SourcesOf(origin, filter) # {}
  BY SomeImpactPath
<1> HIDE DEF all, paths, r
<1>5. /\ listed = First(n, all)
      /\ listed # paths <=> Cardinality(all) > n
      /\ all # {} => listed # {}
  <2>1. /\ First(n, First(n + 1, all)) = First(n, all)
        /\ First(n, all) # First(n + 1, all) <=> Cardinality(all) > n
        /\ n >= 1 /\ all # {} => First(n, all) # {}
    BY <1>2, FirstTells
  <2> QED BY <1>3, <2>1
<1>6. listed \subseteq all
  BY <1>5 DEF First
<1> HIDE DEF listed
<1>7. r.paths # {} <=> listed # {}
  BY <1>1
<1>8. {p.causes : p \in r.paths} = listed
  <2> DEFINE full(p) == [causes |-> p, proof |-> RevisionProof(origin, End(p), filter)]
  <2>1. \A p : full(p).causes = p
    OBVIOUS
  <2>2. r.paths = {full(p) : p \in listed}
    BY <1>1
  <2> HIDE DEF full
  <2> QED BY <2>1, <2>2
<1>9. \A p \in r.paths : p.causes \in all /\ p.proof = RevisionProof(origin, End(p.causes), filter)
  BY <1>1, <1>6
<1> QED BY <1>1, <1>4, <1>5, <1>6, <1>7, <1>8, <1>9 DEF all, r

(* What stale looks at is among the Causes. *)
LEMMA StaleIsCause ==
    ASSUME Built, NEW h \in Seal
    PROVE  G!StaleDirect(graph, h) \cup G!StaleTransitive(graph, h) \subseteq Causes(h)
<1>1. G!Targets(h) \in SUBSET Seal
  BY CausesEnd
<1>2. G!Targets(h) \subseteq Causes(h)
  BY <1>1, ReachStarts DEF Causes
<1>3. G!CurrentWalk(graph, h) \subseteq Causes(h)
  <2>1. Causes(h) \in SUBSET Seal
    BY DEF Causes, G!Reach
  <2>2. ASSUME NEW e \in G!CauseEdges(graph.leaves), e[1] \in Causes(h) PROVE e[2] \in Causes(h)
    <3>1. PICK s \in graph.leaves : e \in {s} \X G!Targets(s)
      BY DEF G!CauseEdges
    <3>2. s \in Seal /\ e = <<s, e[2]>> /\ e[2] \in Seal /\ s \in Causes(h)
      BY <2>2, <3>1, GraphFacts, CausesEnd
    <3>3. <<s, e[2]>> \in G!CauseEdges(Seal)
      BY <3>1, <3>2 DEF G!CauseEdges
    <3> QED BY <3>2, <3>3, ReachCloses DEF Causes
  <2> QED BY <1>2, <2>1, <2>2, ReachIsLeast DEF G!CurrentWalk
<1> QED BY <1>2, <1>3 DEF G!StaleDirect, G!StaleTransitive

ImpactAnswer(origin, filter, limit) ==
    [query |-> "impact", source |-> origin, filter |-> filter, limit |-> limit,
     impacts |-> {r \in {ImpactRecord(h, origin, filter, limit) : h \in graph.heads \ {origin}} : r.paths # {}}]

LEMMA ImpactIsRight ==
    ASSUME Built, NEW s \in Seal, NEW filter \in Scopes, NEW n \in Limits, answer = ImpactAnswer(s, filter, n)
    PROVE  ImpactIsExact
<1> DEFINE Rec(h) == ImpactRecord(h, s, filter, n)
           S == SourcesOf(s, filter)
<1>1. /\ answer.source = s /\ answer.filter = filter /\ answer.limit = n
      /\ answer.impacts = {r \in {Rec(h) : h \in graph.heads \ {s}} : r.paths # {}}
  <2> HIDE DEF Rec
  <2> QED BY DEF Rec, ImpactAnswer
<1>2. n \in Nat /\ n >= 1
  BY StoredAssumption
<1>3. ASSUME NEW h \in graph.heads
      PROVE  LET all == AllImpactPaths(h, S)
             IN  /\ Rec(h).head = h
                 /\ {p.causes : p \in Rec(h).paths} = First(n, all)
                 /\ Rec(h).truncated <=> Cardinality(all) > n
                 /\ Rec(h).paths # {} <=> Causes(h) \cap S # {}
                 /\ \A p \in Rec(h).paths : /\ p.causes \in all
                                            /\ p.proof = RevisionProof(s, End(p.causes), filter)
  <2>1. h \in Seal
    BY GraphFacts
  <2> QED BY <1>2, <2>1, ImpactRecordIs
<1>4. RevisionClosure(answer.source, FilteredRevisions(answer.filter)) = S
  BY <1>1 DEF SourcesOf
<1> HIDE DEF Rec, S
<1>5. ASSUME NEW r \in answer.impacts
      PROVE  r.head \in graph.heads \ {s} /\ r = Rec(r.head) /\ r.paths # {}
  BY <1>1, <1>3
<1>6. {r.head : r \in answer.impacts} = {h \in graph.heads \ {s} : Causes(h) \cap S # {}}
  <2>1. ASSUME NEW r \in answer.impacts PROVE r.head \in {h \in graph.heads \ {s} : Causes(h) \cap S # {}}
    BY <1>3, <1>5
  <2>2. ASSUME NEW h \in graph.heads \ {s}, Causes(h) \cap S # {} PROVE \E r \in answer.impacts : r.head = h
    <3>1. Rec(h).head = h /\ Rec(h).paths # {}
      BY <1>3, <2>2
    <3>2. Rec(h) \in answer.impacts
      BY <1>1, <3>1
    <3> QED BY <3>1, <3>2
  <2> QED BY <2>1, <2>2
<1>7. ASSUME NEW r \in answer.impacts
      PROVE  LET all == AllImpactPaths(r.head, S)
             IN  /\ {p.causes : p \in r.paths} = First(answer.limit, all)
                 /\ r.truncated <=> Cardinality(all) > answer.limit
  BY <1>1, <1>3, <1>5
<1>8. ImpactIsComplete
  BY <1>1, <1>4, <1>6, <1>7 DEF ImpactIsComplete
<1>9. ProofsAreInScope
  <2>1. ASSUME NEW r \in answer.impacts, NEW p \in r.paths
        PROVE  /\ p.proof.path[1] = answer.source
               /\ End(p.proof.path) = End(p.causes)
               /\ \A i \in DOMAIN p.proof.edges :
                     /\ p.proof.edges[i] # {}
                     /\ \A a \in p.proof.edges[i] : answer.filter # {} => a.observer \in answer.filter
                     /\ p.proof.path[i + 1] \in p.proof.scope[i].previous
    <3>1. p.causes \in AllImpactPaths(r.head, S) /\ p.proof = RevisionProof(s, End(p.causes), filter)
      BY <1>3, <1>5
    <3>2. End(p.causes) \in S
      BY <3>1 DEF AllImpactPaths
    <3> QED BY <1>1, <3>1, <3>2, ProofLeads DEF S
  <2> QED BY <2>1 DEF ProofsAreInScope
<1>10. StaleIsImpacted
  <2>1. ASSUME filter = {}, NEW h \in graph.heads \ {s},
               NEW t \in G!StaleDirect(graph, h) \cup G!StaleTransitive(graph, h),
               t \in G!RevisionClosure(graph, s)
        PROVE  \E r \in answer.impacts : r.head = h
    <3>1. h \in Seal
      BY GraphFacts
    <3>2. t \in Causes(h)
      BY <2>1, <3>1, StaleIsCause
    <3>3. G!RevisionClosure(graph, s) = S
      BY <2>1, RevisionsAre DEF G!RevisionClosure, S, SourcesOf, RevisionClosure, Edges, Revisions
    <3> QED BY <2>1, <3>2, <3>3, <1>6
  <2> QED BY <1>1, <2>1 DEF StaleIsImpacted
<1> QED BY <1>8, <1>9, <1>10 DEF ImpactIsExact

LEMMA FrozenImpact ==
    ASSUME body' = body, graph' = graph, NEW s \in Seal, NEW filter, NEW n
    PROVE  ImpactAnswer(s, filter, n)' = ImpactAnswer(s, filter, n)
<1>1. InScope(filter)' = InScope(filter)
  BY DEF InScope, Assertions
<1>2. FilteredRevisions(filter)' = FilteredRevisions(filter)
  BY <1>1 DEF FilteredRevisions, Supports
<1>3. RevisionClosure(s, FilteredRevisions(filter))' = RevisionClosure(s, FilteredRevisions(filter))
  BY <1>2 DEF RevisionClosure, G!Reach
<1>4. \A sources, limit : SuffixPaths(sources, limit)' = SuffixPaths(sources, limit)
  BY DEF SuffixPaths, First, Before, Lexical, G!Targets
<1>5. \A h, sources, limit : ImpactPaths(h, sources, limit)' = ImpactPaths(h, sources, limit)
  BY DEF ImpactPaths, SuffixPaths, First, Before, Lexical, G!Targets
<1>6. \A u : ScopedObservation(u, filter)' = ScopedObservation(u, filter)
  BY <1>1 DEF ScopedObservation
<1>7. \A t : RevisionProof(s, t, filter)' = RevisionProof(s, t, filter)
  BY DEF RevisionProof, PathsAlong, FilteredRevisions, InScope, Assertions, Supports, ScopedObservation,
         First, Before, Lexical, End
<1>8. \A h : ImpactRecord(h, s, filter, n)' = ImpactRecord(h, s, filter, n)
  BY <1>3, <1>5, <1>7 DEF ImpactRecord, First, Before, Lexical, End, Asked
<1> QED BY <1>8 DEF ImpactAnswer

ImpactAnswers == Asks("impact") => \E s \in Seal, filter \in Scopes, n \in Limits : answer = ImpactAnswer(s, filter, n)

LEMMA ImpactStep ==
    ASSUME ImpactAnswers, [Next]_vars
    PROVE  ImpactAnswers'
<1>1. body' = body /\ graph' = graph
  BY NothingIsStored
<1>2. \A s \in Seal, filter \in Scopes, n \in Limits : ImpactAnswer(s, filter, n)' = ImpactAnswer(s, filter, n)
  BY <1>1, FrozenImpact
<1>3. CASE UNCHANGED answer
  <2>1. Asks("impact")' => Asks("impact")
    BY <1>3 DEF Asks
  <2> QED BY <1>2, <1>3, <2>1 DEF ImpactAnswers
<1>4. ASSUME NEW s \in Seal, NEW filter \in Scopes, NEW n \in Limits, Impact(s, filter, n) PROVE ImpactAnswers'
  <2>1. answer' = ImpactAnswer(s, filter, n)
    BY <1>4 DEF Impact, ImpactAnswer
  <2> QED BY <1>2, <2>1 DEF ImpactAnswers
<1>5. ASSUME answer' # answer, ~ \E s \in Seal, filter \in Scopes, n \in Limits : Impact(s, filter, n)
      PROVE  ~Asks("impact")'
  BY <1>5, AnswersAre DEF Asks
<1> QED BY <1>3, <1>4, <1>5 DEF ImpactAnswers

(* impact reports the heads with a Cause of any depth in scope and no      *)
(* other, with the first of all paths and a proof in scope for each, and   *)
(* in agreement with stale (revision_graph.go Impact).                     *)
THEOREM ImpactExact == Spec => []ImpactIsExact
<1>1. Init => Built /\ ImpactAnswers
  <2>1. Init => Built
    BY InitBuilds
  <2>2. Init => ImpactAnswers
    BY DEF Init, NoAnswer, ImpactAnswers, Asks
  <2> QED BY <2>1, <2>2
<1>2. Built /\ ImpactAnswers /\ [Next]_vars => (Built /\ ImpactAnswers)'
  BY NothingIsStored, FrozenGraph, ImpactStep
<1>3. Built /\ ImpactAnswers => ImpactIsExact
  <2>1. ASSUME Built, Asks("impact"), ImpactAnswers PROVE ImpactIsExact
    <3>1. PICK s \in Seal, filter \in Scopes, n \in Limits : answer = ImpactAnswer(s, filter, n)
      BY <2>1 DEF ImpactAnswers
    <3> QED BY <2>1, <3>1, ImpactIsRight
  <2>2. ASSUME ~Asks("impact") PROVE ImpactIsExact
    BY <2>2 DEF ImpactIsExact, ImpactIsComplete, ProofsAreInScope, StaleIsImpacted
  <2> QED BY <2>1, <2>2
<1> QED BY <1>1, <1>2, <1>3, PTL DEF Spec

-----------------------------------------------------------------------------
(* log and linklog.                                                        *)

(* The relaxation: every depth is the length of a path, and only a queued  *)
(* Seal may have a previous revision deeper than it could be.              *)
Walking(w, steps) ==
    /\ w \in [head : Seal, queue : Seq(Seal), depths : UNION {[S -> Nat] : S \in SUBSET Seal}]
    /\ w.head \in DOMAIN w.depths
    /\ \A s \in DOMAIN w.depths : \E p \in Along(steps, w.head) : End(p) = s /\ w.depths[s] + 1 = Len(p)
    /\ \A i \in 1..Len(w.queue) : w.queue[i] \in DOMAIN w.depths
    /\ \A s \in DOMAIN w.depths :
          \/ \E i \in 1..Len(w.queue) : w.queue[i] = s
          \/ \A p \in steps[s] : p \in DOMAIN w.depths /\ w.depths[p] <= w.depths[s] + 1

LEMMA WalkingHas ==
    ASSUME NEW w, NEW steps, Walking(w, steps)
    PROVE  /\ w = [head |-> w.head, queue |-> w.queue, depths |-> w.depths]
           /\ w.head \in Seal /\ w.queue \in Seq(Seal) /\ DOMAIN w.depths \in SUBSET Seal
           /\ w.depths = [s \in DOMAIN w.depths |-> w.depths[s]]
           /\ \A s \in DOMAIN w.depths : w.depths[s] \in Nat
<1>1. w \in [head : Seal, queue : Seq(Seal), depths : UNION {[S -> Nat] : S \in SUBSET Seal}]
  BY DEF Walking
<1>2. PICK S \in SUBSET Seal : w.depths \in [S -> Nat]
  BY <1>1
<1> QED BY <1>1, <1>2

LEMMA WalkBegins ==
    ASSUME NEW steps \in Walks, NEW h \in Seal
    PROVE  Walking([head |-> h, queue |-> <<h>>, depths |-> [s \in {h} |-> 0]], steps)
<1> DEFINE d == [s \in {h} |-> 0]
           q == <<h>>
           w == [head |-> h, queue |-> q, depths |-> d]
<1>1. d \in [{h} -> Nat] /\ {h} \in SUBSET Seal /\ DOMAIN d = {h} /\ d[h] = 0
  OBVIOUS
<1>2. q \in Seq(Seal) /\ Len(q) = 1 /\ q[1] = h
  OBVIOUS
<1>3. <<h>> \in Along(steps, h) /\ End(<<h>>) = h /\ Len(<<h>>) = 1
  BY AlongOne
<1>4. \E p \in Along(steps, h) : End(p) = h /\ Len(p) = 1
  BY <1>3
<1> HIDE DEF d, q
<1>5. w \in [head : Seal, queue : Seq(Seal), depths : UNION {[S -> Nat] : S \in SUBSET Seal}]
  BY <1>1, <1>2
<1>6. w.head = h /\ w.queue = q /\ w.depths = d
  OBVIOUS
<1>7. d[h] + 1 = 1 /\ 1 \in 1..Len(q)
  BY <1>1, <1>2
<1> HIDE DEF w
<1>9. h \in DOMAIN d /\ \A s \in DOMAIN d : s = h
  BY <1>1
<1>10. \A i \in 1..Len(q) : q[i] = h
  BY <1>2
<1>11. \A s \in DOMAIN d : \E p \in Along(steps, h) : End(p) = s /\ d[s] + 1 = Len(p)
  BY <1>4, <1>7, <1>9
<1>12. \A s \in DOMAIN d : \E i \in 1..Len(q) : q[i] = s
  BY <1>2, <1>7, <1>9
<1>8. Walking(w, steps)
  BY <1>5, <1>6, <1>9, <1>10, <1>11, <1>12 DEF Walking
<1> QED BY <1>8 DEF w, d, q

(* One visit: the previous revisions whose depth gets smaller are queued.  *)
Visited(w, steps, s, L, q, tail, d) ==
    /\ Walking(w, steps) /\ q \in Seq(Seal) /\ tail \in Seq(Seal)
    /\ Len(w.queue) >= 1 /\ s = w.queue[1] /\ tail = Tail(w.queue)
    /\ L \subseteq steps[s]
    /\ \A p \in steps[s] : p \in L <=> (p \in DOMAIN w.depths => w.depths[s] + 1 < w.depths[p])
    /\ \A p \in L : \E i \in 1..Len(q) : q[i] = p
    /\ \A i \in 1..Len(q) : q[i] \in L
    /\ d = [t \in DOMAIN w.depths \cup L |-> d[t]]
    /\ \A t \in L : d[t] = w.depths[s] + 1
    /\ \A t \in DOMAIN w.depths \ L : d[t] = w.depths[t]

(* The places of two lists put one behind the other. *)
LEMMA Places ==
    ASSUME NEW a \in Nat, NEW b \in Nat
    PROVE  /\ \A i \in 1..a : i \in 1..(a + b)
           /\ \A i \in 1..b : a + i \in 1..(a + b)
           /\ \A i \in 1..(a + b) : i \in 1..a \/ (i - a \in 1..b /\ i = a + (i - a))
<1>1. \A i \in 1..a : i \in 1..(a + b)
  OBVIOUS
<1>2. \A i \in 1..b : a + i \in 1..(a + b)
  OBVIOUS
<1>3. \A i \in 1..(a + b) : i \in 1..a \/ (i - a \in 1..b /\ i = a + (i - a))
  OBVIOUS
<1> QED BY <1>1, <1>2, <1>3

LEMMA WalkGoesOn ==
    ASSUME NEW steps \in Walks, NEW w, NEW s, NEW L, NEW q, NEW tail, NEW d,
           Visited(w, steps, s, L, q, tail, d)
    PROVE  Walking([head |-> w.head, queue |-> tail \o q, depths |-> d], steps)
<1>0. /\ Walking(w, steps) /\ q \in Seq(Seal) /\ tail \in Seq(Seal)
      /\ Len(w.queue) >= 1 /\ s = w.queue[1] /\ tail = Tail(w.queue)
      /\ L \subseteq steps[s]
      /\ \A p \in steps[s] : p \in L <=> (p \in DOMAIN w.depths => w.depths[s] + 1 < w.depths[p])
      /\ \A p \in L : \E i \in 1..Len(q) : q[i] = p
      /\ \A i \in 1..Len(q) : q[i] \in L
      /\ d = [t \in DOMAIN w.depths \cup L |-> d[t]]
      /\ \A t \in L : d[t] = w.depths[s] + 1
      /\ \A t \in DOMAIN w.depths \ L : d[t] = w.depths[t]
  BY DEF Visited
<1> USE <1>0
<1> DEFINE D == DOMAIN w.depths
           Q == tail \o q
           v == [head |-> w.head, queue |-> Q, depths |-> d]
<1>1. /\ w.head \in Seal /\ w.queue \in Seq(Seal) /\ D \in SUBSET Seal
      /\ \A t \in D : w.depths[t] \in Nat
  BY WalkingHas
<1>2. /\ Len(w.queue) \in Nat /\ Len(tail) = Len(w.queue) - 1
      /\ \A i \in 1..(Len(w.queue) - 1) : tail[i] = w.queue[i + 1]
  BY <1>1, Split
<1>3. s \in D
  <2>1. 1 \in 1..Len(w.queue)
    BY <1>2
  <2> QED BY <2>1 DEF Walking
<1>4. L \in SUBSET Seal /\ L \in SUBSET steps[s]
  BY <1>1, <1>3 DEF Walks
<1>5. /\ DOMAIN d = D \cup L
      /\ \A t \in L : d[t] = w.depths[s] + 1
      /\ \A t \in D \ L : d[t] = w.depths[t]
      /\ d = [t \in D \cup L |-> d[t]]
  OBVIOUS
<1>6. w.depths[s] \in Nat
  BY <1>1, <1>3
<1>7. \A t \in D \cup L : d[t] \in Nat
  <2>1. \A t \in L : d[t] = w.depths[s] + 1
    BY <1>5
  <2>2. \A t \in D \ L : d[t] \in Nat
    BY <1>1, <1>5
  <2> HIDE DEF D
  <2> HIDE <1>0
  <2> QED BY <1>6, <2>1, <2>2
<1>8. /\ Q \in Seq(Seal) /\ Len(Q) = Len(tail) + Len(q) /\ Len(tail) \in Nat /\ Len(q) \in Nat
      /\ \A i \in 1..Len(tail) : Q[i] = tail[i]
      /\ \A i \in 1..Len(q) : Q[Len(tail) + i] = q[i]
  <2>1. tail \in Seq(Seal) /\ q \in Seq(Seal)
    OBVIOUS
  <2> HIDE <1>0
  <2> QED BY <2>1
<1> HIDE DEF Q
<1>9. /\ \A i \in 1..Len(Q) : (i \in 1..Len(tail)) \/ (i - Len(tail) \in 1..Len(q) /\ i = Len(tail) + (i - Len(tail)))
      /\ \A i \in 1..Len(tail) : i \in 1..Len(Q) /\ Q[i] = tail[i]
      /\ \A i \in 1..Len(q) : Len(tail) + i \in 1..Len(Q) /\ Q[Len(tail) + i] = q[i]
  <2> DEFINE m == Len(tail)
             n == Len(q)
  <2>1. m \in Nat /\ n \in Nat /\ Len(Q) = m + n
    BY <1>8
  <2> HIDE <1>0
  <2>2. \A i \in 1..m : Q[i] = tail[i]
    BY <1>8
  <2>3. \A i \in 1..n : Q[m + i] = q[i]
    BY <1>8
  <2> HIDE DEF m, n
  <2>4. /\ \A i \in 1..m : i \in 1..Len(Q)
        /\ \A i \in 1..n : m + i \in 1..Len(Q)
        /\ \A i \in 1..Len(Q) : i \in 1..m \/ (i - m \in 1..n /\ i = m + (i - m))
    BY <2>1, Places
  <2>5. /\ \A i \in 1..Len(Q) : i \in 1..m \/ (i - m \in 1..n /\ i = m + (i - m))
        /\ \A i \in 1..m : i \in 1..Len(Q) /\ Q[i] = tail[i]
        /\ \A i \in 1..n : m + i \in 1..Len(Q) /\ Q[m + i] = q[i]
    BY <2>2, <2>3, <2>4
  <2> QED BY <2>5 DEF m, n
<1>10. v \in [head : Seal, queue : Seq(Seal), depths : UNION {[S -> Nat] : S \in SUBSET Seal}]
  <2>1. d \in [D \cup L -> Nat] /\ D \cup L \in SUBSET Seal
    BY <1>1, <1>4, <1>5, <1>7
  <2>2. w.head \in Seal /\ Q \in Seq(Seal)
    BY <1>1, <1>8
  <2> HIDE DEF D
  <2> HIDE <1>0
  <2>3. d \in UNION {[S -> Nat] : S \in SUBSET Seal}
    BY <2>1
  <2> QED BY <2>2, <2>3
<1>11. w.head \in D
  BY DEF Walking
<1>12. ASSUME NEW t \in D \cup L PROVE \E p \in Along(steps, w.head) : End(p) = t /\ d[t] + 1 = Len(p)
  <2>1. CASE t \in L
    <3>1. PICK p \in Along(steps, w.head) : End(p) = s /\ w.depths[s] + 1 = Len(p)
      BY <1>3 DEF Walking
    <3>2. t \in steps[End(p)]
      BY <1>4, <2>1, <3>1
    <3> DEFINE r == Append(p, t)
    <3>3. r \in Along(steps, w.head) /\ End(r) = t
      BY <1>1, <3>2, AlongAppends
    <3>4. Len(r) = Len(p) + 1
      <4>1. p \in Seq(Seal) /\ t \in Seal
        BY <1>4, <2>1, AlongFacts
      <4> QED BY <4>1
    <3> HIDE DEF r
    <3>5. d[t] + 1 = Len(r)
      BY <1>5, <1>6, <2>1, <3>1, <3>4
    <3> QED BY <3>3, <3>5
  <2>2. CASE t \notin L
    BY <1>5, <2>2 DEF Walking
  <2> QED BY <2>1, <2>2
<1>13. ASSUME NEW i \in 1..Len(Q) PROVE Q[i] \in D \cup L
  <2>1. CASE i \in 1..Len(tail)
    <3>1. Q[i] = w.queue[i + 1] /\ i + 1 \in 1..Len(w.queue)
      BY <1>2, <1>8, <2>1
    <3> QED BY <3>1 DEF Walking
  <2>2. CASE i - Len(tail) \in 1..Len(q) /\ i = Len(tail) + (i - Len(tail))
    <3>1. Q[Len(tail) + (i - Len(tail))] = q[i - Len(tail)]
      <4> HIDE <1>0
      <4> QED BY <1>9, <2>2
    <3> QED BY <2>2, <3>1
  <2> QED BY <1>9, <2>1, <2>2
<1>14. ASSUME NEW t \in D \cup L, ~ \E i \in 1..Len(Q) : Q[i] = t
       PROVE  \A p \in steps[t] : p \in D \cup L /\ d[p] <= d[t] + 1
  <2>1. t \notin L
    <3> SUFFICES ASSUME t \in L PROVE FALSE
      OBVIOUS
    <3>1. PICK i \in 1..Len(q) : q[i] = t
      OBVIOUS
    <3> DEFINE j == Len(tail) + i
    <3> HIDE <1>0
    <3>2. j \in 1..Len(Q) /\ Q[j] = q[i]
      BY <1>9
    <3> HIDE DEF j
    <3> QED BY <1>14, <3>1, <3>2
  <2>2. t \in D /\ d[t] = w.depths[t] /\ w.depths[t] \in Nat
    BY <1>1, <1>5, <2>1
  <2>3. CASE t = s
    <3> SUFFICES ASSUME NEW p \in steps[s] PROVE p \in D \cup L /\ d[p] <= d[s] + 1
      BY <2>3
    <3>0. d[s] = w.depths[s]
      BY <2>2, <2>3
    <3>1. CASE p \in L
      <4>1. d[p] = w.depths[s] + 1
        BY <1>5, <3>1
      <4>2. d[p] <= d[s] + 1
        <5> DEFINE n == w.depths[s]
        <5>1. n \in Nat /\ d[p] = n + 1 /\ d[s] = n
          BY <1>6, <3>0, <4>1
        <5> HIDE DEF n
        <5>2. n + 1 <= n + 1
          BY <5>1
        <5> QED BY <5>1, <5>2
      <4>3. p \in D \cup L
        BY <3>1
      <4> QED BY <4>2, <4>3
    <3>2. CASE p \notin L
      <4>1. p \in D /\ ~(w.depths[s] + 1 < w.depths[p])
        BY <3>2
      <4>2. d[p] = w.depths[p] /\ w.depths[p] \in Nat
        BY <1>1, <1>5, <3>2, <4>1
      <4>3. w.depths[p] <= w.depths[s] + 1
        <5> HIDE <1>0
        <5> DEFINE m == w.depths[s]
                   n == w.depths[p]
        <5>1. m \in Nat /\ n \in Nat /\ ~(m + 1 < n)
          BY <1>6, <4>1, <4>2
        <5> HIDE DEF m, n
        <5>2. n <= m + 1
          BY <5>1
        <5> QED BY <5>2 DEF m, n
      <4> HIDE DEF D
      <4> QED BY <3>0, <4>1, <4>2, <4>3
    <3> QED BY <3>1, <3>2
  <2>4. CASE t # s
    <3>1. ASSUME NEW i \in 1..Len(w.queue), w.queue[i] = t PROVE FALSE
      <4>1. i # 1
        BY <2>4, <3>1
      <4>2. i - 1 \in 1..Len(tail) /\ i = (i - 1) + 1 /\ i - 1 \in 1..(Len(w.queue) - 1)
        BY <1>2, <4>1
      <4>3. tail[i - 1] = w.queue[(i - 1) + 1]
        BY <1>2, <4>2
      <4>4. Q[i - 1] = tail[i - 1] /\ i - 1 \in 1..Len(Q)
        <5> HIDE <1>0
        <5> QED BY <1>9, <4>2
      <4> HIDE <1>0
      <4> QED BY <1>14, <3>1, <4>2, <4>3, <4>4
    <3>2. \A p \in steps[t] : p \in D /\ w.depths[p] <= w.depths[t] + 1
      BY <2>2, <3>1 DEF Walking
    <3> SUFFICES ASSUME NEW p \in steps[t] PROVE p \in D \cup L /\ d[p] <= d[t] + 1
      OBVIOUS
    <3>3. p \in D /\ w.depths[p] <= w.depths[t] + 1 /\ w.depths[p] \in Nat
      BY <1>1, <3>2
    <3>4. CASE p \in L
      <4>1. w.depths[s] + 1 < w.depths[p] /\ d[p] = w.depths[s] + 1
        BY <1>5, <3>3, <3>4
      <4> QED BY <1>6, <2>2, <3>3, <4>1
    <3>5. CASE p \notin L
      BY <1>5, <2>2, <3>3, <3>5
    <3> QED BY <3>4, <3>5
  <2> QED BY <2>3, <2>4
<1>15. v.head = w.head /\ v.queue = Q /\ v.depths = d /\ DOMAIN d = D \cup L
  BY <1>5
<1>16. Walking(v, steps)
  <2> HIDE DEF v, D
  <2>1. v.head \in DOMAIN v.depths
    BY <1>11, <1>15
  <2>2. \A t \in DOMAIN v.depths : \E p \in Along(steps, v.head) : End(p) = t /\ v.depths[t] + 1 = Len(p)
    BY <1>12, <1>15
  <2>3. \A i \in 1..Len(v.queue) : v.queue[i] \in DOMAIN v.depths
    BY <1>13, <1>15
  <2>4. \A t \in DOMAIN v.depths :
           \/ \E i \in 1..Len(v.queue) : v.queue[i] = t
           \/ \A p \in steps[t] : p \in DOMAIN v.depths /\ v.depths[p] <= v.depths[t] + 1
    BY <1>14, <1>15
  <2> QED BY <1>10, <2>1, <2>2, <2>3, <2>4 DEF Walking
<1> QED BY <1>16 DEF v, Q

(* When the queue is empty, the depths are those of the shortest paths.    *)
LEMMA WalkEnds ==
    ASSUME NEW steps \in Walks, Ends(steps), NEW w, Walking(w, steps), w.queue = <<>>
    PROVE  /\ DOMAIN w.depths = G!Reach(Edges(steps), {w.head})
           /\ \A p \in Along(steps, w.head) :
                 End(p) \in DOMAIN w.depths /\ w.depths[End(p)] <= Len(p) - 1
<1> DEFINE D == DOMAIN w.depths
<1>1. w.head \in Seal /\ D \in SUBSET Seal /\ \A s \in D : w.depths[s] \in Nat
  BY WalkingHas
<1>2. ASSUME NEW s \in D, NEW p \in steps[s] PROVE p \in D /\ w.depths[p] <= w.depths[s] + 1
  <2>1. ~ \E i \in 1..Len(w.queue) : w.queue[i] = s
    <3>1. Len(w.queue) = 0
      OBVIOUS
    <3> QED BY <3>1
  <2> QED BY <2>1 DEF Walking
<1>3. w.head \in D /\ w.depths[w.head] = 0
  <2>1. w.head \in D
    BY DEF Walking
  <2>2. PICK p \in Along(steps, w.head) : End(p) = w.head /\ w.depths[w.head] + 1 = Len(p)
    BY <2>1 DEF Walking
  <2>3. Len(p) \in Nat /\ Len(p) >= 1 /\ p[1] = w.head /\ p[Len(p)] = w.head
    BY <2>2, AlongFacts DEF End
  <2>4. ASSUME Len(p) # 1 PROVE FALSE
    <3> DEFINE n == Len(p)
    <3>1. n \in Nat /\ n >= 1 /\ n # 1
      BY <2>3, <2>4
    <3> HIDE DEF n
    <3>2. 1 \in 1..n /\ n \in 1..n /\ 1 < n
      BY <3>1
    <3>3. p[1] # p[n]
      BY <3>2, NoReturn DEF n
    <3> QED BY <2>3, <3>3 DEF n
  <2>5. w.depths[w.head] \in Nat
    BY <1>1, <2>1
  <2> QED BY <2>1, <2>2, <2>3, <2>4, <2>5
<1>4. ASSUME NEW p \in Along(steps, w.head), NEW i \in 1..Len(p)
      PROVE  p[i] \in D /\ w.depths[p[i]] <= i - 1
  <2> DEFINE B == {k \in Nat : k \in 1..Len(p) /\ ~(p[k] \in D /\ w.depths[p[k]] <= k - 1)}
  <2>1. /\ Len(p) \in Nat /\ Len(p) >= 1 /\ p[1] = w.head
        /\ \A k \in 1..(Len(p) - 1) : p[k + 1] \in steps[p[k]]
    BY AlongFacts
  <2>2. ASSUME B # {} PROVE FALSE
    <3>1. PICK k \in B : \A j \in B : k <= j
      <4>1. B \in SUBSET Nat
        OBVIOUS
      <4> HIDE DEF B
      <4> QED BY <2>2, <4>1, LeastMember
    <3>2. k \in 1..Len(p) /\ k \in Nat /\ ~(p[k] \in D /\ w.depths[p[k]] <= k - 1)
      OBVIOUS
    <3>3. k # 1
      <4> HIDE DEF B
      <4> QED BY <1>3, <2>1, <3>2
    <3>4. k - 1 \in 1..(Len(p) - 1) /\ k = (k - 1) + 1 /\ k - 1 \in 1..Len(p) /\ k - 1 \in Nat /\ ~(k <= k - 1)
      BY <2>1, <3>2, <3>3
    <3>5. k - 1 \notin B
      <4> HIDE DEF B
      <4> QED BY <3>1, <3>4
    <3>6. p[k - 1] \in D /\ w.depths[p[k - 1]] <= (k - 1) - 1
      BY <3>4, <3>5
    <3>7. p[k] \in steps[p[k - 1]]
      BY <2>1, <3>4
    <3> HIDE DEF B
    <3>8. p[k] \in D /\ w.depths[p[k]] <= w.depths[p[k - 1]] + 1
      BY <1>2, <3>6, <3>7
    <3>9. w.depths[p[k]] \in Nat /\ w.depths[p[k - 1]] \in Nat
      BY <1>1, <3>6, <3>8
    <3> QED BY <3>2, <3>4, <3>6, <3>8, <3>9
  <2> QED BY <2>1, <2>2
<1>5. ASSUME NEW p \in Along(steps, w.head)
      PROVE  End(p) \in D /\ w.depths[End(p)] <= Len(p) - 1
  <2>1. Len(p) \in 1..Len(p)
    BY AlongFacts
  <2> QED BY <1>4, <2>1 DEF End
<1>6. D = G!Reach(Edges(steps), {w.head})
  <2>1. ASSUME NEW s \in D PROVE s \in G!Reach(Edges(steps), {w.head})
    <3>1. \E p \in Along(steps, w.head) : End(p) = s
      BY DEF Walking
    <3>2. {w.head} \in SUBSET Seal
      BY <1>1
    <3> QED BY <3>1, <3>2, ReachIsPaths
  <2>2. ASSUME NEW s \in G!Reach(Edges(steps), {w.head}) PROVE s \in D
    <3>1. {w.head} \in SUBSET Seal
      BY <1>1
    <3>2. \E p \in Along(steps, w.head) : End(p) = s
      BY <3>1, ReachIsPaths
    <3> QED BY <1>5, <3>2
  <2> QED BY <2>1, <2>2
<1> QED BY <1>5, <1>6

Final(steps, h) == {p \in Along(steps, h) : steps[End(p)] = {}}

(* Every Seal of a path lies on one that goes as far as it can. *)
LEMMA PathsExtend ==
    ASSUME NEW steps \in Walks, Ends(steps), NEW h \in Seal, NEW p \in Along(steps, h), NEW i \in 1..Len(p)
    PROVE  \E q \in Final(steps, h) : \E j \in 1..Len(q) : q[j] = p[i]
<1> DEFINE Through(q) == \E j \in 1..Len(q) : q[j] = p[i]
           C == {t \in Seal : \E q \in Along(steps, h) : Through(q) /\ End(q) = t}
<1>1. End(p) \in C
  <2>1. Through(p) /\ End(p) \in Seal
    BY AlongFacts
  <2> HIDE DEF Through
  <2> QED BY <2>1
<1>2. PICK t \in C : steps[t] \cap C = {}
  <2>1. C \in SUBSET Seal
    OBVIOUS
  <2> HIDE DEF C
  <2> QED BY <1>1, <2>1 DEF Ends
<1>3. PICK q \in Along(steps, h) : Through(q) /\ End(q) = t
  <2> HIDE DEF Through
  <2> QED OBVIOUS
<1>4. ASSUME NEW u \in steps[t] PROVE FALSE
  <2> DEFINE r == Append(q, u)
  <2>1. r \in Along(steps, h) /\ End(r) = u
    BY <1>3, AlongAppends
  <2>2. q \in Seq(Seal) /\ Len(q) \in Nat /\ t \in Seal /\ u \in Seal
    BY AlongFacts DEF Walks
  <2>3. Len(r) = Len(q) + 1 /\ \A j \in 1..Len(q) : r[j] = q[j] /\ j \in 1..(Len(q) + 1)
    BY <2>2
  <2> HIDE DEF r
  <2>4. Through(r)
    BY <1>3, <2>3
  <2>5. u \in C
    <3> HIDE DEF Through
    <3> QED BY <2>1, <2>2, <2>4
  <2> QED BY <1>2, <2>5
<1>5. steps[End(q)] = {}
  BY <1>3, <1>4
<1>6. q \in Final(steps, h)
  BY <1>5 DEF Final
<1> QED BY <1>3, <1>6

LEMMA RevisionFacts ==
    ASSUME Built
    PROVE  /\ Revisions \in Walks /\ Ends(Revisions)
           /\ PathsAlong(Revisions) = [s \in Seal |-> Along(Revisions, s)]
           /\ \A h : G!RevisionClosure(graph, h) = G!Reach(Edges(Revisions), {h})
<1>1. Revisions \in Walks /\ Ends(Revisions)
  BY ScopedRevisions DEF Revisions
<1>2. PathsAlong(Revisions) = [s \in Seal |-> Along(Revisions, s)]
  BY <1>1, PathsAlongAre
<1>3. \A h : G!RevisionClosure(graph, h) = G!Reach(Edges(Revisions), {h})
  BY RevisionsAre DEF G!RevisionClosure
<1> QED BY <1>1, <1>2, <1>3

LogAnswer(limit) ==
    [query |-> "log", head |-> walk.head, depths |-> walk.depths,
     paths |-> First(limit, MaximalPaths(walk.head)),
     truncated |-> Cardinality(MaximalPaths(walk.head)) > limit]

LEMMA LogIsRight ==
    ASSUME Built, Walking(walk, Revisions), walk.queue = <<>>, NEW n \in Nat, answer = LogAnswer(n)
    PROVE  LogIsExact
<1> DEFINE D == DOMAIN walk.depths
           h == walk.head
           M == Final(Revisions, h)
<1>1. h \in Seal /\ D \in SUBSET Seal /\ \A s \in D : walk.depths[s] \in Nat
  BY WalkingHas
<1>2. /\ Revisions \in Walks /\ Ends(Revisions) /\ PathsAlong(Revisions)[h] = Along(Revisions, h)
      /\ G!RevisionClosure(graph, h) = G!Reach(Edges(Revisions), {h})
  BY <1>1, RevisionFacts
<1>3. MaximalPaths(h) = M
  BY <1>2 DEF MaximalPaths, Final
<1>4. /\ answer.head = h /\ answer.depths = walk.depths /\ answer.paths = First(n, M)
      /\ answer.truncated = (Cardinality(M) > n)
  BY <1>3 DEF LogAnswer
<1>5. D = G!RevisionClosure(graph, h)
  BY <1>2, WalkEnds
<1>6. ASSUME NEW s \in D
      PROVE  LET lengths == {Len(p) - 1 : p \in {q \in PathsAlong(Revisions)[h] : End(q) = s}}
             IN  walk.depths[s] \in lengths /\ \A m \in lengths : walk.depths[s] <= m
  <2>1. PICK p \in Along(Revisions, h) : End(p) = s /\ walk.depths[s] + 1 = Len(p)
    BY DEF Walking
  <2>2. walk.depths[s] = Len(p) - 1
    BY <1>1, <2>1
  <2>3. \A q \in Along(Revisions, h) : End(q) = s => walk.depths[s] <= Len(q) - 1
    BY <1>2, WalkEnds
  <2> QED BY <1>2, <2>1, <2>2, <2>3
<1>7. ASSUME ~answer.truncated
      PROVE  D = UNION {{p[i] : i \in DOMAIN p} : p \in answer.paths}
  <2>1. M \in SUBSET Seq(Seal) /\ IsFiniteSet(M)
    <3>1. M \in SUBSET Along(Revisions, h)
      BY DEF Final
    <3>2. Along(Revisions, h) \in SUBSET Seq(Seal) /\ IsFiniteSet(Along(Revisions, h))
      BY <1>1, <1>2, AlongIsFinite
    <3> HIDE DEF M, h
    <3> QED BY <3>1, <3>2, FS_Subset
  <2>2. Cardinality(M) <= n
    <3>1. Cardinality(M) \in Nat /\ ~(Cardinality(M) > n)
      BY <1>4, <1>7, <2>1, FS_CardinalityType
    <3> QED BY <3>1
  <2>3. answer.paths = M
    <3> HIDE DEF M
    <3> QED BY <1>4, <2>1, <2>2, FirstTells
  <2>4. ASSUME NEW s \in D PROVE \E q \in M : \E j \in DOMAIN q : q[j] = s
    <3>1. PICK p \in Along(Revisions, h) : End(p) = s
      BY DEF Walking
    <3>2. Len(p) \in 1..Len(p) /\ p[Len(p)] = s
      BY <1>2, <3>1, AlongFacts DEF End
    <3> DEFINE i == Len(p)
    <3>3. PICK q \in Final(Revisions, h) : \E j \in 1..Len(q) : q[j] = p[i]
      <4>1. i \in 1..Len(p)
        BY <3>2
      <4> HIDE DEF h, i
      <4>2. h \in Seal /\ p \in Along(Revisions, h) /\ Revisions \in Walks /\ Ends(Revisions)
        BY <1>1, <1>2
      <4> QED BY <4>1, <4>2, PathsExtend
    <3>4. DOMAIN q = 1..Len(q)
      BY <1>2, AlongFacts DEF Final
    <3> QED BY <3>2, <3>3, <3>4
  <2>5. ASSUME NEW q \in M, NEW j \in DOMAIN q PROVE q[j] \in D
    <3>1. q \in Along(Revisions, h)
      BY DEF Final
    <3>2. j \in 1..Len(q)
      BY <1>2, <3>1, AlongFacts
    <3>3. {h} \in SUBSET Seal /\ h \in {h}
      BY <1>1
    <3>4. q[j] \in G!Reach(Edges(Revisions), {h})
      <4> HIDE DEF h
      <4> QED BY <1>2, <3>1, <3>2, <3>3, PathsReach
    <3> QED BY <1>2, <1>5, <3>4
  <2> HIDE DEF M, D
  <2> QED BY <2>3, <2>4, <2>5
<1> HIDE DEF h, M
<1> QED BY <1>4, <1>5, <1>6, <1>7 DEF LogIsExact

Within(upstream, links) == {l \in links : upstream # {} => l.target \in upstream}
Changes(upstream, before, after) ==
    {c \in DiffCauseLinks(before, after) : upstream # {} => c.target \in upstream}
KeptChanges(upstream, e) == Changes(upstream, body[e[2]].links, body[e[1]].links)

LinkLogAnswer(upstream) ==
    LET edges == UNION {{s} \X Revisions[s] : s \in DOMAIN walk.depths}
    IN  [query |-> "linklog", head |-> walk.head, upstream |-> upstream,
         entries |-> {[newer |-> e[1], previous |-> e[2], depth |-> walk.depths[e[1]],
                       changes |-> KeptChanges(upstream, e)] :
                         e \in {d \in edges : upstream # {} => KeptChanges(upstream, d) # {}}}]

(* The changes between two sets of links turn one into the other, target   *)
(* by target.                                                              *)
LEMMA ChangesReplay ==
    ASSUME NEW before, NEW after, NEW upstream, NEW C, C = Changes(upstream, before, after)
    PROVE  Within(upstream, after) = (Within(upstream, before) \ UNION {c.before : c \in C})
                                         \cup UNION {c.after : c \in C}
<1> USE DEF Changes
<1> DEFINE At(t, ls) == {l \in ls : l.target = t}
           Change(t) == [target |-> t, before |-> At(t, before), after |-> At(t, after)]
           Of(ls) == {l \in ls : upstream # {} => l.target \in upstream}
<1>1. ASSUME NEW c \in C
      PROVE  /\ c.before = At(c.target, before) /\ c.after = At(c.target, after) /\ c.before # c.after
             /\ upstream # {} => c.target \in upstream
  <2>1. PICK t \in {l.target : l \in before \cup after} : c = Change(t)
    BY DEF DiffCauseLinks
  <2>2. c.before # c.after
    BY DEF DiffCauseLinks
  <2>3. c.target = t /\ c.before = At(t, before) /\ c.after = At(t, after)
    <3> HIDE DEF At
    <3> QED BY <2>1
  <2> QED BY <2>2, <2>3
<1>2. ASSUME NEW l \in before \cup after, At(l.target, before) # At(l.target, after),
             upstream # {} => l.target \in upstream
      PROVE  Change(l.target) \in C
  <2>1. Change(l.target) \in DiffCauseLinks(before, after)
    <3>1. Change(l.target).before # Change(l.target).after
      <4> HIDE DEF At
      <4> QED BY <1>2
    <3> QED BY <3>1 DEF DiffCauseLinks
  <2>2. Change(l.target).target = l.target
    <3> HIDE DEF At
    <3> QED OBVIOUS
  <2> HIDE DEF Change
  <2> QED BY <1>2, <2>1, <2>2
<1>3. \A t : Change(t).before = At(t, before) /\ Change(t).after = At(t, after)
  <2> HIDE DEF At
  <2> QED OBVIOUS
<1> HIDE DEF Change
<1>4. ASSUME NEW l \in Of(after), l \notin UNION {c.after : c \in C}
      PROVE  l \in Of(before) /\ l \notin UNION {c.before : c \in C}
  <2>1. l \in At(l.target, after)
    OBVIOUS
  <2>2. At(l.target, before) = At(l.target, after)
    <3>1. ASSUME At(l.target, before) # At(l.target, after) PROVE FALSE
      <4>1. Change(l.target) \in C
        BY <3>1, <1>2
      <4>2. l \in Change(l.target).after
        BY <2>1, <1>3
      <4> QED BY <4>1, <4>2, <1>4
    <3> QED BY <3>1
  <2>3. l \in Of(before)
    BY <2>1, <2>2
  <2>4. ASSUME NEW c \in C, l \in c.before PROVE FALSE
    <3>1. c.target = l.target
      BY <1>1, <2>4
    <3>2. c.before = At(c.target, before) /\ c.after = At(c.target, after) /\ c.before # c.after
      BY <1>1
    <3> HIDE DEF At
    <3> QED BY <2>2, <3>1, <3>2
  <2> QED BY <2>3, <2>4
<1>5. ASSUME NEW l \in Of(before), l \notin UNION {c.before : c \in C}
      PROVE  l \in Of(after)
  <2>1. l \in At(l.target, before)
    OBVIOUS
  <2>2. At(l.target, before) = At(l.target, after)
    <3>1. ASSUME At(l.target, before) # At(l.target, after) PROVE FALSE
      <4>1. Change(l.target) \in C
        BY <3>1, <1>2
      <4>2. l \in Change(l.target).before
        BY <2>1, <1>3
      <4> QED BY <4>1, <4>2, <1>5
    <3> QED BY <3>1
  <2> QED BY <2>1, <2>2
<1>6. ASSUME NEW c \in C, NEW l \in c.after PROVE l \in Of(after)
  BY <1>1
<1>7. Of(after) = Within(upstream, after) /\ Of(before) = Within(upstream, before)
  BY DEF Within
<1> HIDE DEF Of
<1>8. Of(after) = (Of(before) \ UNION {c.before : c \in C}) \cup UNION {c.after : c \in C}
  BY <1>4, <1>5, <1>6
<1> QED BY <1>7, <1>8

LEMMA LinkLogIsRight ==
    ASSUME Built, Walking(walk, Revisions), walk.queue = <<>>, NEW upstream, answer = LinkLogAnswer(upstream)
    PROVE  LinkLogReplays
<1> DEFINE E == UNION {{s} \X Revisions[s] : s \in DOMAIN walk.depths}
           Entry(e) == [newer |-> e[1], previous |-> e[2], depth |-> walk.depths[e[1]],
                        changes |-> KeptChanges(upstream, e)]
<1>1. walk.head \in Seal
  BY WalkingHas
<1>2. DOMAIN walk.depths = G!RevisionClosure(graph, walk.head)
  BY RevisionFacts, WalkEnds
<1>3. /\ answer.head = walk.head /\ answer.upstream = upstream
      /\ answer.entries = {Entry(e) : e \in {d \in E : upstream # {} => KeptChanges(upstream, d) # {}}}
  <2> HIDE DEF E
  <2> QED BY DEF LinkLogAnswer, E
<1>4. \A e : Entry(e).newer = e[1] /\ Entry(e).previous = e[2] /\ Entry(e).changes = KeptChanges(upstream, e)
  OBVIOUS
<1> HIDE DEF Entry
<1> SUFFICES ASSUME NEW s \in DOMAIN walk.depths, NEW p \in Revisions[s]
             PROVE  LET entries == {e \in answer.entries : e.newer = s /\ e.previous = p}
                        changes == UNION {e.changes : e \in entries}
                        of(q)   == {l \in body[q].links : answer.upstream # {} => l.target \in answer.upstream}
                    IN  of(s) = (of(p) \ UNION {c.before : c \in changes}) \cup UNION {c.after : c \in changes}
  BY <1>2, <1>3 DEF LinkLogReplays
<1> DEFINE entries == {e \in answer.entries : e.newer = s /\ e.previous = p}
           changes == UNION {e.changes : e \in entries}
           K == KeptChanges(upstream, <<s, p>>)
<1>5. <<s, p>> \in E
  OBVIOUS
<1>6. changes = K
  <2> HIDE DEF E, K
  <2>1. ASSUME NEW e \in entries PROVE e.changes = K
    <3>1. PICK d \in E : e = Entry(d)
      BY <1>3
    <3>2. d[1] = s /\ d[2] = p
      BY <1>4, <3>1
    <3>3. d = <<s, p>>
      BY <3>1, <3>2 DEF E
    <3> QED BY <1>4, <3>1, <3>3 DEF K
  <2>2. ASSUME K # {} PROVE Entry(<<s, p>>) \in entries
    <3>1. Entry(<<s, p>>) \in answer.entries
      BY <1>3, <1>5, <2>2 DEF K
    <3> QED BY <1>4, <3>1
  <2>3. ASSUME NEW c \in K PROVE c \in changes
    <3>1. Entry(<<s, p>>) \in entries /\ Entry(<<s, p>>).changes = K
      BY <2>2, <2>3, <1>4 DEF K
    <3> HIDE DEF entries
    <3> QED BY <2>3, <3>1
  <2>4. ASSUME NEW c \in changes PROVE c \in K
    <3> HIDE DEF entries
    <3> QED BY <2>1
  <2> HIDE DEF changes
  <2> QED BY <2>3, <2>4
<1>7. K = Changes(upstream, body[p].links, body[s].links)
  BY DEF KeptChanges
<1> HIDE DEF K, changes, entries
<1>8. Within(upstream, body[s].links)
          = (Within(upstream, body[p].links) \ UNION {c.before : c \in K}) \cup UNION {c.after : c \in K}
  BY <1>7, ChangesReplay
<1>9. \A x : Within(upstream, body[x].links) =
                 {l \in body[x].links : answer.upstream # {} => l.target \in answer.upstream}
  BY <1>3 DEF Within
<1> QED BY <1>6, <1>8, <1>9 DEF changes, entries

(* A history is reported from a walk that has ended. *)
HistoryAnswers ==
    /\ walk # NoWalk => Walking(walk, Revisions)
    /\ Asks("log") => walk # NoWalk /\ walk.queue = <<>> /\ \E n \in Limits : answer = LogAnswer(n)
    /\ Asks("linklog") => walk # NoWalk /\ walk.queue = <<>> /\ \E upstream : answer = LinkLogAnswer(upstream)

LEMMA WalkStep ==
    ASSUME Built, walk # NoWalk => Walking(walk, Revisions), [Next]_vars
    PROVE  walk' # NoWalk => Walking(walk', Revisions)
<1>1. ASSUME NEW h \in graph.heads, LogBegin(h) PROVE Walking(walk', Revisions)
  <2>1. walk' = [head |-> h, queue |-> <<h>>, depths |-> [s \in {h} |-> 0]]
    BY <1>1 DEF LogBegin
  <2>2. h \in Seal /\ Revisions \in Walks
    BY GraphFacts, RevisionFacts
  <2> QED BY <2>1, <2>2, WalkBegins
<1>2. ASSUME LogVisit PROVE Walking(walk', Revisions)
  <2> DEFINE s == walk.queue[1]
             L == Lowered(s)
             q == Sorted(L, <)
             d == Relaxed(L, walk.depths[s] + 1)
             tail == Tail(walk.queue)
  <2>1. walk.queue # <<>> /\ walk' = [walk EXCEPT !.queue = tail \o q, !.depths = d]
    BY <1>2 DEF LogVisit
  <2>2. Walking(walk, Revisions)
    BY <2>1 DEF NoWalk
  <2>3. /\ walk = [head |-> walk.head, queue |-> walk.queue, depths |-> walk.depths]
        /\ walk.head \in Seal /\ walk.queue \in Seq(Seal) /\ DOMAIN walk.depths \in SUBSET Seal
    BY <2>2, WalkingHas
  <2>4. Len(walk.queue) >= 1 /\ tail \in Seq(Seal) /\ s \in Seal
    <3>1. Len(walk.queue) >= 1
      <4> DEFINE w == walk.queue
      <4>1. w \in Seq(Seal) /\ w # <<>>
        BY <2>1, <2>3
      <4> HIDE DEF w
      <4>2. Len(w) >= 1
        BY <4>1
      <4> QED BY <4>2 DEF w
    <3> QED BY <2>3, <3>1, Split
  <2>5. Revisions \in Walks
    BY RevisionFacts
  <2>6. L = {p \in Revisions[s] : p \in DOMAIN walk.depths => walk.depths[s] + 1 < walk.depths[p]}
    BY DEF Lowered
  <2>7. d = [t \in DOMAIN walk.depths \cup L |-> IF t \in L THEN walk.depths[s] + 1 ELSE walk.depths[t]]
    BY DEF Relaxed
  <2>8. L \in SUBSET Seal
    BY <2>4, <2>5, <2>6 DEF Walks
  <2> HIDE DEF L, s, d, tail
  <2>9. q \in Seq(L) /\ \A p \in L : \E i \in 1..Len(q) : q[i] = p
    <3>1. IsFiniteSet(L) /\ L \in SUBSET Nat
      BY <2>8, SealsAreNumbers, FS_Subset
    <3>2. Orders(LessOn(L), L)
      BY <3>1, NumbersAreOrdered
    <3>3. q = List(LessOn(L), L)
      <4>1. \A x \in L : {y \in L : y < x} = {y \in L : <<y, x>> \in LessOn(L)}
        BY DEF LessOn
      <4>2. \A x \in L : Cardinality({y \in L : y < x}) = Rank(LessOn(L), L, x)
        BY <4>1 DEF Rank
      <4> DEFINE a(i) == CHOOSE x \in L : Cardinality({y \in L : y < x}) = i - 1
                 b(i) == CHOOSE x \in L : Rank(LessOn(L), L, x) = i - 1
      <4>3. \A i : a(i) = b(i)
        BY <4>2
      <4>4. q = [i \in 1..Cardinality(L) |-> a(i)]
        BY DEF Sorted
      <4>5. List(LessOn(L), L) = [i \in 1..Cardinality(L) |-> b(i)]
        BY DEF List
      <4> HIDE DEF a, b, q
      <4> QED BY <4>3, <4>4, <4>5
    <3> HIDE DEF q
    <3>4. /\ List(LessOn(L), L) \in Seq(L) /\ Len(List(LessOn(L), L)) = Cardinality(L)
          /\ \A x \in L : \E i \in 1..Cardinality(L) : List(LessOn(L), L)[i] = x
      BY <3>1, <3>2, ListHasAll
    <3> QED BY <3>3, <3>4
  <2> HIDE DEF q
  <2>10. q \in Seq(Seal) /\ \A i \in 1..Len(q) : q[i] \in L
    <3>1. \A i \in 1..Len(q) : q[i] \in L
      BY <2>9
    <3>2. Len(q) \in Nat /\ q = [i \in 1..Len(q) |-> q[i]]
      BY <2>9
    <3>3. q \in [1..Len(q) -> Seal]
      BY <2>8, <3>1, <3>2
    <3> QED BY <3>1, <3>2, <3>3 DEF Seq
  <2>11. walk' = [head |-> walk.head, queue |-> tail \o q, depths |-> d]
    BY <2>1, <2>3
  <2>12. Walking([head |-> walk.head, queue |-> tail \o q, depths |-> d], Revisions)
    <3>1. s = walk.queue[1] /\ tail = Tail(walk.queue)
      BY DEF s, tail
    <3>2. /\ L \subseteq Revisions[s]
          /\ \A p \in Revisions[s] : p \in L <=> (p \in DOMAIN walk.depths => walk.depths[s] + 1 < walk.depths[p])
      BY <2>6
    <3>3. /\ d = [t \in DOMAIN walk.depths \cup L |-> d[t]]
          /\ \A t \in L : d[t] = walk.depths[s] + 1
          /\ \A t \in DOMAIN walk.depths \ L : d[t] = walk.depths[t]
      BY <2>7
    <3>4. Visited(walk, Revisions, s, L, q, tail, d)
      BY <2>2, <2>4, <2>9, <2>10, <3>1, <3>2, <3>3 DEF Visited
    <3> QED BY <2>5, <3>4, WalkGoesOn
  <2> QED BY <2>11, <2>12
<1>3. ASSUME ~ \E h \in graph.heads : LogBegin(h), ~LogVisit PROVE walk' = walk
  BY <1>3 DEF Next, vars, Impact, LogEmit, LinkLogEmit, Observe, DirectionBegin,
       ClosureVisit, DirectionVisit, DirectionTurn, DirectionEmit
<1> QED BY <1>1, <1>2, <1>3

LEMMA FrozenHistory ==
    ASSUME body' = body, graph' = graph, walk' = walk, NEW n, NEW upstream
    PROVE  /\ LogAnswer(n)' = LogAnswer(n)
           /\ LinkLogAnswer(upstream)' = LinkLogAnswer(upstream)
<1>1. LogAnswer(n)' = LogAnswer(n)
  BY DEF LogAnswer, MaximalPaths, PathsAlong, Revisions, FilteredRevisions, InScope, Assertions, Supports,
         First, Before, Lexical, End
<1>2. LinkLogAnswer(upstream)' = LinkLogAnswer(upstream)
  BY DEF LinkLogAnswer, KeptChanges, Changes, DiffCauseLinks, Revisions, FilteredRevisions, InScope, Assertions, Supports
<1> QED BY <1>1, <1>2

LEMMA HistoryStep ==
    ASSUME Built, HistoryAnswers, [Next]_vars
    PROVE  HistoryAnswers'
<1>1. body' = body /\ graph' = graph /\ Revisions' = Revisions
  BY NothingIsStored, FrozenGraph
<1>2. walk' # NoWalk => Walking(walk', Revisions)
  BY WalkStep DEF HistoryAnswers
<1>3. (walk # NoWalk => Walking(walk, Revisions))'
  BY <1>1, <1>2 DEF Walking, Along, End, NoWalk
<1>4. ASSUME answer' = answer, Asks("log") \/ Asks("linklog") PROVE walk' = walk
  <2>1. answer # NoAnswer /\ walk.queue = <<>>
    BY <1>4 DEF HistoryAnswers, Asks, NoAnswer
  <2>2. ~LogVisit /\ \A h : ~LogBegin(h)
    BY <2>1 DEF LogVisit, LogBegin, Idle
  <2> QED BY <2>2 DEF Next, vars, Impact, LogEmit, LinkLogEmit, Observe, DirectionBegin,
       ClosureVisit, DirectionVisit, DirectionTurn, DirectionEmit
<1>5. ASSUME NEW n \in Limits, LogEmit(n)
      PROVE  walk' = walk /\ walk # NoWalk /\ walk.queue = <<>> /\ answer' = LogAnswer(n)
  BY <1>5 DEF LogEmit, Walked, LogAnswer
<1>6. ASSUME NEW upstream, LinkLogEmit(upstream)
      PROVE  walk' = walk /\ walk # NoWalk /\ walk.queue = <<>> /\ answer' = LinkLogAnswer(upstream)
  BY <1>6 DEF LinkLogEmit, Walked, LinkLogAnswer, KeptChanges, Changes
<1>7. Asks("log")' => walk' # NoWalk /\ walk'.queue = <<>> /\ \E n \in Limits : answer' = LogAnswer(n)'
  <2> SUFFICES ASSUME answer'.query = "log"
               PROVE  walk' # NoWalk /\ walk'.queue = <<>> /\ \E n \in Limits : answer' = LogAnswer(n)'
    BY DEF Asks
  <2>1. CASE answer' = answer
    <3>1. Asks("log") /\ walk' = walk
      BY <1>4, <2>1 DEF Asks
    <3>2. \A n : LogAnswer(n)' = LogAnswer(n)
      BY <1>1, <3>1, FrozenHistory
    <3> QED BY <2>1, <3>1, <3>2 DEF HistoryAnswers
  <2>2. CASE answer' # answer
    <3>1. PICK n \in Limits : LogEmit(n)
      BY <2>2, AnswersAre
    <3>2. walk' = walk /\ walk # NoWalk /\ walk.queue = <<>> /\ answer' = LogAnswer(n)
      BY <1>5, <3>1
    <3>3. LogAnswer(n)' = LogAnswer(n)
      BY <1>1, <3>2, FrozenHistory
    <3> QED BY <3>2, <3>3
  <2> QED BY <2>1, <2>2
<1>8. Asks("linklog")' => walk' # NoWalk /\ walk'.queue = <<>> /\ \E upstream : answer' = LinkLogAnswer(upstream)'
  <2> SUFFICES ASSUME answer'.query = "linklog"
               PROVE  walk' # NoWalk /\ walk'.queue = <<>> /\ \E upstream : answer' = LinkLogAnswer(upstream)'
    BY DEF Asks
  <2>1. CASE answer' = answer
    <3>1. Asks("linklog") /\ walk' = walk
      BY <1>4, <2>1 DEF Asks
    <3>2. \A upstream : LinkLogAnswer(upstream)' = LinkLogAnswer(upstream)
      BY <1>1, <3>1, FrozenHistory
    <3> QED BY <2>1, <3>1, <3>2 DEF HistoryAnswers
  <2>2. CASE answer' # answer
    <3>1. PICK upstream : LinkLogEmit(upstream)
      BY <2>2, AnswersAre
    <3>2. walk' = walk /\ walk # NoWalk /\ walk.queue = <<>> /\ answer' = LinkLogAnswer(upstream)
      BY <1>6, <3>1
    <3>3. LinkLogAnswer(upstream)' = LinkLogAnswer(upstream)
      BY <1>1, <3>2, FrozenHistory
    <3> QED BY <3>2, <3>3
  <2> QED BY <2>1, <2>2
<1>9. NoWalk' = NoWalk
  BY DEF NoWalk
<1> QED BY <1>3, <1>7, <1>8, <1>9 DEF HistoryAnswers

(* log lists the revision closure of the head, each Seal at the length of  *)
(* its shortest path, and linklog can be replayed (history.go Log,         *)
(* LinkLog).                                                               *)
THEOREM HistoryExact == Spec => []HistoryIsExact
<1>1. Init => Built /\ HistoryAnswers
  <2>1. Init => Built
    BY InitBuilds
  <2>2. Init => HistoryAnswers
    BY DEF Init, NoAnswer, HistoryAnswers, Asks
  <2> QED BY <2>1, <2>2
<1>2. Built /\ HistoryAnswers /\ [Next]_vars => (Built /\ HistoryAnswers)'
  BY NothingIsStored, FrozenGraph, HistoryStep
<1>3. Built /\ HistoryAnswers => HistoryIsExact
  <2> SUFFICES ASSUME Built, HistoryAnswers PROVE LogIsExact /\ LinkLogReplays
    BY DEF HistoryIsExact
  <2>1. ASSUME Asks("log") PROVE LogIsExact
    <3>1. PICK n \in Limits : answer = LogAnswer(n)
      BY <2>1 DEF HistoryAnswers
    <3>2. n \in Nat /\ Walking(walk, Revisions) /\ walk.queue = <<>>
      BY <2>1, StoredAssumption DEF HistoryAnswers
    <3> QED BY <3>1, <3>2, LogIsRight
  <2>2. ASSUME Asks("linklog") PROVE LinkLogReplays
    <3>1. PICK upstream : answer = LinkLogAnswer(upstream)
      BY <2>2 DEF HistoryAnswers
    <3>2. Walking(walk, Revisions) /\ walk.queue = <<>>
      BY <2>2 DEF HistoryAnswers
    <3> QED BY <3>1, <3>2, LinkLogIsRight
  <2>3. ~Asks("log") => LogIsExact
    BY DEF LogIsExact
  <2>4. ~Asks("linklog") => LinkLogReplays
    BY DEF LinkLogReplays
  <2> QED BY <2>1, <2>2, <2>3, <2>4
<1> QED BY <1>1, <1>2, <1>3, PTL DEF Spec

-----------------------------------------------------------------------------
(* The searches of trace compare: a queue, and what was found so far.      *)

(* All is found from the root, and each in one way. *)
Rooted(all, grown, root) ==
    /\ IsFiniteSet(all) /\ root \in all /\ grown \in [all -> SUBSET all]
    /\ \A p \in all : root \notin grown[p]
    /\ \A p, q \in all : p # q => grown[p] \cap grown[q] = {}
    /\ \A S \in SUBSET all : root \in S /\ (\A p \in S : grown[p] \subseteq S) => S = all

Done(root, found, queue) == ({root} \cup found) \ {queue[i] : i \in 1..Len(queue)}
Searching(all, grown, root, found, queue, spent) ==
    /\ queue \in Seq(all) /\ found \in SUBSET all
    /\ \A i, j \in 1..Len(queue) : queue[i] = queue[j] => i = j
    /\ \A i \in 1..Len(queue) : queue[i] \in {root} \cup found
    /\ found = UNION {grown[p] : p \in Done(root, found, queue)}
    /\ spent = Cardinality(Done(root, found, queue))

LEMMA SearchBegins ==
    ASSUME NEW all, NEW grown, NEW root, Rooted(all, grown, root)
    PROVE  Searching(all, grown, root, {}, <<root>>, 0)
<1> DEFINE Q == <<root>>
<1>1. root \in all
  BY DEF Rooted
<1>2. Q \in Seq(all) /\ Len(Q) = 1 /\ Q[1] = root
  BY <1>1
<1> HIDE DEF Q
<1>3. 1..Len(Q) = {1}
  BY <1>2
<1>4. {Q[i] : i \in 1..Len(Q)} = {root}
  BY <1>2, <1>3
<1>5. Done(root, {}, Q) = {}
  BY <1>4 DEF Done
<1>6. Cardinality(Done(root, {}, Q)) = 0
  BY <1>5, FS_EmptySet
<1>7. UNION {grown[p] : p \in Done(root, {}, Q)} = {}
  BY <1>5
<1>8. \A i, j \in 1..Len(Q) : Q[i] = Q[j] => i = j
  BY <1>3
<1>9. Searching(all, grown, root, {}, Q, 0)
  BY <1>2, <1>3, <1>6, <1>7, <1>8 DEF Searching
<1> QED BY <1>9 DEF Q

LEMMA DoneIsFinite ==
    ASSUME NEW all, NEW grown, NEW root, Rooted(all, grown, root),
           NEW found, NEW queue, NEW spent, Searching(all, grown, root, found, queue, spent)
    PROVE  /\ Done(root, found, queue) \in SUBSET all /\ IsFiniteSet(Done(root, found, queue))
           /\ spent \in Nat /\ root \notin found
<1>1. Done(root, found, queue) \in SUBSET all
  BY DEF Done, Searching, Rooted
<1>2. IsFiniteSet(Done(root, found, queue))
  BY <1>1, FS_Subset DEF Rooted
<1>3. spent \in Nat
  BY <1>2, FS_CardinalityType DEF Searching
<1>4. root \notin found
  BY <1>1 DEF Searching, Rooted
<1> QED BY <1>1, <1>2, <1>3, <1>4

(* What was taken from the queue and what it led to. *)
Step(grown, queue, tail, list) ==
    /\ Len(queue) >= 1 /\ tail = Tail(queue) /\ list \in Seq(grown[queue[1]])
    /\ \A p \in grown[queue[1]] : \E i \in 1..Len(list) : list[i] = p
    /\ \A i, j \in 1..Len(list) : list[i] = list[j] => i = j

LEMMA SearchGoesOn ==
    ASSUME NEW all, NEW grown, NEW root, Rooted(all, grown, root),
           NEW found, NEW queue, NEW spent, Searching(all, grown, root, found, queue, spent),
           NEW tail, NEW list, Step(grown, queue, tail, list)
    PROVE  Searching(all, grown, root, found \cup grown[queue[1]], tail \o list, spent + 1)
<1> DEFINE h == queue[1]
           N == grown[h]
           Q == tail \o list
           D == Done(root, found, queue)
<1>1. /\ queue \in Seq(all) /\ found \in SUBSET all /\ root \in all
      /\ \A i, j \in 1..Len(queue) : queue[i] = queue[j] => i = j
      /\ \A i \in 1..Len(queue) : queue[i] \in {root} \cup found
      /\ found = UNION {grown[p] : p \in D}
      /\ spent = Cardinality(D)
      /\ Len(queue) >= 1
  BY DEF Searching, Step, Rooted
<1>2. /\ h \in all /\ tail \in Seq(all) /\ Len(queue) \in Nat /\ Len(tail) = Len(queue) - 1
      /\ \A i \in 1..(Len(queue) - 1) : tail[i] = queue[i + 1]
  BY <1>1, Split DEF Step
<1>3. /\ N \in SUBSET all /\ root \notin N /\ list \in Seq(N)
      /\ \A p \in N : \E i \in 1..Len(list) : list[i] = p
      /\ \A i, j \in 1..Len(list) : list[i] = list[j] => i = j
  BY <1>2 DEF Step, Rooted
<1>4. D \in SUBSET all /\ IsFiniteSet(D) /\ spent \in Nat
  BY DoneIsFinite
<1>5. h \notin D /\ h \in {root} \cup found
  <2>1. 1 \in 1..Len(queue)
    BY <1>1, <1>2
  <2> QED BY <2>1, <1>1 DEF Done
<1>6. N \cap ({root} \cup found) = {}
  <2> SUFFICES ASSUME NEW x \in N, x \in found PROVE FALSE
    BY <1>3
  <2>1. PICK p \in D : x \in grown[p]
    <3> HIDE DEF D, N
    <3> QED BY <1>1
  <2>2. p # h /\ p \in all
    <3> HIDE DEF D, h
    <3> QED BY <1>4, <1>5
  <2>3. grown[p] \cap grown[h] = {}
    <3> HIDE DEF h
    <3> QED BY <1>2, <2>2 DEF Rooted
  <2> QED BY <2>1, <2>3
<1>7. /\ list \in Seq(all) /\ Len(list) \in Nat /\ \A i \in 1..Len(list) : list[i] \in N
      /\ \A i \in 1..Len(tail) : tail[i] \in {root} \cup found /\ tail[i] # h
      /\ \A i, j \in 1..Len(tail) : tail[i] = tail[j] => i = j
  <2>1. Len(list) \in Nat /\ \A i \in 1..Len(list) : list[i] \in N
    <3> HIDE DEF N
    <3> QED BY <1>3
  <2>2. list \in Seq(all)
    <3>1. list = [i \in 1..Len(list) |-> list[i]]
      <4> HIDE DEF N
      <4> QED BY <1>3
    <3>2. list \in [1..Len(list) -> all]
      <4> HIDE DEF N
      <4> QED BY <3>1, <2>1, <1>3
    <3> QED BY <3>2, <2>1 DEF Seq
  <2>3. \A i \in 1..Len(tail) : i + 1 \in 1..Len(queue) /\ tail[i] = queue[i + 1] /\ i + 1 # 1
    BY <1>2
  <2>4. 1 \in 1..Len(queue)
    BY <1>1, <1>2
  <2>5. \A i \in 1..Len(tail) : tail[i] \in {root} \cup found /\ tail[i] # h
    BY <1>1, <2>3, <2>4
  <2>6. ASSUME NEW i \in 1..Len(tail), NEW j \in 1..Len(tail), tail[i] = tail[j] PROVE i = j
    <3>1. i + 1 = j + 1
      BY <1>1, <2>3, <2>6
    <3> QED BY <3>1, <1>2
  <2> QED BY <2>1, <2>2, <2>5, <2>6
<1>8. /\ Q \in Seq(all) /\ Len(Q) = Len(tail) + Len(list) /\ Len(tail) \in Nat
      /\ \A i \in 1..Len(tail) : Q[i] = tail[i]
      /\ \A i \in 1..Len(list) : Q[Len(tail) + i] = list[i]
  <2>1. tail \in Seq(all) /\ list \in Seq(all)
    BY <1>2, <1>7
  <2> QED BY <2>1
<1> HIDE DEF Q
<1>9. \A i \in 1..Len(Q) : \/ i \in 1..Len(tail)
                           \/ i - Len(tail) \in 1..Len(list) /\ i = Len(tail) + (i - Len(tail))
  BY <1>7, <1>8
<1>10. ASSUME NEW i \in 1..Len(Q)
       PROVE  \/ i \in 1..Len(tail) /\ Q[i] = tail[i] /\ Q[i] \in {root} \cup found
              \/ i - Len(tail) \in 1..Len(list) /\ Q[i] = list[i - Len(tail)] /\ Q[i] \in N
  BY <1>7, <1>8, <1>9
<1>11. ASSUME NEW i \in 1..Len(Q), NEW j \in 1..Len(Q), Q[i] = Q[j] PROVE i = j
  <2>1. CASE i \in 1..Len(tail) /\ j \in 1..Len(tail)
    BY <2>1, <1>7, <1>8, <1>11
  <2>2. CASE i - Len(tail) \in 1..Len(list) /\ j - Len(tail) \in 1..Len(list)
    <3>1. Q[Len(tail) + (i - Len(tail))] = list[i - Len(tail)] /\ Q[Len(tail) + (j - Len(tail))] = list[j - Len(tail)]
      BY <2>2, <1>8
    <3>2. i = Len(tail) + (i - Len(tail)) /\ j = Len(tail) + (j - Len(tail))
      BY <1>8
    <3>3. list[i - Len(tail)] = list[j - Len(tail)]
      BY <3>1, <3>2, <1>11
    <3>4. i - Len(tail) = j - Len(tail)
      <4> HIDE DEF N
      <4> QED BY <3>3, <2>2, <1>3
    <3> QED BY <3>4, <1>8
  <2>3. CASE Q[i] \in {root} \cup found /\ Q[j] \in N
    BY <2>3, <1>6, <1>11
  <2>4. CASE Q[j] \in {root} \cup found /\ Q[i] \in N
    BY <2>4, <1>6, <1>11
  <2> HIDE DEF N
  <2> QED BY <1>10, <2>1, <2>2, <2>3, <2>4
<1>12. {Q[i] : i \in 1..Len(Q)} = ({queue[i] : i \in 1..Len(queue)} \ {h}) \cup N
  <2>1. ASSUME NEW i \in 1..Len(Q) PROVE Q[i] \in ({queue[k] : k \in 1..Len(queue)} \ {h}) \cup N
    <3>1. CASE i \in 1..Len(tail)
      <4>1. Q[i] = tail[i] /\ tail[i] # h /\ tail[i] = queue[i + 1] /\ i + 1 \in 1..Len(queue)
        BY <3>1, <1>2, <1>7, <1>8
      <4> QED BY <4>1
    <3>2. CASE Q[i] \in N
      BY <3>2
    <3> HIDE DEF N, h
    <3> QED BY <3>1, <3>2, <1>10
  <2>2. ASSUME NEW k \in 1..Len(queue), queue[k] # h PROVE \E i \in 1..Len(Q) : Q[i] = queue[k]
    <3>1. k # 1
      BY <2>2
    <3>2. k - 1 \in 1..Len(tail) /\ tail[k - 1] = queue[(k - 1) + 1] /\ (k - 1) + 1 = k /\ k - 1 \in 1..Len(Q)
      BY <3>1, <1>2, <1>7, <1>8
    <3> QED BY <3>2, <1>8
  <2>3. ASSUME NEW p \in N PROVE \E i \in 1..Len(Q) : Q[i] = p
    <3>1. PICK j \in 1..Len(list) : list[j] = p
      <4> HIDE DEF N
      <4> QED BY <1>3
    <3>2. Len(tail) + j \in 1..Len(Q)
      BY <1>7, <1>8
    <3> QED BY <3>1, <3>2, <1>8
  <2> HIDE DEF N, h
  <2> QED BY <2>1, <2>2, <2>3
<1>13. Done(root, found \cup N, Q) = D \cup {h}
  <2> DEFINE P == {queue[i] : i \in 1..Len(queue)}
  <2>1. D = ({root} \cup found) \ P
    BY DEF Done
  <2>2. Done(root, found \cup N, Q) = ({root} \cup found \cup N) \ ((P \ {h}) \cup N)
    <3> HIDE DEF N, h
    <3> QED BY <1>12 DEF Done
  <2> HIDE DEF P, D, N, h
  <2> QED BY <2>1, <2>2, <1>5, <1>6
<1>14. found \cup N = UNION {grown[p] : p \in D \cup {h}}
  <2> HIDE DEF D, h
  <2> QED BY <1>1
<1>15. Cardinality(D \cup {h}) = spent + 1
  <2> HIDE DEF D, h
  <2> QED BY <1>1, <1>4, <1>5, FS_AddElement
<1>16. found \cup N \in SUBSET all
  BY <1>1, <1>3
<1>17. \A i \in 1..Len(Q) : Q[i] \in {root} \cup (found \cup N)
  <2> HIDE DEF N
  <2> QED BY <1>10
<1> HIDE DEF N, D
<1>18. Searching(all, grown, root, found \cup N, Q, spent + 1)
  BY <1>8, <1>11, <1>13, <1>14, <1>15, <1>16, <1>17 DEF Searching
<1> QED BY <1>18 DEF Q, N

(* A search that ended found everything, once. *)
LEMMA SearchEnds ==
    ASSUME NEW all, NEW grown, NEW root, Rooted(all, grown, root),
           NEW found, NEW spent, Searching(all, grown, root, found, <<>>, spent)
    PROVE  found = all \ {root} /\ spent = Cardinality(all)
<1> DEFINE S == {root} \cup found
<1>1. 1..Len(<<>>) = {}
  OBVIOUS
<1>2. Done(root, found, <<>>) = S
  BY <1>1 DEF Done
<1>3. S \in SUBSET all /\ \A p \in S : grown[p] \subseteq S
  BY <1>2 DEF Searching, Rooted
<1>4. S = all
  <2>1. root \in S
    OBVIOUS
  <2> HIDE DEF S
  <2> QED BY <1>3, <2>1 DEF Rooted
<1>5. root \notin found
  BY DoneIsFinite
<1>6. spent = Cardinality(S)
  BY <1>2 DEF Searching
<1>7. found = S \ {root}
  BY <1>5
<1> HIDE DEF S
<1> QED BY <1>4, <1>6, <1>7

(* One that did not has visited fewer. *)
LEMMA SearchIsShort ==
    ASSUME NEW all, NEW grown, NEW root, Rooted(all, grown, root),
           NEW found, NEW queue, NEW spent, Searching(all, grown, root, found, queue, spent), Len(queue) >= 1
    PROVE  spent < Cardinality(all)
<1> DEFINE D == Done(root, found, queue)
<1>1. D \in SUBSET all /\ IsFiniteSet(D) /\ spent = Cardinality(D) /\ IsFiniteSet(all)
  BY DoneIsFinite DEF Searching, Rooted
<1>2. queue[1] \in all /\ queue[1] \notin D
  <2>1. queue \in Seq(all) /\ 1 \in 1..Len(queue)
    BY DEF Searching
  <2> QED BY <2>1 DEF Done
<1> HIDE DEF D
<1>3. D # all
  BY <1>2
<1>4. Cardinality(D) < Cardinality(all)
  <2>1. Cardinality(D) <= Cardinality(all) /\ Cardinality(D) # Cardinality(all)
    BY <1>1, <1>3, FS_Subset
  <2>2. Cardinality(D) \in Nat /\ Cardinality(all) \in Nat
    BY <1>1, FS_CardinalityType
  <2> QED BY <2>1, <2>2
<1> QED BY <1>1, <1>4

(* All paths from a Seal, each longer by one at its end. *)
Longer(p, T) == {Append(p, t) : t \in T}
Onward(steps, s) == [p \in Along(steps, s) |-> Longer(p, steps[End(p)])]

LEMMA OnwardIsRooted ==
    ASSUME NEW steps \in Walks, Ends(steps), NEW s \in Seal
    PROVE  Rooted(Along(steps, s), Onward(steps, s), <<s>>)
<1> DEFINE A == Along(steps, s)
           g == Onward(steps, s)
           one == <<s>>
<1>1. IsFiniteSet(A) /\ one \in A /\ Len(one) = 1
  BY AlongIsFinite, AlongOne
<1>2. \A p \in A : g[p] = Longer(p, steps[End(p)])
  BY DEF Onward
<1>3. g = [p \in A |-> g[p]]
  BY DEF Onward
<1> HIDE DEF g, one
<1>4. ASSUME NEW p \in A, NEW q \in g[p]
      PROVE  /\ q \in A /\ Len(q) = Len(p) + 1
             /\ \E t \in steps[End(p)] : t \in Seal /\ q = Append(p, t)
  <2>1. PICK t \in steps[End(p)] : q = Append(p, t)
    BY <1>2 DEF Longer
  <2>2. p \in Seq(Seal) /\ Len(p) \in Nat /\ End(p) \in Seal
    BY AlongFacts
  <2>3. t \in Seal
    BY <2>2 DEF Walks
  <2>4. Append(p, t) \in Along(steps, s)
    BY AlongAppends
  <2>5. Len(Append(p, t)) = Len(p) + 1
    BY <2>2, <2>3, AppendProperties
  <2> QED BY <2>1, <2>3, <2>4, <2>5
<1>5. g \in [A -> SUBSET A]
  <2>1. \A p \in A : g[p] \in SUBSET A
    <3> HIDE DEF A
    <3> QED BY <1>4
  <2> HIDE DEF A
  <2> QED BY <1>3, <2>1
<1>6. \A p \in A : one \notin g[p]
  <2> SUFFICES ASSUME NEW p \in A, one \in g[p] PROVE FALSE
    OBVIOUS
  <2>1. Len(one) = Len(p) + 1 /\ Len(p) \in Nat /\ Len(p) >= 1
    BY <1>4, AlongFacts
  <2> DEFINE n == Len(p)
  <2>2. n \in Nat /\ n >= 1 /\ n + 1 = 1
    BY <2>1, <1>1
  <2> HIDE DEF n
  <2> QED BY <2>2
<1>7. ASSUME NEW p \in A, NEW q \in A, NEW r \in g[p], r \in g[q] PROVE p = q
  <2>1. PICK t \in Seal : r = Append(p, t)
    BY <1>4
  <2>2. PICK u \in Seal : r = Append(q, u)
    BY <1>4, <1>7
  <2>3. p \in Seq(Seal) /\ q \in Seq(Seal) /\ Append(p, t) = Append(q, u)
    BY <2>1, <2>2, AlongFacts
  <2> QED BY <2>3, AppendInjective
<1>8. ASSUME NEW S \in SUBSET A, one \in S, \A p \in S : g[p] \subseteq S PROVE S = A
  <2> DEFINE B == {n \in Nat : \E p \in A \ S : Len(p) = n}
  <2> SUFFICES ASSUME B # {} PROVE FALSE
    <3>1. \A p \in A : Len(p) \in Nat
      BY AlongFacts
    <3> HIDE DEF A
    <3> QED BY <3>1
  <2>1. PICK n \in B : \A m \in B : n <= m
    <3>1. B \in SUBSET Nat
      OBVIOUS
    <3> HIDE DEF B
    <3> QED BY <3>1, LeastMember
  <2>2. PICK p \in A \ S : Len(p) = n
    <3> HIDE DEF A
    <3> QED BY <2>1
  <2>3. /\ p \in Seq(Seal) /\ Len(p) \in Nat /\ Len(p) >= 1 /\ p[1] = s
        /\ \A i \in 1..(Len(p) - 1) : p[i + 1] \in steps[p[i]]
        /\ \A i \in 1..Len(p) : p[i] \in Seal
    BY AlongFacts
  <2>4. Len(p) # 1
    <3> SUFFICES ASSUME Len(p) = 1 PROVE FALSE
      OBVIOUS
    <3>1. one \in Seq(Seal) /\ one[1] = s
      BY DEF one
    <3>2. p = one
      BY <3>1, <1>1, <2>3, SeqEqual
    <3> HIDE DEF A
    <3> QED BY <3>2, <1>8
  <2> DEFINE k == Len(p) - 1
             q == SubSeq(p, 1, k)
  <2>5. k \in 1..Len(p) /\ k \in Nat /\ k + 1 = Len(p) /\ k \in 1..(Len(p) - 1)
    <3> DEFINE m == Len(p)
    <3>1. m \in Nat /\ m >= 1 /\ m # 1
      BY <2>3, <2>4
    <3> HIDE DEF m
    <3>2. m - 1 \in 1..m /\ m - 1 \in Nat /\ (m - 1) + 1 = m /\ m - 1 \in 1..(m - 1)
      BY <3>1
    <3> QED BY <3>2 DEF m
  <2>6. q \in A /\ Len(q) = k /\ End(q) = p[k] /\ \A j \in 1..k : q[j] = p[j]
    <3> HIDE DEF k
    <3>1. p \in Along(steps, s)
      OBVIOUS
    <3> QED BY <3>1, <2>5, AlongCut
  <2>7. p[k + 1] \in steps[End(q)] /\ p[k + 1] \in Seal
    <3> HIDE DEF q
    <3>1. k + 1 \in 1..Len(p)
      BY <2>5
    <3> QED BY <2>3, <2>5, <2>6, <3>1
  <2>8. p = Append(q, p[k + 1])
    <3> HIDE DEF q, k
    <3> DEFINE r == Append(q, p[k + 1])
    <3>1. q \in Seq(Seal)
      BY <2>6, AlongFacts
    <3>2. r \in Seq(Seal) /\ Len(r) = Len(q) + 1 /\ (\A i \in 1..Len(q) : r[i] = q[i]) /\ r[Len(q) + 1] = p[k + 1]
      BY <3>1, <2>7, AppendProperties
    <3> HIDE DEF r
    <3>3. Len(r) = Len(p)
      BY <3>2, <2>5, <2>6
    <3>4. ASSUME NEW i \in 1..Len(p) PROVE p[i] = r[i]
      <4>1. CASE i \in 1..k
        BY <4>1, <3>2, <2>6
      <4>2. CASE i = k + 1
        BY <4>2, <3>2, <2>6
      <4> QED BY <4>1, <4>2, <2>5
    <3>5. p = r
      BY <3>2, <3>3, <3>4, <2>3, SeqEqual
    <3> QED BY <3>5 DEF r
  <2>9. q \in S
    <3>1. k \notin B
      <4> HIDE DEF B
      <4> SUFFICES ASSUME k \in B PROVE FALSE
        OBVIOUS
      <4>1. n <= k /\ n = k + 1
        BY <2>1, <2>2, <2>5
      <4> QED BY <4>1, <2>5
    <3> HIDE DEF q, k, A
    <3> QED BY <3>1, <2>5, <2>6
  <2>10. p \in g[q]
    <3> HIDE DEF q, k
    <3>1. p \in Longer(q, steps[End(q)])
      BY <2>7, <2>8 DEF Longer
    <3> QED BY <3>1, <1>2, <2>6
  <2> HIDE DEF q, A
  <2> QED BY <2>2, <2>9, <2>10, <1>8
<1>9. \A p, q \in A : p # q => g[p] \cap g[q] = {}
  <2> HIDE DEF A
  <2> QED BY <1>7
<1> HIDE DEF A
<1>10. Rooted(A, g, one)
  BY <1>1, <1>5, <1>6, <1>8, <1>9 DEF Rooted
<1> QED BY <1>10 DEF A, g, one

(* All paths to a Seal within a set, each longer by one at its start. *)
Earlier(p, D) == {<<d>> \o p : d \in D}
Toward(steps, scope, c)   == UNION {{p \in Along(steps, d) : End(p) = c} : d \in scope}
Backward(steps, scope, c) ==
    [p \in Toward(steps, scope, c) |-> Earlier(p, {n \in scope : p[1] \in steps[n]})]

LEMMA BackwardIsRooted ==
    ASSUME NEW steps \in Walks, Ends(steps), NEW scope \in SUBSET Seal, NEW c \in scope,
           \A s \in scope : steps[s] \subseteq scope
    PROVE  Rooted(Toward(steps, scope, c), Backward(steps, scope, c), <<c>>)
<1> DEFINE A == Toward(steps, scope, c)
           g == Backward(steps, scope, c)
           one == <<c>>
<1>1. \A p : p \in A <=> \E d \in scope : p \in Along(steps, d) /\ End(p) = c
  BY DEF Toward
<1>2. \A p \in A : g[p] = Earlier(p, {n \in scope : p[1] \in steps[n]})
  BY DEF Backward
<1>3. g = [p \in A |-> g[p]]
  BY DEF Backward
<1>4. IsFiniteSet(A)
  <2> DEFINE f == [d \in scope |-> {p \in Along(steps, d) : End(p) = c}]
             F == {f[d] : d \in scope}
  <2>1. IsFiniteSet(scope)
    BY SealsAreNumbers, FS_Subset
  <2>2. IsFiniteSet(F)
    <3> HIDE DEF f
    <3> QED BY <2>1, ImageIsFinite
  <2>3. \A T \in F : IsFiniteSet(T)
    <3> SUFFICES ASSUME NEW d \in scope PROVE IsFiniteSet(f[d])
      OBVIOUS
    <3>1. f[d] \in SUBSET Along(steps, d) /\ IsFiniteSet(Along(steps, d))
      BY AlongIsFinite
    <3> HIDE DEF f
    <3> QED BY <3>1, FS_Subset
  <2>4. A = UNION F
    BY DEF Toward
  <2> HIDE DEF F, A
  <2> QED BY <2>2, <2>3, <2>4, FS_UNION
<1> HIDE DEF A, g, one
<1>5. one \in A /\ Len(one) = 1 /\ one \in Seq(Seal) /\ one[1] = c
  <2>1. c \in Seal
    OBVIOUS
  <2>2. <<c>> \in Along(steps, c) /\ Len(<<c>>) = 1 /\ End(<<c>>) = c
    BY <2>1, AlongOne
  <2>3. one \in Seq(Seal) /\ one[1] = c
    BY <2>1 DEF one
  <2> QED BY <1>1, <2>2, <2>3 DEF one
<1>6. ASSUME NEW p \in A
      PROVE  p \in Seq(Seal) /\ Len(p) \in Nat /\ Len(p) >= 1 /\ p[1] \in scope /\ p \in Along(steps, p[1]) /\ End(p) = c
  <2>1. PICK d \in scope : p \in Along(steps, d) /\ End(p) = c
    BY <1>1
  <2>2. p[1] = d
    BY <2>1, AlongFacts
  <2> QED BY <2>1, <2>2, AlongFacts
<1>7. ASSUME NEW p \in A, NEW d \in scope, p[1] \in steps[d]
      PROVE  <<d>> \o p \in A /\ Len(<<d>> \o p) = Len(p) + 1
  <2>1. <<d>> \o p \in Along(steps, d)
    BY <1>6, <1>7, AlongGrows
  <2>2. Len(<<d>> \o p) = Len(p) + 1 /\ End(<<d>> \o p) = End(p)
    BY <1>6, Prefixed
  <2> QED BY <2>1, <2>2, <1>1, <1>6
<1>8. ASSUME NEW p \in A, NEW q \in g[p]
      PROVE  q \in A /\ Len(q) = Len(p) + 1 /\ \E d \in scope : p[1] \in steps[d] /\ q = <<d>> \o p
  <2>1. PICK d \in scope : p[1] \in steps[d] /\ q = <<d>> \o p
    BY <1>2 DEF Earlier
  <2> QED BY <2>1, <1>7
<1>9. g \in [A -> SUBSET A]
  BY <1>3, <1>8
<1>10. ASSUME NEW p \in A, one \in g[p] PROVE FALSE
  <2>1. Len(one) = Len(p) + 1 /\ Len(p) \in Nat /\ Len(p) >= 1
    BY <1>6, <1>8, <1>10
  <2> DEFINE n == Len(p)
  <2>2. n \in Nat /\ n >= 1 /\ n + 1 = 1
    BY <2>1, <1>5
  <2> HIDE DEF n
  <2> QED BY <2>2
<1>11. ASSUME NEW p \in A, NEW q \in A, NEW r \in g[p], r \in g[q] PROVE p = q
  <2>1. PICK d \in scope : r = <<d>> \o p
    BY <1>8
  <2>2. PICK e \in scope : r = <<e>> \o q
    BY <1>8, <1>11
  <2>3. p \in Seq(Seal) /\ q \in Seq(Seal) /\ d \in Seal /\ e \in Seal
    BY <1>6
  <2>4. r[1] = d /\ r[1] = e
    BY <2>1, <2>2, <2>3, Prefixed
  <2>5. <<d>> \o p = <<d>> \o q
    BY <2>1, <2>2, <2>4
  <2> QED BY <2>3, <2>5, PrefixedTells
<1>12. ASSUME NEW S \in SUBSET A, one \in S, \A p \in S : g[p] \subseteq S PROVE S = A
  <2> DEFINE B == {n \in Nat : \E p \in A \ S : Len(p) = n}
  <2> SUFFICES ASSUME B # {} PROVE FALSE
    BY <1>6
  <2>1. PICK n \in B : \A m \in B : n <= m
    <3>1. B \in SUBSET Nat
      OBVIOUS
    <3> HIDE DEF B
    <3> QED BY <3>1, LeastMember
  <2>2. PICK p \in A \ S : Len(p) = n
    BY <2>1
  <2>3. /\ p \in Seq(Seal) /\ Len(p) \in Nat /\ Len(p) >= 1 /\ p[1] \in scope /\ p[1] \in Seal
        /\ p \in Along(steps, p[1]) /\ End(p) = c
    BY <1>6
  <2>4. p # <<p[1]>>
    <3> SUFFICES ASSUME p = <<p[1]>> PROVE FALSE
      OBVIOUS
    <3>1. End(<<p[1]>>) = p[1]
      BY <2>3, AlongOne
    <3>2. p = one
      BY <3>1, <2>3 DEF one
    <3> QED BY <3>2, <1>12
  <2>5. PICK t \in steps[p[1]] : \E q \in Along(steps, t) : p = <<p[1]>> \o q
    BY <2>3, <2>4, AlongSplits
  <2>6. PICK q \in Along(steps, t) : p = <<p[1]>> \o q
    BY <2>5
  <2>7. t \in scope
    BY <2>3
  <2>8. q \in Seq(Seal) /\ Len(q) \in Nat /\ Len(q) >= 1 /\ q[1] = t
    BY <2>6, AlongFacts
  <2>9. Len(p) = Len(q) + 1 /\ End(q) = c
    <3>1. Len(<<p[1]>> \o q) = Len(q) + 1 /\ End(<<p[1]>> \o q) = End(q)
      BY <2>3, <2>8, Prefixed
    <3>2. Len(p) = Len(q) + 1 /\ End(p) = End(q)
      BY <2>6, <3>1
    <3> QED BY <2>3, <3>2
  <2>10. q \in A
    BY <2>6, <2>7, <2>9, <1>1
  <2>11. q \in S
    <3>1. Len(q) \notin B
      <4> HIDE DEF B
      <4> SUFFICES ASSUME Len(q) \in B PROVE FALSE
        OBVIOUS
      <4>1. n <= Len(q) /\ n = Len(q) + 1
        BY <2>1, <2>2, <2>9
      <4> QED BY <4>1, <2>8
    <3> QED BY <3>1, <2>8, <2>10
  <2>12. p \in g[q]
    <3>1. p[1] \in {m \in scope : q[1] \in steps[m]}
      BY <2>3, <2>5, <2>8
    <3>2. p \in Earlier(q, {m \in scope : q[1] \in steps[m]})
      BY <2>6, <3>1 DEF Earlier
    <3> QED BY <3>2, <1>2, <2>10
  <2> QED BY <2>2, <2>11, <2>12, <1>12
<1>13. \A p, q \in A : p # q => g[p] \cap g[q] = {}
  BY <1>11
<1>14. Rooted(A, g, one)
  BY <1>4, <1>5, <1>9, <1>10, <1>12, <1>13 DEF Rooted
<1> QED BY <1>14 DEF A, g, one

(* What is queued is a sorted list: each once. *)
Lists(q, X) ==
    /\ q \in Seq(X) /\ Len(q) = Cardinality(X)
    /\ \A x \in X : \E i \in 1..Len(q) : q[i] = x
    /\ \A i, j \in 1..Len(q) : q[i] = q[j] => i = j

LEMMA ListLists ==
    ASSUME NEW R, NEW X, IsFiniteSet(X), Orders(R, X)
    PROVE  Lists(List(R, X), X)
<1> DEFINE q == List(R, X)
           n == Cardinality(X)
<1>1. /\ q \in Seq(X) /\ Len(q) = n
      /\ \A x \in X : \E i \in 1..n : q[i] = x
      /\ \A i, j \in 1..n : q[i] = q[j] => i = j
  BY ListHasAll
<1> HIDE DEF q, n
<1>2. Lists(q, X)
  BY <1>1 DEF Lists, n
<1> QED BY <1>2 DEF q

LEMMA SortedPaths ==
    ASSUME NEW X \in SUBSET Seq(Seal), IsFiniteSet(X)
    PROVE  Lists(Sorted(X, Before), X)
<1>1. X \in SUBSET Seq(Nat)
  BY SealsAreNumbers
<1>2. Orders(BeforeOn(X), X)
  BY <1>1, PathsAreOrdered
<1>3. \A x \in X : {y \in X : Before(y, x)} = {y \in X : <<y, x>> \in BeforeOn(X)}
  BY DEF BeforeOn
<1>4. \A x \in X : Cardinality({y \in X : Before(y, x)}) = Rank(BeforeOn(X), X, x)
  BY <1>3 DEF Rank
<1> DEFINE a(i) == CHOOSE x \in X : Cardinality({y \in X : Before(y, x)}) = i - 1
           b(i) == CHOOSE x \in X : Rank(BeforeOn(X), X, x) = i - 1
<1>5. \A i : a(i) = b(i)
  BY <1>4
<1>6. Sorted(X, Before) = [i \in 1..Cardinality(X) |-> a(i)]
  BY DEF Sorted
<1>7. List(BeforeOn(X), X) = [i \in 1..Cardinality(X) |-> b(i)]
  BY DEF List
<1> HIDE DEF a, b
<1>8. Sorted(X, Before) = List(BeforeOn(X), X)
  BY <1>5, <1>6, <1>7
<1> QED BY <1>2, <1>8, ListLists

LEMMA SortedPairs ==
    ASSUME NEW X \in SUBSET (Nat \X Nat), IsFiniteSet(X)
    PROVE  Lists(Sorted(X, Lexical), X)
<1>1. ASSUME NEW x \in X
      PROVE  x \in Seq(Nat) /\ DOMAIN x = 1..2 /\ x = <<x[1], x[2]>>
  <2>1. PICK m \in Nat, n \in Nat : x = <<m, n>>
    BY <1>1
  <2>2. <<m, n>> \in Seq(Nat) /\ DOMAIN <<m, n>> = 1..2
    OBVIOUS
  <2> QED BY <2>1, <2>2
<1>2. Orders(LexicalOn(X), X)
  <2>1. \A x, y \in X : <<x, y>> \in LexicalOn(X) <=> Lexical(x, y)
    BY DEF LexicalOn
  <2>2. \A x \in X : ~Lexical(x, x)
    BY <1>1, LexicalIsStrict
  <2>3. ASSUME NEW x \in X, NEW y \in X, x # y PROVE Lexical(x, y) \/ Lexical(y, x)
    <3>1. \E k \in 1..2 : x[k] # y[k]
      <4> SUFFICES ASSUME x[1] = y[1], x[2] = y[2] PROVE FALSE
        OBVIOUS
      <4> QED BY <1>1, <2>3
    <3>2. PICK k \in DOMAIN x \cap DOMAIN y : x[k] # y[k]
      BY <1>1, <3>1
    <3>3. x \in Seq(Nat) /\ y \in Seq(Nat)
      BY <1>1
    <3> QED BY <3>2, <3>3, LexicalIsTotal
  <2>4. ASSUME NEW x \in X, NEW y \in X, NEW z \in X, Lexical(x, y), Lexical(y, z) PROVE Lexical(x, z)
    <3>1. x \in Seq(Nat) /\ y \in Seq(Nat) /\ z \in Seq(Nat)
      BY <1>1
    <3> QED BY <3>1, <2>4, LexicalIsTransitive
  <2> QED BY <2>1, <2>2, <2>3, <2>4 DEF Orders
<1>3. \A x \in X : {y \in X : Lexical(y, x)} = {y \in X : <<y, x>> \in LexicalOn(X)}
  BY DEF LexicalOn
<1>4. \A x \in X : Cardinality({y \in X : Lexical(y, x)}) = Rank(LexicalOn(X), X, x)
  BY <1>3 DEF Rank
<1> DEFINE a(i) == CHOOSE x \in X : Cardinality({y \in X : Lexical(y, x)}) = i - 1
           b(i) == CHOOSE x \in X : Rank(LexicalOn(X), X, x) = i - 1
<1>5. \A i : a(i) = b(i)
  BY <1>4
<1>6. Sorted(X, Lexical) = [i \in 1..Cardinality(X) |-> a(i)]
  BY DEF Sorted
<1>7. List(LexicalOn(X), X) = [i \in 1..Cardinality(X) |-> b(i)]
  BY DEF List
<1> HIDE DEF a, b
<1>8. Sorted(X, Lexical) = List(LexicalOn(X), X)
  BY <1>5, <1>6, <1>7
<1> QED BY <1>2, <1>8, ListLists

-----------------------------------------------------------------------------
(* The closure of trace compare: what a Seal names is visited, each naming *)
(* once.                                                                   *)
PairsNamed(s) == UNION {{l.target} \X ({0} \cup l.previous) : l \in body[s].links}
NamingsIn(N)  == UNION {UNION {{s} \X {l.target} \X ({0} \cup l.previous) : l \in body[s].links} : s \in N}
Followed(s)   == G!Targets(s) \cup G!Asserted(s)

LEMMA PairsAre ==
    ASSUME Built, NEW s \in Seal
    PROVE  /\ PairsNamed(s) \in SUBSET (Nat \X Nat) /\ IsFiniteSet(PairsNamed(s))
           /\ \A e \in PairsNamed(s) : (IF e[2] = 0 THEN e[1] ELSE e[2]) \in Followed(s) /\ e = <<e[1], e[2]>>
           /\ \A t \in Followed(s) : t \in Seal /\ \E e \in PairsNamed(s) : t = IF e[2] = 0 THEN e[1] ELSE e[2]
<1>1. /\ body[s].links \in SUBSET [target : Seal, previous : SUBSET Seal]
      /\ Seal \subseteq Nat /\ IsFiniteSet(Seal) /\ 0 \notin Seal
  BY LinksAre, SealsAreNumbers, StoredAssumption
<1>2. \A e : e \in PairsNamed(s) <=>
             \E l \in body[s].links : \E p \in {0} \cup l.previous : e = <<l.target, p>>
  <2>1. \A e : e \in PairsNamed(s) <=> \E l \in body[s].links : e \in {l.target} \X ({0} \cup l.previous)
    BY DEF PairsNamed
  <2> DEFINE In(e, l) == e \in {l.target} \X ({0} \cup l.previous)
             Is(e, l) == \E p \in {0} \cup l.previous : e = <<l.target, p>>
  <2>2. ASSUME NEW e, NEW l PROVE In(e, l) <=> Is(e, l)
    <3> DEFINE P == {0} \cup l.previous
    <3>1. ASSUME e \in {l.target} \X P PROVE \E p \in P : e = <<l.target, p>>
      <4> HIDE DEF P
      <4>1. PICK a \in {l.target}, b \in P : e = <<a, b>>
        BY <3>1
      <4> QED BY <4>1
    <3>2. ASSUME NEW p \in P, e = <<l.target, p>> PROVE e \in {l.target} \X P
      <4> HIDE DEF P
      <4> QED BY <3>2
    <3> QED BY <3>1, <3>2
  <2>3. \A e : e \in PairsNamed(s) <=> \E l \in body[s].links : In(e, l)
    BY <2>1
  <2> HIDE DEF In, Is
  <2>4. \A e : e \in PairsNamed(s) <=> \E l \in body[s].links : Is(e, l)
    BY <2>2, <2>3
  <2> QED BY <2>4 DEF Is
<1>3. \A t : t \in Followed(s) <=> \E l \in body[s].links : t = l.target \/ t \in l.previous
  BY DEF Followed, G!Targets, G!Asserted
<1>4. PairsNamed(s) \in SUBSET (Seal \X (Seal \cup {0}))
  BY <1>1, <1>2
<1>5. PairsNamed(s) \in SUBSET (Nat \X Nat)
  <2>1. ASSUME NEW e \in Seal \X (Seal \cup {0}) PROVE e \in Nat \X Nat
    <3>1. PICK a \in Seal, b \in Seal \cup {0} : e = <<a, b>>
      BY <2>1
    <3> QED BY <1>1, <3>1
  <2> QED BY <1>4, <2>1
<1>6. IsFiniteSet(PairsNamed(s))
  <2>1. IsFiniteSet(Seal \cup {0})
    BY <1>1, FS_AddElement
  <2>2. IsFiniteSet(Seal \X (Seal \cup {0}))
    BY <1>1, <2>1, FS_Product
  <2> QED BY <1>4, <2>2, FS_Subset
<1>7. ASSUME NEW e \in PairsNamed(s)
      PROVE  (IF e[2] = 0 THEN e[1] ELSE e[2]) \in Followed(s) /\ e = <<e[1], e[2]>>
  <2>1. PICK l \in body[s].links : \E p \in {0} \cup l.previous : e = <<l.target, p>>
    BY <1>2
  <2>2. PICK p \in {0} \cup l.previous : e = <<l.target, p>>
    BY <2>1
  <2> QED BY <2>2, <1>3
<1>8. ASSUME NEW t \in Followed(s)
      PROVE  t \in Seal /\ \E e \in PairsNamed(s) : t = IF e[2] = 0 THEN e[1] ELSE e[2]
  <2>1. PICK l \in body[s].links : t = l.target \/ t \in l.previous
    BY <1>3
  <2>2. l.target \in Seal /\ l.previous \in SUBSET Seal
    BY <1>1
  <2>3. CASE t = l.target
    <3>1. <<t, 0>> \in PairsNamed(s)
      BY <1>2, <2>3
    <3> QED BY <2>2, <2>3, <3>1
  <2>4. CASE t \in l.previous
    <3>1. <<l.target, t>> \in PairsNamed(s) /\ t # 0
      BY <1>1, <1>2, <2>2, <2>4
    <3> QED BY <2>2, <2>4, <3>1
  <2> QED BY <2>1, <2>3, <2>4
<1> QED BY <1>5, <1>6, <1>7, <1>8

LEMMA NamedIs ==
    ASSUME Built, NEW s \in Seal
    PROVE  /\ Named(s) \in Seq(Followed(s)) /\ Len(Named(s)) = Cardinality(PairsNamed(s))
           /\ \A t \in Followed(s) : \E i \in 1..Len(Named(s)) : Named(s)[i] = t
<1> DEFINE X == PairsNamed(s)
           list == Sorted(X, Lexical)
           of(e) == IF e[2] = 0 THEN e[1] ELSE e[2]
           q == [i \in DOMAIN list |-> of(list[i])]
<1>1. Named(s) = q
  BY DEF Named, PairsNamed
<1>2. Lists(list, X)
  BY PairsAre, SortedPairs
<1>3. /\ \A e \in X : of(e) \in Followed(s)
      /\ \A t \in Followed(s) : \E e \in X : t = of(e)
  BY PairsAre
<1>4. Len(list) \in Nat /\ DOMAIN list = 1..Len(list) /\ \A i \in 1..Len(list) : list[i] \in X
  <2> HIDE DEF list, X
  <2> QED BY <1>2 DEF Lists
<1> HIDE DEF of, X, list
<1>5. q \in [1..Len(list) -> Followed(s)]
  BY <1>3, <1>4
<1>6. q \in Seq(Followed(s)) /\ Len(q) = Len(list)
  <2> HIDE DEF q
  <2>1. q \in Seq(Followed(s))
    BY <1>4, <1>5 DEF Seq
  <2> QED BY <2>1, <1>4, <1>5
<1>7. \A t \in Followed(s) : \E i \in 1..Len(list) : q[i] = t
  BY <1>2, <1>3, <1>4 DEF Lists
<1> HIDE DEF q
<1>8. Len(q) = Cardinality(X)
  BY <1>2, <1>6 DEF Lists
<1> QED BY <1>1, <1>6, <1>7, <1>8 DEF X

LEMMA NamingsCount ==
    ASSUME Built, NEW N \in SUBSET Seal
    PROVE  /\ IsFiniteSet(NamingsIn(N)) /\ Cardinality(NamingsIn(N)) \in Nat
           /\ \A M \in SUBSET N : Cardinality(NamingsIn(M)) <= Cardinality(NamingsIn(N))
           /\ \A s \in Seal \ N : /\ Cardinality(PairsNamed(s)) \in Nat
                                  /\ Cardinality(NamingsIn(N \cup {s}))
                                         = Cardinality(NamingsIn(N)) + Cardinality(PairsNamed(s))
<1>1. ASSUME NEW s \in Seal
      PROVE  IsFiniteSet(NamingsIn({s})) /\ Cardinality(NamingsIn({s})) = Cardinality(PairsNamed(s))
  <2> DEFINE X == PairsNamed(s)
             f == [e \in X |-> <<s, e[1], e[2]>>]
  <2>1. IsFiniteSet(X) /\ \A e \in X : e = <<e[1], e[2]>>
    BY PairsAre
  <2>2. NamingsIn({s}) = {f[e] : e \in X}
    <3>1. ASSUME NEW x \in NamingsIn({s}) PROVE \E e \in X : f[e] = x
      <4>1. PICK l \in body[s].links : x \in {s} \X {l.target} \X ({0} \cup l.previous)
        BY DEF NamingsIn
      <4>2. PICK p \in {0} \cup l.previous : x = <<s, l.target, p>>
        BY <4>1
      <4>3. <<l.target, p>> \in X
        BY DEF PairsNamed
      <4>4. f[<<l.target, p>>] = x
        BY <4>2, <4>3
      <4> QED BY <4>3, <4>4
    <3>2. ASSUME NEW e \in X PROVE f[e] \in NamingsIn({s})
      <4>1. PICK l \in body[s].links : e \in {l.target} \X ({0} \cup l.previous)
        BY DEF PairsNamed
      <4>2. <<s, e[1], e[2]>> \in {s} \X {l.target} \X ({0} \cup l.previous)
        BY <4>1
      <4>3. <<s, e[1], e[2]>> \in NamingsIn({s})
        BY <4>2 DEF NamingsIn
      <4> QED BY <4>3
    <3> HIDE DEF f, X
    <3> QED BY <3>1, <3>2
  <2>3. \A x, y \in X : f[x] = f[y] => x = y
    <3> SUFFICES ASSUME NEW x \in X, NEW y \in X, f[x] = f[y] PROVE x = y
      OBVIOUS
    <3>1. x[1] = y[1] /\ x[2] = y[2]
      OBVIOUS
    <3> HIDE DEF X, f
    <3> QED BY <2>1, <3>1
  <2>4. f = [e \in X |-> f[e]]
    OBVIOUS
  <2> HIDE DEF f, X
  <2>5. IsFiniteSet({f[e] : e \in X}) /\ Cardinality({f[e] : e \in X}) = Cardinality(X)
    BY <2>1, <2>3, <2>4, OneByOne, ImageIsFinite
  <2> QED BY <2>2, <2>5 DEF X
<1>2. ASSUME NEW M \in SUBSET Seal PROVE IsFiniteSet(NamingsIn(M))
  <2> DEFINE f == [s \in M |-> NamingsIn({s})]
             F == {f[s] : s \in M}
  <2>1. IsFiniteSet(M)
    BY SealsAreNumbers, FS_Subset
  <2>2. IsFiniteSet(F)
    <3> HIDE DEF f
    <3> QED BY <2>1, ImageIsFinite
  <2>3. \A T \in F : IsFiniteSet(T)
    BY <1>1
  <2>4. NamingsIn(M) = UNION F
    <3>1. UNION F = UNION {NamingsIn({s}) : s \in M}
      OBVIOUS
    <3> HIDE DEF F
    <3> QED BY <3>1 DEF NamingsIn
  <2> HIDE DEF F
  <2> QED BY <2>2, <2>3, <2>4, FS_UNION
<1>3. IsFiniteSet(NamingsIn(N)) /\ Cardinality(NamingsIn(N)) \in Nat
  BY <1>2, FS_CardinalityType
<1>4. ASSUME NEW M \in SUBSET N PROVE Cardinality(NamingsIn(M)) <= Cardinality(NamingsIn(N))
  <2>1. NamingsIn(M) \subseteq NamingsIn(N)
    BY DEF NamingsIn
  <2> QED BY <2>1, <1>3, FS_Subset
<1>5. ASSUME NEW s \in Seal \ N
      PROVE  /\ Cardinality(PairsNamed(s)) \in Nat
             /\ Cardinality(NamingsIn(N \cup {s})) = Cardinality(NamingsIn(N)) + Cardinality(PairsNamed(s))
  <2> DEFINE A == NamingsIn(N)
             B == NamingsIn({s})
  <2>1. IsFiniteSet(A) /\ IsFiniteSet(B) /\ Cardinality(B) = Cardinality(PairsNamed(s))
    BY <1>1, <1>3
  <2>2. NamingsIn(N \cup {s}) = A \cup B
    BY DEF NamingsIn
  <2>3. A \cap B = {}
    <3> SUFFICES ASSUME NEW x \in A, x \in B PROVE FALSE
      OBVIOUS
    <3>1. PICK u \in N : \E l \in body[u].links : x \in {u} \X {l.target} \X ({0} \cup l.previous)
      BY DEF NamingsIn
    <3>2. x[1] = u
      BY <3>1
    <3>3. x[1] = s
      BY DEF NamingsIn
    <3> QED BY <3>2, <3>3
  <2> HIDE DEF A, B
  <2>4. /\ Cardinality(A) \in Nat /\ Cardinality(B) \in Nat
        /\ Cardinality(A \cup B) = Cardinality(A) + Cardinality(B) - Cardinality(A \cap B)
    BY <2>1, FS_CardinalityType, FS_Union
  <2>5. Cardinality(A \cup B) = Cardinality(A) + Cardinality(B)
    BY <2>3, <2>4, FS_EmptySet
  <2> QED BY <2>1, <2>2, <2>4, <2>5 DEF A
<1> QED BY <1>3, <1>4, <1>5

(* The queue that a closure begins with has the head of every REF. *)
LEMMA HeadIDsAre ==
    ASSUME Built
    PROVE  /\ HeadIDs \in Seq(graph.heads) /\ Len(HeadIDs) = Cardinality(DOMAIN refs)
           /\ Cardinality(DOMAIN refs) \in Nat
           /\ \A s \in graph.heads : \E i \in 1..Len(HeadIDs) : HeadIDs[i] = s
<1> DEFINE R == DOMAIN refs
           f == [r \in R |-> <<refs[r], r>>]
           X == {f[r] : r \in R}
           list == Sorted(X, Lexical)
           q == [i \in DOMAIN list |-> list[i][1]]
<1>1. IsFiniteSet(R) /\ R \in SUBSET Nat /\ refs \in [R -> Seal] /\ Seal \in SUBSET Nat
  BY StoredAssumption DEF Built
<1>2. {<<refs[r], r>> : r \in DOMAIN refs} = X
  OBVIOUS
<1>3. HeadIDs = q
  BY <1>2 DEF HeadIDs
<1>4. \A x \in X : x \in Nat \X Nat /\ x[1] \in graph.heads
  BY <1>1, GraphFacts
<1>5. IsFiniteSet(X) /\ Cardinality(X) = Cardinality(R) /\ Cardinality(R) \in Nat
  <2>1. \A r, t \in R : f[r] = f[t] => r = t
    <3> SUFFICES ASSUME NEW r \in R, NEW t \in R, f[r] = f[t] PROVE r = t
      OBVIOUS
    <3>1. f[r][2] = r /\ f[t][2] = t
      OBVIOUS
    <3> HIDE DEF f, R
    <3> QED BY <3>1
  <2>2. f = [r \in R |-> f[r]]
    OBVIOUS
  <2> HIDE DEF f, R
  <2> QED BY <1>1, <2>1, <2>2, OneByOne, ImageIsFinite, FS_CardinalityType
<1>6. \A s \in graph.heads : \E x \in X : x[1] = s
  <2> SUFFICES ASSUME NEW s \in graph.heads PROVE \E x \in X : x[1] = s
    OBVIOUS
  <2>1. PICK r \in R : s = refs[r]
    BY GraphFacts
  <2>2. f[r] \in X /\ f[r][1] = s
    BY <2>1
  <2> QED BY <2>2
<1> HIDE DEF X, R
<1>7. Lists(list, X)
  BY <1>4, <1>5, SortedPairs
<1>8. Len(list) \in Nat /\ DOMAIN list = 1..Len(list) /\ \A i \in 1..Len(list) : list[i] \in X
  <2> HIDE DEF list
  <2> QED BY <1>7 DEF Lists
<1> HIDE DEF list
<1>9. q \in [1..Len(list) -> graph.heads]
  BY <1>4, <1>8
<1>10. q \in Seq(graph.heads) /\ Len(q) = Len(list)
  <2> HIDE DEF q
  <2>1. q \in Seq(graph.heads)
    BY <1>8, <1>9 DEF Seq
  <2> QED BY <2>1, <1>8, <1>9
<1>11. \A s \in graph.heads : \E i \in 1..Len(list) : q[i] = s
  <2> SUFFICES ASSUME NEW s \in graph.heads PROVE \E i \in 1..Len(list) : q[i] = s
    OBVIOUS
  <2>1. PICK x \in X : x[1] = s
    BY <1>6
  <2>2. PICK i \in 1..Len(list) : list[i] = x
    BY <1>7 DEF Lists
  <2>3. q[i] = s
    BY <1>8, <2>1, <2>2
  <2> QED BY <2>3
<1> HIDE DEF q
<1>12. Len(q) = Cardinality(R)
  BY <1>5, <1>7, <1>10 DEF Lists
<1> QED BY <1>3, <1>5, <1>10, <1>11, <1>12 DEF R

(* What the searches of trace compare move in. *)
ScopeOf(c) == G!Nodes(graph.heads \cup {c})
Known == [heads |-> graph.heads, steps |-> CauseSteps,
          follows |-> [s \in Seal |-> Followed(s)], scope |-> [c \in Seal |-> ScopeOf(c)],
          cost |-> [N \in SUBSET Seal |-> 1 + Cardinality(DOMAIN refs) + Cardinality(NamingsIn(N))]]
UpPaths(k, c)   == Along(k.steps, c)
DownPaths(k, c) == Toward(k.steps, k.scope[c], c)
Price(k, c)      == k.cost[k.scope[c]]

(* The closure: a Seal that should be in it is there or queued, and a      *)
(* visit is due for every naming.                                          *)
Closing(t, k) ==
    /\ t.queue \in Seq(k.scope[t.center]) /\ t.nodes \in SUBSET k.scope[t.center]
    /\ \A s \in k.heads \cup {t.center} \cup UNION {k.follows[n] : n \in t.nodes} :
          s \in t.nodes \/ \E i \in 1..Len(t.queue) : t.queue[i] = s
    /\ t.used + Len(t.queue) = k.cost[t.nodes]
    /\ t.up = {} /\ t.down = {} /\ t.closed = FALSE /\ t.complete = TRUE

(* Nothing is searched once the closure took all visits. *)
CutShort(t, k) ==
    /\ t.closed = FALSE /\ t.complete = FALSE /\ t.used = t.max /\ Price(k, t.center) > t.max
    /\ t.up = {} /\ t.down = {} /\ Len(t.queue) >= 1

GoingUp(t, k) ==
    /\ t.closed = TRUE /\ t.complete = TRUE /\ t.nodes = k.scope[t.center] /\ t.down = {}
    /\ Searching(UpPaths(k, t.center), Onward(k.steps, t.center), <<t.center>>,
                 t.up, t.queue, t.used - Price(k, t.center))

GoingDown(t, k) ==
    /\ t.closed = TRUE /\ t.complete = TRUE /\ t.nodes = k.scope[t.center]
    /\ t.up = UpPaths(k, t.center) \ {<<t.center>>}
    /\ Searching(DownPaths(k, t.center), Backward(k.steps, k.scope[t.center], t.center), <<t.center>>,
                 t.down, t.queue, t.used - Price(k, t.center) - Cardinality(UpPaths(k, t.center)))

(* The search upwards took all visits. *)
HalfWay(t, k) ==
    /\ t.closed = TRUE /\ t.complete = FALSE /\ t.nodes = k.scope[t.center]
    /\ t.up \in SUBSET (UpPaths(k, t.center) \ {<<t.center>>}) /\ t.down = {}
    /\ t.used = t.max /\ Price(k, t.center) <= t.max /\ Len(t.queue) >= 1
    /\ Price(k, t.center) + Cardinality(UpPaths(k, t.center)) > t.max

Trailing(t, k) ==
    /\ DOMAIN t = {"phase", "center", "max", "used", "closed", "complete", "nodes", "up", "down", "queue"}
    /\ t.center \in Seal /\ t.max \in Nat /\ t.used \in Nat /\ t.used <= t.max
    /\ \/ t.phase = "closure" /\ Closing(t, k)
       \/ t.phase = "up" /\ (CutShort(t, k) \/ GoingUp(t, k))
       \/ t.phase = "down" /\ (CutShort(t, k) \/ HalfWay(t, k) \/ GoingDown(t, k))

LEMMA ScopeFacts ==
    ASSUME Built, NEW c \in Seal
    PROVE  /\ ScopeOf(c) \in SUBSET Seal /\ c \in ScopeOf(c) /\ graph.heads \subseteq ScopeOf(c)
           /\ \A s \in Seal : Followed(s) \in SUBSET Seal /\ G!Targets(s) \subseteq Followed(s)
           /\ \A s \in ScopeOf(c) : Followed(s) \subseteq ScopeOf(c)
           /\ \A S \in SUBSET Seal :
                 c \in S /\ graph.heads \subseteq S /\ (\A s \in S : Followed(s) \subseteq S) => ScopeOf(c) \subseteq S
<1> DEFINE E == UNION {{s} \X Followed(s) : s \in Seal}
           T == graph.heads \cup {c}
<1>1. T \in SUBSET Seal
  BY GraphFacts
<1>2. ScopeOf(c) = G!Reach(E, T)
  BY DEF ScopeOf, G!Nodes, Followed
<1>3. ASSUME NEW s \in Seal PROVE Followed(s) \in SUBSET Seal /\ G!Targets(s) \subseteq Followed(s)
  BY PairsAre DEF Followed
<1>4. \A e : e \in E <=> \E s \in Seal : \E t \in Followed(s) : e = <<s, t>>
  OBVIOUS
<1> HIDE DEF E, T
<1>5. ScopeOf(c) \in SUBSET Seal /\ T \subseteq ScopeOf(c)
  BY <1>1, <1>2, ReachStarts
<1>6. ASSUME NEW s \in ScopeOf(c), NEW t \in Followed(s) PROVE t \in ScopeOf(c)
  <2>1. s \in Seal /\ t \in Seal
    BY <1>3, <1>5
  <2>2. <<s, t>> \in E
    BY <1>4, <2>1
  <2> QED BY <1>2, <2>1, <2>2, ReachCloses
<1>7. ASSUME NEW S \in SUBSET Seal, c \in S, graph.heads \subseteq S, \A s \in S : Followed(s) \subseteq S
      PROVE  ScopeOf(c) \subseteq S
  <2>1. T \subseteq S
    BY <1>7 DEF T
  <2>2. \A e \in E : e[1] \in S => e[2] \in S
    BY <1>4, <1>7
  <2> QED BY <1>2, <2>1, <2>2, ReachIsLeast
<1>8. c \in T /\ graph.heads \subseteq T
  BY DEF T
<1> QED BY <1>3, <1>5, <1>6, <1>7, <1>8

(* The same in terms of what is known. *)
LEMMA KnownFacts ==
    ASSUME Built, NEW k, k = Known, NEW c \in Seal
    PROVE  /\ k.heads = graph.heads /\ k.heads \in SUBSET Seal
           /\ k.steps = CauseSteps /\ k.steps \in Walks /\ Ends(k.steps)
           /\ k.scope[c] = ScopeOf(c) /\ k.scope[c] \in SUBSET Seal
           /\ c \in k.scope[c] /\ k.heads \subseteq k.scope[c]
           /\ \A s \in Seal : k.follows[s] = Followed(s) /\ k.follows[s] \in SUBSET Seal /\ k.steps[s] \subseteq k.follows[s]
           /\ \A s \in k.scope[c] : k.follows[s] \subseteq k.scope[c] /\ k.steps[s] \subseteq k.scope[c]
           /\ \A N \in SUBSET Seal :
                 /\ k.cost[N] = 1 + Cardinality(DOMAIN refs) + Cardinality(NamingsIn(N)) /\ k.cost[N] \in Nat
                 /\ N \subseteq k.scope[c] => k.cost[N] <= Price(k, c)
           /\ Price(k, c) \in Nat
<1>1. /\ k.heads = graph.heads /\ k.steps = CauseSteps
      /\ k.follows = [s \in Seal |-> Followed(s)] /\ k.scope = [d \in Seal |-> ScopeOf(d)]
      /\ k.cost = [N \in SUBSET Seal |-> 1 + Cardinality(DOMAIN refs) + Cardinality(NamingsIn(N))]
  BY DEF Known
<1>2. k.heads \in SUBSET Seal /\ k.steps \in Walks /\ Ends(k.steps)
  BY <1>1, GraphFacts, CausesEnd
<1>3. k.scope[c] = ScopeOf(c) /\ k.scope[c] \in SUBSET Seal /\ c \in k.scope[c] /\ k.heads \subseteq k.scope[c]
  BY <1>1, ScopeFacts
<1>4. ASSUME NEW s \in Seal
      PROVE  k.follows[s] = Followed(s) /\ k.follows[s] \in SUBSET Seal /\ k.steps[s] \subseteq k.follows[s]
  BY <1>1, ScopeFacts, CausesEnd
<1>5. ASSUME NEW s \in k.scope[c] PROVE k.follows[s] \subseteq k.scope[c] /\ k.steps[s] \subseteq k.scope[c]
  <2>1. s \in Seal /\ Followed(s) \subseteq ScopeOf(c)
    BY <1>3, ScopeFacts
  <2> QED BY <2>1, <1>3, <1>4
<1>6. Cardinality(DOMAIN refs) \in Nat
  BY HeadIDsAre
<1>7. ASSUME NEW N \in SUBSET Seal
      PROVE  /\ k.cost[N] = 1 + Cardinality(DOMAIN refs) + Cardinality(NamingsIn(N)) /\ k.cost[N] \in Nat
             /\ \A M \in SUBSET N : k.cost[M] <= k.cost[N]
  <2>1. Cardinality(NamingsIn(N)) \in Nat /\ k.cost[N] = 1 + Cardinality(DOMAIN refs) + Cardinality(NamingsIn(N))
    BY <1>1, NamingsCount
  <2>2. ASSUME NEW M \in SUBSET N PROVE k.cost[M] <= k.cost[N]
    <3>1. M \in SUBSET Seal
      OBVIOUS
    <3>2. Cardinality(NamingsIn(M)) \in Nat /\ Cardinality(NamingsIn(M)) <= Cardinality(NamingsIn(N))
      BY <3>1, NamingsCount
    <3>3. k.cost[M] = 1 + Cardinality(DOMAIN refs) + Cardinality(NamingsIn(M))
      BY <1>1, <3>1
    <3> QED BY <1>6, <2>1, <3>2, <3>3
  <2> QED BY <1>6, <2>1, <2>2
<1>8. Price(k, c) \in Nat /\ \A N \in SUBSET Seal : N \subseteq k.scope[c] => k.cost[N] <= Price(k, c)
  BY <1>3, <1>7 DEF Price
<1> QED BY <1>1, <1>2, <1>3, <1>4, <1>5, <1>7, <1>8

LEMMA UpIsRooted ==
    ASSUME Built, NEW k, k = Known, NEW c \in Seal
    PROVE  /\ Rooted(UpPaths(k, c), Onward(k.steps, c), <<c>>)
           /\ Rooted(DownPaths(k, c), Backward(k.steps, k.scope[c], c), <<c>>)
           /\ IsFiniteSet(UpPaths(k, c)) /\ Cardinality(UpPaths(k, c)) \in Nat
           /\ IsFiniteSet(DownPaths(k, c)) /\ Cardinality(DownPaths(k, c)) \in Nat
<1>1. /\ k.steps \in Walks /\ Ends(k.steps) /\ k.scope[c] \in SUBSET Seal /\ c \in k.scope[c]
      /\ \A s \in k.scope[c] : k.steps[s] \subseteq k.scope[c]
  BY KnownFacts
<1>2. Rooted(UpPaths(k, c), Onward(k.steps, c), <<c>>)
  BY <1>1, OnwardIsRooted DEF UpPaths
<1>3. Rooted(DownPaths(k, c), Backward(k.steps, k.scope[c], c), <<c>>)
  BY <1>1, BackwardIsRooted DEF DownPaths
<1>4. IsFiniteSet(UpPaths(k, c)) /\ IsFiniteSet(DownPaths(k, c))
  BY <1>2, <1>3 DEF Rooted
<1> QED BY <1>2, <1>3, <1>4, FS_CardinalityType

(* One visit of the closure. *)
LEMMA ClosureGoesOn ==
    ASSUME Built, NEW k, k = Known, NEW t, NEW u, t.center \in Seal, t.used \in Nat,
           Closing(t, k), Len(t.queue) >= 1,
           u.center = t.center, u.used = t.used + 1, u.nodes = t.nodes \cup {t.queue[1]},
           u.queue = Tail(t.queue) \o (IF t.queue[1] \in t.nodes THEN <<>> ELSE Named(t.queue[1])),
           u.up = t.up, u.down = t.down, u.closed = t.closed, u.complete = t.complete
    PROVE  Closing(u, k)
<1> DEFINE c == t.center
           s == t.queue[1]
           R == k.scope[c]
           tail == Tail(t.queue)
           list == IF s \in t.nodes THEN <<>> ELSE Named(s)
           Q == tail \o list
           N == t.nodes
<1>1. /\ t.queue \in Seq(R) /\ N \in SUBSET R
      /\ \A x \in k.heads \cup {c} \cup UNION {k.follows[n] : n \in N} :
            x \in N \/ \E i \in 1..Len(t.queue) : t.queue[i] = x
      /\ t.used + Len(t.queue) = k.cost[N]
      /\ t.up = {} /\ t.down = {} /\ t.closed = FALSE /\ t.complete = TRUE
  BY DEF Closing
<1>2. /\ s \in R /\ tail \in Seq(R) /\ Len(t.queue) \in Nat /\ Len(tail) = Len(t.queue) - 1
      /\ \A i \in 1..(Len(t.queue) - 1) : tail[i] = t.queue[i + 1]
  <2> DEFINE q == t.queue
  <2>1. q \in Seq(R) /\ Len(q) >= 1
    BY <1>1
  <2> HIDE DEF q, R
  <2>2. /\ q[1] \in R /\ Tail(q) \in Seq(R) /\ Len(q) \in Nat /\ Len(Tail(q)) = Len(q) - 1
        /\ \A i \in 1..(Len(q) - 1) : Tail(q)[i] = q[i + 1]
    BY <2>1, Split
  <2> QED BY <2>2 DEF q
<1>3. /\ R \in SUBSET Seal
      /\ \A x \in Seal : k.follows[x] = Followed(x)
      /\ \A x \in R : k.follows[x] \subseteq R
      /\ \A M \in SUBSET Seal :
            /\ k.cost[M] = 1 + Cardinality(DOMAIN refs) + Cardinality(NamingsIn(M)) /\ k.cost[M] \in Nat
  BY KnownFacts
<1>4. /\ list \in Seq(R) /\ Len(list) \in Nat
      /\ s \notin N => \A x \in k.follows[s] : \E i \in 1..Len(list) : list[i] = x
      /\ t.used + 1 + Len(tail) + Len(list) = k.cost[N \cup {s}]
  <2>0. N \in SUBSET Seal /\ s \in Seal
    BY <1>1, <1>2, <1>3
  <2>1. CASE s \in N
    <3>1. list = <<>> /\ N \cup {s} = N
      BY <2>1
    <3>2. <<>> \in Seq(R) /\ Len(<<>>) = 0
      OBVIOUS
    <3>3. list \in Seq(R) /\ Len(list) = 0
      <4> HIDE DEF list
      <4> QED BY <3>1, <3>2
    <3>4. t.used + Len(t.queue) = k.cost[N] /\ Len(t.queue) \in Nat /\ Len(tail) = Len(t.queue) - 1
      BY <1>1, <1>2
    <3> HIDE DEF list, N, tail, s
    <3>5. t.used + 1 + Len(tail) + Len(list) = k.cost[N]
      <4> DEFINE a == Len(tail)
                 m == Len(t.queue)
                 b == Len(list)
                 d == k.cost[N]
      <4>1. t.used + m = d /\ m \in Nat /\ a = m - 1 /\ b = 0
        BY <3>3, <3>4
      <4> HIDE DEF a, m, b, d
      <4> DEFINE w == t.used
      <4>3. w \in Nat /\ w + m = d
        BY <4>1
      <4> HIDE DEF w
      <4>4. w + 1 + a + b = d
        BY <4>1, <4>3
      <4>2. t.used + 1 + a + b = d
        BY <4>4 DEF w
      <4> QED BY <4>2 DEF a, b, d
    <3> QED BY <2>1, <3>1, <3>3, <3>5
  <2>2. CASE s \notin N
    <3>1. list = Named(s)
      BY <2>2
    <3>2. /\ Named(s) \in Seq(Followed(s)) /\ Len(Named(s)) = Cardinality(PairsNamed(s))
          /\ \A x \in Followed(s) : \E i \in 1..Len(Named(s)) : Named(s)[i] = x
      BY <2>0, NamedIs
    <3> HIDE DEF list
    <3>3. Len(list) \in Nat
      BY <3>1, <3>2
    <3>4. list \in Seq(R)
      <4>1. \A i \in 1..Len(list) : list[i] \in R
        <5>1. \A i \in 1..Len(list) : list[i] \in Followed(s)
          BY <3>1, <3>2
        <5> QED BY <5>1, <1>2, <1>3, <2>0
      <4>2. list = [i \in 1..Len(list) |-> list[i]]
        <5>1. list \in Seq(Followed(s))
          BY <3>1, <3>2
        <5> QED BY <5>1
      <4> HIDE DEF R
      <4>3. list \in [1..Len(list) -> R]
        BY <4>1, <4>2
      <4> QED BY <3>3, <4>3 DEF Seq
    <3>5. \A x \in k.follows[s] : \E i \in 1..Len(list) : list[i] = x
      BY <1>3, <2>0, <3>1, <3>2
    <3>6. t.used + 1 + Len(tail) + Len(list) = k.cost[N \cup {s}]
      <4>1. /\ Cardinality(NamingsIn(N)) \in Nat /\ Cardinality(PairsNamed(s)) \in Nat
            /\ Cardinality(NamingsIn(N \cup {s})) = Cardinality(NamingsIn(N)) + Cardinality(PairsNamed(s))
        <5> HIDE DEF N, s
        <5> QED BY <2>0, <2>2, NamingsCount
      <4>2. k.cost[N \cup {s}] = 1 + Cardinality(DOMAIN refs) + Cardinality(NamingsIn(N \cup {s}))
        <5>1. N \cup {s} \in SUBSET Seal
          BY <2>0
        <5> HIDE DEF N, s
        <5> QED BY <1>3, <5>1
      <4>3. Cardinality(DOMAIN refs) \in Nat
        BY HeadIDsAre
      <4>4. k.cost[N] = 1 + Cardinality(DOMAIN refs) + Cardinality(NamingsIn(N))
        <5> HIDE DEF N
        <5> QED BY <1>3, <2>0
      <4>5. Len(list) = Cardinality(PairsNamed(s))
        BY <3>1, <3>2
      <4>6. t.used + Len(t.queue) = k.cost[N] /\ Len(t.queue) \in Nat /\ Len(tail) = Len(t.queue) - 1
        BY <1>1, <1>2
      <4> HIDE DEF N, s, tail, list
      <4> DEFINE a == Cardinality(NamingsIn(N))
                 b == Cardinality(PairsNamed(s))
                 d == Cardinality(DOMAIN refs)
                 m == Len(t.queue)
      <4>7. /\ a \in Nat /\ b \in Nat /\ d \in Nat /\ m \in Nat /\ Len(tail) = m - 1 /\ Len(list) = b
            /\ t.used + m = 1 + d + a /\ k.cost[N \cup {s}] = 1 + d + (a + b)
        BY <4>1, <4>2, <4>3, <4>4, <4>5, <4>6
      <4> HIDE DEF a, b, d, m
      <4> QED BY <4>7
    <3> QED BY <3>3, <3>4, <3>5, <3>6
  <2> QED BY <2>1, <2>2
<1> HIDE DEF list
<1>5. /\ Q \in Seq(R) /\ Len(Q) = Len(tail) + Len(list) /\ Len(tail) \in Nat
      /\ \A i \in 1..Len(tail) : Q[i] = tail[i]
      /\ \A i \in 1..Len(list) : Q[Len(tail) + i] = list[i]
  <2>1. tail \in Seq(R) /\ list \in Seq(R)
    BY <1>2, <1>4
  <2> HIDE DEF tail, R
  <2> QED BY <2>1
<1> HIDE DEF Q
<1>6. ASSUME NEW x, \E i \in 1..Len(t.queue) : t.queue[i] = x
      PROVE  x \in N \cup {s} \/ \E i \in 1..Len(Q) : Q[i] = x
  <2>1. PICK i \in 1..Len(t.queue) : t.queue[i] = x
    BY <1>6
  <2>2. CASE i = 1
    BY <2>1, <2>2
  <2>3. CASE i # 1
    <3>1. i - 1 \in 1..Len(tail) /\ tail[i - 1] = t.queue[(i - 1) + 1] /\ (i - 1) + 1 = i /\ i - 1 \in 1..Len(Q)
      BY <2>3, <1>2, <1>4, <1>5
    <3>2. Q[i - 1] = x
      <4> HIDE DEF tail
      <4> QED BY <3>1, <2>1, <1>5
    <3> QED BY <3>1, <3>2
  <2> QED BY <2>2, <2>3
<1>7. ASSUME NEW x, \E i \in 1..Len(list) : list[i] = x
      PROVE  \E i \in 1..Len(Q) : Q[i] = x
  <2>1. PICK i \in 1..Len(list) : list[i] = x
    BY <1>7
  <2>2. Len(tail) + i \in 1..Len(Q)
    BY <1>4, <1>5
  <2> QED BY <2>1, <2>2, <1>5
<1>8. ASSUME NEW x \in k.heads \cup {c} \cup UNION {k.follows[n] : n \in N \cup {s}}
      PROVE  x \in N \cup {s} \/ \E i \in 1..Len(Q) : Q[i] = x
  <2>1. CASE x \in k.heads \cup {c} \cup UNION {k.follows[n] : n \in N}
    <3>1. x \in N \/ \E i \in 1..Len(t.queue) : t.queue[i] = x
      BY <2>1, <1>1
    <3> QED BY <3>1, <1>6
  <2>2. CASE x \in k.follows[s] /\ s \notin N
    BY <2>2, <1>4, <1>7
  <2> QED BY <2>1, <2>2
<1>9. N \cup {s} \in SUBSET R
  BY <1>1, <1>2
<1>10. t.used + 1 + Len(Q) = k.cost[N \cup {s}]
  <2> HIDE DEF N, s, tail
  <2> QED BY <1>4, <1>5
<1>11. /\ u.center = c /\ u.used = t.used + 1 /\ u.nodes = N \cup {s} /\ u.queue = Q
       /\ u.up = {} /\ u.down = {} /\ u.closed = FALSE /\ u.complete = TRUE
  BY <1>1 DEF Q, list
<1>12. \A x \in k.heads \cup {u.center} \cup UNION {k.follows[n] : n \in u.nodes} :
          x \in u.nodes \/ \E i \in 1..Len(u.queue) : u.queue[i] = x
  <2>1. u.center = c /\ u.nodes = N \cup {s} /\ u.queue = Q
    BY <1>11
  <2> HIDE DEF N, s, c
  <2> QED BY <1>8, <2>1
<1>13. u.queue \in Seq(k.scope[u.center]) /\ u.nodes \in SUBSET k.scope[u.center] /\ u.used + Len(u.queue) = k.cost[u.nodes]
  <2>1. R = k.scope[u.center]
    BY <1>11
  <2> HIDE DEF N, s, c, R
  <2> QED BY <2>1, <1>5, <1>9, <1>10, <1>11
<1> HIDE DEF N, s, c, R
<1> QED BY <1>11, <1>12, <1>13 DEF Closing

LEMMA TrailBegins ==
    ASSUME Built, NEW k, k = Known, NEW u, u.center \in Seal, u.used = 0, u.nodes = {},
           NEW list, list = HeadIDs, u.queue = <<u.center>> \o list,
           u.up = {}, u.down = {}, u.closed = FALSE, u.complete = TRUE
    PROVE  Closing(u, k)
<1> DEFINE c == u.center
           R == k.scope[c]
           Q == <<c>> \o list
<1>1. /\ graph.heads \in SUBSET Seal /\ k.heads = graph.heads /\ c \in R /\ k.heads \subseteq R
      /\ {} \in SUBSET Seal
      /\ k.cost[{}] = 1 + Cardinality(DOMAIN refs) + Cardinality(NamingsIn({}))
  BY KnownFacts
<1>2. /\ list \in Seq(graph.heads) /\ Len(list) = Cardinality(DOMAIN refs) /\ Len(list) \in Nat
      /\ \A s \in graph.heads : \E i \in 1..Len(list) : list[i] = s
  BY HeadIDsAre
<1>3. list \in Seq(R)
  <2>1. \A i \in 1..Len(list) : list[i] \in R
    <3> HIDE DEF R
    <3> QED BY <1>1, <1>2
  <2>2. list = [i \in 1..Len(list) |-> list[i]]
    BY <1>2
  <2> HIDE DEF R
  <2>3. list \in [1..Len(list) -> R]
    BY <2>1, <2>2
  <2> DEFINE n == Len(list)
  <2>4. n \in Nat /\ list \in [1..n -> R]
    BY <1>2, <2>3
  <2> HIDE DEF n
  <2> QED BY <2>4, SeqDef
<1>4. /\ Q \in Seq(R) /\ Len(Q) = Len(list) + 1 /\ Q[1] = c
      /\ \A i \in 1..Len(list) : Q[i + 1] = list[i]
  <2> HIDE DEF R, c
  <2> QED BY <1>1, <1>3, Prefixed
<1> HIDE DEF Q
<1>5. ASSUME NEW s \in k.heads \cup {c} PROVE \E i \in 1..Len(Q) : Q[i] = s
  <2>1. CASE s = c
    <3>1. 1 \in 1..Len(Q)
      BY <1>2, <1>4
    <3> QED BY <2>1, <3>1, <1>4
  <2>2. CASE s \in graph.heads
    <3>1. PICK i \in 1..Len(list) : list[i] = s
      BY <2>2, <1>2
    <3>2. Q[i + 1] = s
      BY <3>1, <1>4
    <3> DEFINE n == Len(list)
               m == Len(Q)
    <3>3. n \in Nat /\ m = n + 1 /\ i \in 1..n
      BY <3>1, <1>2, <1>4
    <3> HIDE DEF n, m
    <3>4. i + 1 \in 1..m
      BY <3>3
    <3>5. i + 1 \in 1..Len(Q)
      BY <3>4 DEF m
    <3> QED BY <3>2, <3>5
  <2> QED BY <2>1, <2>2, <1>1
<1>6. Len(Q) = k.cost[{}] /\ Len(Q) \in Nat
  <2>1. NamingsIn({}) = {}
    BY DEF NamingsIn
  <2>2. Cardinality(NamingsIn({})) = 0
    BY <2>1, FS_EmptySet
  <2> QED BY <2>2, <1>1, <1>2, <1>4
<1>7. u.queue = Q /\ u.center = c
  BY DEF Q
<1>8. \A x \in k.heads \cup {c} \cup UNION {k.follows[n] : n \in {}} : \E i \in 1..Len(Q) : Q[i] = x
  BY <1>5
<1>9. \A x \in k.heads \cup {u.center} \cup UNION {k.follows[n] : n \in u.nodes} :
         x \in u.nodes \/ \E i \in 1..Len(u.queue) : u.queue[i] = x
  <2> HIDE DEF c
  <2> QED BY <1>7, <1>8
<1>10. u.used + Len(u.queue) = k.cost[u.nodes] /\ u.queue \in Seq(k.scope[u.center])
  <2>1. 0 + Len(Q) = k.cost[{}]
    BY <1>6
  <2> QED BY <2>1, <1>4, <1>7
<1> QED BY <1>9, <1>10 DEF Closing

(* The closure that ended is complete, and took one visit for each naming. *)
LEMMA ClosureEnds ==
    ASSUME Built, NEW k, k = Known, NEW t, t.center \in Seal, t.used \in Nat,
           Closing(t, k), t.queue = <<>>
    PROVE  t.nodes = k.scope[t.center] /\ t.used = Price(k, t.center)
<1> DEFINE c == t.center
<1>1. Len(t.queue) = 0 /\ 1..Len(t.queue) = {}
  OBVIOUS
<1>2. /\ t.nodes \in SUBSET k.scope[c] /\ t.used + Len(t.queue) = k.cost[t.nodes]
      /\ \A x \in k.heads \cup {c} \cup UNION {k.follows[n] : n \in t.nodes} : x \in t.nodes
  BY <1>1 DEF Closing
<1>3. /\ k.heads = graph.heads /\ k.scope[c] = ScopeOf(c) /\ k.scope[c] \in SUBSET Seal
      /\ \A s \in Seal : k.follows[s] = Followed(s)
  BY KnownFacts
<1>4. t.nodes \in SUBSET Seal
  BY <1>2, <1>3
<1>5. c \in t.nodes /\ graph.heads \subseteq t.nodes
  BY <1>2, <1>3
<1>6. ASSUME NEW s \in t.nodes PROVE Followed(s) \subseteq t.nodes
  <2>1. \A x \in k.follows[s] : x \in t.nodes
    BY <1>2
  <2> QED BY <2>1, <1>3, <1>4
<1>7. ScopeOf(c) \subseteq t.nodes
  <2> HIDE DEF c
  <2>1. c \in Seal
    BY DEF c
  <2> QED BY <2>1, <1>4, <1>5, <1>6, ScopeFacts
<1>8. t.nodes = k.scope[c]
  BY <1>2, <1>3, <1>7
<1>9. t.used = k.cost[t.nodes]
  <2> DEFINE w == t.used
             d == k.cost[t.nodes]
             n == Len(t.queue)
  <2>1. w \in Nat /\ w + n = d /\ n = 0
    BY <1>1, <1>2
  <2> HIDE DEF w, d, n
  <2>2. w = d
    BY <2>1
  <2> QED BY <2>2 DEF w, d
<1> QED BY <1>8, <1>9 DEF Price

(* One that did not would have taken more. *)
LEMMA ClosureIsShort ==
    ASSUME Built, NEW k, k = Known, NEW t, t.center \in Seal, t.used \in Nat,
           Closing(t, k), t.queue # <<>>
    PROVE  t.used < Price(k, t.center)
<1> DEFINE c == t.center
<1>1. /\ t.nodes \in SUBSET k.scope[c] /\ t.used + Len(t.queue) = k.cost[t.nodes]
      /\ t.queue \in Seq(k.scope[c])
  BY DEF Closing
<1>2. Len(t.queue) \in Nat /\ Len(t.queue) >= 1
  <2> DEFINE q == t.queue
  <2>1. q \in Seq(k.scope[c]) /\ q # <<>>
    BY <1>1
  <2> HIDE DEF q
  <2>2. Len(q) \in Nat /\ Len(q) >= 1
    BY <2>1
  <2> QED BY <2>2 DEF q
<1>3. k.cost[t.nodes] <= Price(k, c) /\ Price(k, c) \in Nat /\ k.cost[t.nodes] \in Nat
  <2>1. k.scope[c] \in SUBSET Seal
    BY KnownFacts
  <2>2. t.nodes \in SUBSET Seal
    BY <1>1, <2>1
  <2> QED BY <1>1, <2>2, KnownFacts
<1> DEFINE w == t.used
           d == k.cost[t.nodes]
           n == Len(t.queue)
           e == Price(k, c)
<1>4. w \in Nat /\ w + n = d /\ n \in Nat /\ n >= 1 /\ d \in Nat /\ e \in Nat /\ d <= e
  BY <1>1, <1>2, <1>3
<1> HIDE DEF w, d, n, e
<1>5. w < e
  BY <1>4
<1> QED BY <1>5 DEF w, e

(* What a visit finds. *)
LEMMA UpIsInScope ==
    ASSUME Built, NEW k, k = Known, NEW c \in Seal, NEW p \in UpPaths(k, c)
    PROVE  \A i \in 1..Len(p) : p[i] \in k.scope[c]
<1>1. /\ k.steps \in Walks /\ k.scope[c] \in SUBSET Seal /\ {c} \in SUBSET k.scope[c]
      /\ \A s \in k.scope[c] : k.steps[s] \subseteq k.scope[c]
  BY KnownFacts
<1>2. p \in Along(k.steps, c) /\ c \in {c} /\ {c} \in SUBSET Seal
  BY DEF UpPaths
<1>3. \A e \in Edges(k.steps) : e[1] \in k.scope[c] => e[2] \in k.scope[c]
  BY <1>1 DEF Edges
<1>4. G!Reach(Edges(k.steps), {c}) \subseteq k.scope[c]
  BY <1>1, <1>3, ReachIsLeast
<1>5. \A i \in 1..Len(p) : p[i] \in G!Reach(Edges(k.steps), {c})
  BY <1>1, <1>2, PathsReach
<1> QED BY <1>4, <1>5

LEMMA ExtendedUp ==
    ASSUME Built, NEW k, k = Known, NEW c \in Seal, NEW p \in UpPaths(k, c),
           trail.phase = "up", trail.nodes = k.scope[c]
    PROVE  Extended(p) = Onward(k.steps, c)[p]
<1>1. /\ k.steps \in Walks /\ Ends(k.steps) /\ k.steps = CauseSteps
      /\ \A s \in k.scope[c] : k.steps[s] \subseteq k.scope[c]
  BY KnownFacts
<1>2. /\ p \in Along(k.steps, c) /\ p \in Seq(Seal) /\ Len(p) \in Nat /\ Len(p) >= 1 /\ End(p) \in Seal
      /\ DOMAIN p = 1..Len(p)
  BY <1>1, AlongFacts DEF UpPaths
<1>3. End(p) \in k.scope[c]
  <2>1. Len(p) \in 1..Len(p)
    BY <1>2
  <2> QED BY <2>1, UpIsInScope DEF End
<1>4. G!Targets(End(p)) = k.steps[End(p)]
  BY <1>1, <1>2, CausesEnd
<1>5. ASSUME NEW t \in k.steps[End(p)], t \in Seals(p) PROVE FALSE
  <2>1. PICK i \in 1..Len(p) : t = p[i]
    BY <1>2, <1>5 DEF Seals
  <2>2. t \in Seal
    BY <1>1, <1>2 DEF Walks
  <2> DEFINE q == Append(p, t)
  <2>3. q \in Along(k.steps, c)
    BY <1>1, <1>2, AlongAppends
  <2>4. Len(q) = Len(p) + 1 /\ q[i] = p[i] /\ q[Len(p) + 1] = t
    BY <1>2, <2>2, AppendProperties
  <2> HIDE DEF q
  <2>5. i \in 1..Len(q) /\ Len(p) + 1 \in 1..Len(q) /\ i < Len(p) + 1
    BY <1>2, <2>4
  <2>6. q[i] # q[Len(p) + 1]
    BY <1>1, <2>3, <2>5, NoReturn
  <2> QED BY <2>1, <2>4, <2>6
<1>6. (G!Targets(End(p)) \cap trail.nodes) \ Seals(p) = k.steps[End(p)]
  BY <1>1, <1>3, <1>4, <1>5
<1>7. Extended(p) = Longer(p, (G!Targets(End(p)) \cap trail.nodes) \ Seals(p))
  BY DEF Extended, Longer
<1>8. Onward(k.steps, c)[p] = Longer(p, k.steps[End(p)])
  BY <1>2 DEF Onward
<1> QED BY <1>6, <1>7, <1>8

LEMMA ExtendedDown ==
    ASSUME Built, NEW k, k = Known, NEW c \in Seal, NEW p \in DownPaths(k, c),
           trail.phase = "down", trail.nodes = k.scope[c]
    PROVE  Extended(p) = Backward(k.steps, k.scope[c], c)[p]
<1>1. k.steps \in Walks /\ Ends(k.steps) /\ k.steps = CauseSteps /\ k.scope[c] \in SUBSET Seal
  BY KnownFacts
<1>2. PICK d \in k.scope[c] : p \in Along(k.steps, d)
  BY DEF DownPaths, Toward
<1>3. /\ p \in Seq(Seal) /\ Len(p) \in Nat /\ Len(p) >= 1 /\ p[1] = d /\ DOMAIN p = 1..Len(p)
  BY <1>1, <1>2, AlongFacts
<1>4. \A n \in k.scope[c] : G!Targets(n) = k.steps[n]
  BY <1>1, CausesEnd
<1>5. ASSUME NEW n \in k.scope[c], p[1] \in k.steps[n], n \in Seals(p) PROVE FALSE
  <2>1. PICK i \in 1..Len(p) : n = p[i]
    BY <1>3, <1>5 DEF Seals
  <2> DEFINE q == <<n>> \o p
  <2>2. n \in Seal /\ p \in Along(k.steps, p[1])
    BY <1>1, <1>2, <1>3
  <2>3. q \in Along(k.steps, n)
    BY <1>1, <1>5, <2>2, AlongGrows
  <2>4. Len(q) = Len(p) + 1 /\ q[1] = n /\ q[i + 1] = p[i]
    BY <1>3, <2>2, Prefixed
  <2> HIDE DEF q
  <2>5. 1 \in 1..Len(q) /\ i + 1 \in 1..Len(q) /\ 1 < i + 1
    BY <1>3, <2>4
  <2>6. q[1] # q[i + 1]
    BY <1>1, <2>3, <2>5, NoReturn
  <2> QED BY <2>1, <2>4, <2>6
<1> DEFINE D == {n \in trail.nodes : p[1] \in G!Targets(n)} \ Seals(p)
           F == {n \in k.scope[c] : p[1] \in k.steps[n]}
<1>6. D = F
  BY <1>4, <1>5
<1>7. Extended(p) = Earlier(p, D)
  BY DEF Extended, Earlier
<1>8. Backward(k.steps, k.scope[c], c)[p] = Earlier(p, F)
  BY DEF Backward, DownPaths
<1> HIDE DEF D, F
<1> QED BY <1>6, <1>7, <1>8

(* The search begins, and each step keeps what is said of it. *)
LEMMA TrailBegun ==
    ASSUME Built, NEW c \in Seal, NEW n \in Budgets, DirectionBegin(c, n)
    PROVE  Trailing(trail', Known)
<1> DEFINE k == Known
           u == trail'
           list == HeadIDs
<1>1. u = [phase |-> "closure", center |-> c, max |-> n, used |-> 0, closed |-> FALSE,
           complete |-> TRUE, nodes |-> {}, up |-> {}, down |-> {}, queue |-> <<c>> \o list]
  BY DEF DirectionBegin
<1>2. list = HeadIDs
  OBVIOUS
<1>3. n \in Nat /\ n >= 0
  BY StoredAssumption
<1> HIDE DEF list
<1>4. /\ DOMAIN u = {"phase", "center", "max", "used", "closed", "complete", "nodes", "up", "down", "queue"}
      /\ u.phase = "closure" /\ u.center = c /\ u.max = n /\ u.used = 0 /\ u.closed = FALSE /\ u.complete = TRUE
      /\ u.nodes = {} /\ u.up = {} /\ u.down = {} /\ u.queue = <<c>> \o list
  BY <1>1
<1> HIDE DEF k, u
<1>5. Closing(u, k)
  <2>1. k = Known
    BY DEF k
  <2> QED BY <1>2, <1>4, <2>1, TrailBegins
<1>6. Trailing(u, k)
  BY <1>3, <1>4, <1>5 DEF Trailing
<1> QED BY <1>6 DEF u, k

LEMMA ClosureVisited ==
    ASSUME Built, Trailing(trail, Known), ClosureVisit
    PROVE  Trailing(trail', Known)
<1> DEFINE k == Known
           t == trail
           u == trail'
           s == t.queue[1]
<1>1. /\ t.phase = "closure" /\ t.queue # <<>> /\ t.used < t.max
      /\ u = [t EXCEPT !.used = t.used + 1, !.nodes = t.nodes \cup {s},
                       !.queue = Tail(t.queue) \o IF s \in t.nodes THEN <<>> ELSE Named(s)]
  BY DEF ClosureVisit, Cost
<1>2. /\ DOMAIN t = {"phase", "center", "max", "used", "closed", "complete", "nodes", "up", "down", "queue"}
      /\ t.center \in Seal /\ t.max \in Nat /\ t.used \in Nat /\ Closing(t, k)
  BY <1>1 DEF Trailing
<1> HIDE DEF s
<1>3. /\ DOMAIN u = {"phase", "center", "max", "used", "closed", "complete", "nodes", "up", "down", "queue"}
      /\ u.phase = t.phase /\ u.center = t.center /\ u.max = t.max /\ u.used = t.used + 1
      /\ u.closed = t.closed /\ u.complete = t.complete
      /\ u.nodes = t.nodes \cup {s} /\ u.up = t.up /\ u.down = t.down
      /\ u.queue = Tail(t.queue) \o IF s \in t.nodes THEN <<>> ELSE Named(s)
  BY <1>1, <1>2
<1>4. Len(t.queue) >= 1
  <2> DEFINE q == t.queue
  <2>1. q \in Seq(k.scope[t.center]) /\ q # <<>>
    BY <1>1, <1>2 DEF Closing
  <2> HIDE DEF q
  <2>2. Len(q) >= 1
    BY <2>1
  <2> QED BY <2>2 DEF q
<1>5. u.used \in Nat /\ u.used <= u.max
  <2> HIDE DEF t, u
  <2> QED BY <1>1, <1>2, <1>3
<1> HIDE DEF k, t, u
<1>6. Closing(u, k)
  <2>1. k = Known
    BY DEF k
  <2> QED BY <1>2, <1>3, <1>4, <2>1, ClosureGoesOn DEF s
<1>7. Trailing(u, k)
  BY <1>1, <1>2, <1>3, <1>5, <1>6 DEF Trailing
<1> QED BY <1>7 DEF u, k

LEMMA Exhausting ==
    ASSUME Trailing(trail, Known), Exhausted
    PROVE  trail.used = trail.max
BY DEF Trailing, Exhausted

LEMMA TrailTurned ==
    ASSUME Built, Trailing(trail, Known), NEW phase, NEW u,
           phase = (IF trail.phase = "closure" THEN "up" ELSE "down"), u = Turn(phase),
           trail.phase \in {"closure", "up"}, trail.queue = <<>> \/ Exhausted
    PROVE  Trailing(u, Known)
<1> DEFINE k == Known
           t == trail
           c == t.center
           one == <<c>>
           Q == <<one>>
<1>1. u = [t EXCEPT !.phase = phase, !.queue = Q, !.complete = t.complete /\ ~Exhausted,
                    !.closed = IF t.phase = "closure" THEN ~Exhausted ELSE t.closed]
  BY DEF Turn
<1>2. /\ DOMAIN t = {"phase", "center", "max", "used", "closed", "complete", "nodes", "up", "down", "queue"}
      /\ c \in Seal /\ t.max \in Nat /\ t.used \in Nat /\ t.used <= t.max
      /\ \/ t.phase = "closure" /\ Closing(t, k)
         \/ t.phase = "up" /\ (CutShort(t, k) \/ GoingUp(t, k))
  BY DEF Trailing
<1>3. Len(Q) = 1
  OBVIOUS
<1> HIDE DEF Q
<1>4. /\ DOMAIN u = {"phase", "center", "max", "used", "closed", "complete", "nodes", "up", "down", "queue"}
      /\ u.phase = phase /\ u.center = c /\ u.max = t.max /\ u.used = t.used
      /\ u.closed = (IF t.phase = "closure" THEN ~Exhausted ELSE t.closed)
      /\ u.complete = (t.complete /\ ~Exhausted)
      /\ u.nodes = t.nodes /\ u.up = t.up /\ u.down = t.down /\ u.queue = Q
  BY <1>1, <1>2
<1>5. k = Known /\ c \in Seal /\ t.used \in Nat
  BY <1>2
<1>6. /\ Rooted(UpPaths(k, c), Onward(k.steps, c), one)
      /\ Rooted(DownPaths(k, c), Backward(k.steps, k.scope[c], c), one)
      /\ Cardinality(UpPaths(k, c)) \in Nat
  BY <1>5, UpIsRooted
<1>7. Price(k, c) \in Nat
  BY <1>5, KnownFacts
<1>8. Exhausted => t.used = t.max /\ t.queue # <<>>
  BY Exhausting DEF Exhausted
<1> HIDE DEF k, c, one
<1>9. ASSUME t.phase = "closure", Closing(t, k)
      PROVE  u.phase = "up" /\ (CutShort(u, k) \/ GoingUp(u, k))
  <2>1. CASE Exhausted
    <3>1. t.used < Price(k, c)
      BY <1>5, <1>8, <1>9, <2>1, ClosureIsShort DEF c
    <3>2. t.up = {} /\ t.down = {} /\ t.complete = TRUE
      BY <1>9 DEF Closing
    <3>3. /\ u.closed = FALSE /\ u.complete = FALSE /\ u.used = u.max /\ u.max = t.used /\ u.up = {} /\ u.down = {}
          /\ u.queue = Q /\ u.center = c /\ u.phase = "up"
      BY <1>4, <1>8, <1>9, <2>1, <3>2
    <3> HIDE DEF t
    <3>4. Price(k, u.center) > u.max
      BY <3>1, <3>3, <1>5, <1>7
    <3>5. Len(u.queue) >= 1
      <4>1. u.queue = Q
        BY <3>3
      <4>2. Len(u.queue) = Len(Q)
        BY <4>1
      <4> DEFINE m == Len(Q)
                 n == Len(u.queue)
      <4>3. m = 1 /\ n = m
        BY <4>2, <1>3
      <4> HIDE DEF m, n
      <4>4. n >= 1
        BY <4>3
      <4> QED BY <4>4 DEF n
    <3>6. CutShort(u, k)
      BY <3>3, <3>4, <3>5 DEF CutShort
    <3> QED BY <3>3, <3>6
  <2>2. CASE ~Exhausted
    <3>1. t.nodes = k.scope[c] /\ t.used = Price(k, c)
      BY <1>5, <1>9, <2>2, ClosureEnds DEF c
    <3>2. t.up = {} /\ t.down = {} /\ t.complete = TRUE
      BY <1>9 DEF Closing
    <3>3. /\ u.closed = TRUE /\ u.complete = TRUE /\ u.nodes = k.scope[c] /\ u.used = Price(k, c)
          /\ u.up = {} /\ u.down = {} /\ u.queue = Q /\ u.center = c /\ u.phase = "up"
      BY <1>4, <1>9, <2>2, <3>1, <3>2
    <3>4. Searching(UpPaths(k, c), Onward(k.steps, c), one, {}, Q, 0)
      BY <1>6, SearchBegins DEF Q
    <3>5. u.used - Price(k, c) = 0
      BY <3>3, <1>7
    <3> HIDE DEF t
    <3>6. GoingUp(u, k)
      BY <3>3, <3>4, <3>5 DEF GoingUp, one
    <3> QED BY <3>3, <3>6
  <2> QED BY <2>1, <2>2
<1>10. ASSUME t.phase = "up", CutShort(t, k)
       PROVE  u.phase = "down" /\ CutShort(u, k)
  <2>1. /\ t.closed = FALSE /\ t.complete = FALSE /\ t.used = t.max /\ Price(k, c) > t.max
        /\ t.up = {} /\ t.down = {}
    BY <1>10 DEF CutShort, c
  <2>2. /\ u.closed = FALSE /\ u.complete = FALSE /\ u.used = u.max /\ u.max = t.max
        /\ u.up = {} /\ u.down = {} /\ u.queue = Q /\ u.center = c /\ u.phase = "down"
    BY <1>4, <1>10, <2>1
  <2>3. Price(k, u.center) > u.max /\ u.used = u.max
    BY <2>1, <2>2
  <2>4. u.queue = Q /\ Len(Q) = 1
    BY <2>2, <1>3
  <2> HIDE DEF t, c, Q
  <2>5. Len(u.queue) >= 1
    <3> DEFINE m == Len(u.queue)
    <3>1. m = 1
      BY <2>4
    <3> HIDE DEF m
    <3>2. m >= 1
      BY <3>1
    <3> QED BY <3>2 DEF m
  <2>6. CutShort(u, k)
    BY <2>2, <2>3, <2>5 DEF CutShort
  <2> QED BY <2>2, <2>6
<1>11. ASSUME t.phase = "up", GoingUp(t, k)
       PROVE  u.phase = "down" /\ (HalfWay(u, k) \/ GoingDown(u, k))
  <2> DEFINE n == t.used - Price(k, c)
  <2>1. /\ t.closed = TRUE /\ t.complete = TRUE /\ t.nodes = k.scope[c] /\ t.down = {}
        /\ Searching(UpPaths(k, c), Onward(k.steps, c), one, t.up, t.queue, n)
    BY <1>11 DEF GoingUp, c, one
  <2>2. n \in Nat /\ one \notin t.up /\ t.up \in SUBSET UpPaths(k, c)
    <3> HIDE DEF n, t
    <3>1. n \in Nat /\ one \notin t.up
      BY <2>1, <1>6, DoneIsFinite
    <3>2. t.up \in SUBSET UpPaths(k, c)
      BY <2>1 DEF Searching
    <3> QED BY <3>1, <3>2
  <2>3. t.used = Price(k, c) + n
    <3> DEFINE w == t.used
    <3>1. w \in Nat /\ n = w - Price(k, c)
      BY <1>5
    <3> HIDE DEF w, n
    <3>2. w = Price(k, c) + n
      BY <3>1, <1>7
    <3> QED BY <3>2 DEF w
  <2> HIDE DEF n
  <2>4. CASE Exhausted
    <3>1. Len(t.queue) >= 1
      <4> DEFINE q == t.queue
      <4>1. q \in Seq(UpPaths(k, c)) /\ q # <<>>
        BY <1>8, <2>1, <2>4 DEF Searching
      <4> HIDE DEF q
      <4>2. Len(q) >= 1
        BY <4>1
      <4> QED BY <4>2 DEF q
    <3>2. n < Cardinality(UpPaths(k, c))
      <4> HIDE DEF t
      <4> QED BY <2>1, <3>1, <1>6, SearchIsShort
    <3>3. /\ u.closed = TRUE /\ u.complete = FALSE /\ u.nodes = k.scope[c] /\ u.up = t.up /\ u.down = {}
          /\ u.used = u.max /\ u.max = t.used /\ u.queue = Q /\ u.center = c /\ u.phase = "down"
      BY <1>4, <1>8, <1>11, <2>1, <2>4
    <3> HIDE DEF t
    <3>4. Price(k, c) + Cardinality(UpPaths(k, c)) > u.max /\ Price(k, c) <= u.max
      BY <3>2, <3>3, <2>2, <2>3, <1>6, <1>7
    <3>5. u.up \in SUBSET (UpPaths(k, c) \ {one})
      BY <2>2, <3>3
    <3>6. HalfWay(u, k)
      <4>1. Len(u.queue) >= 1
        <5> DEFINE q == u.queue
        <5>1. q = <<one>>
          BY <3>3 DEF Q
        <5> HIDE DEF q
        <5>2. Len(q) >= 1
          BY <5>1
        <5> QED BY <5>2 DEF q
      <4> QED BY <3>3, <3>4, <3>5, <4>1 DEF HalfWay, one
    <3> QED BY <3>3, <3>6
  <2>5. CASE ~Exhausted
    <3>1. Searching(UpPaths(k, c), Onward(k.steps, c), one, t.up, <<>>, n)
      BY <2>1, <2>5
    <3>2. t.up = UpPaths(k, c) \ {one} /\ n = Cardinality(UpPaths(k, c))
      <4> HIDE DEF t
      <4> QED BY <3>1, <1>6, SearchEnds
    <3>3. /\ u.closed = TRUE /\ u.complete = TRUE /\ u.nodes = k.scope[c] /\ u.up = t.up /\ u.down = {}
          /\ u.used = t.used /\ u.queue = Q /\ u.center = c /\ u.phase = "down"
      BY <1>4, <1>11, <2>1, <2>5
    <3>4. Searching(DownPaths(k, c), Backward(k.steps, k.scope[c], c), one, {}, Q, 0)
      BY <1>6, SearchBegins DEF Q
    <3> HIDE DEF t
    <3>5. u.used - Price(k, c) - Cardinality(UpPaths(k, c)) = 0
      BY <2>3, <3>2, <3>3, <2>2, <1>7
    <3>6. GoingDown(u, k)
      BY <3>2, <3>3, <3>4, <3>5 DEF GoingDown, one
    <3> QED BY <3>3, <3>6
  <2> QED BY <2>4, <2>5
<1> HIDE DEF t
<1>12. u.center \in Seal /\ u.max \in Nat /\ u.used \in Nat /\ u.used <= u.max
  BY <1>2, <1>4, <1>5
<1>13. Trailing(u, k)
  BY <1>2, <1>4, <1>9, <1>10, <1>11, <1>12 DEF Trailing
<1> QED BY <1>13 DEF k

LEMMA DirectionVisited ==
    ASSUME Built, Trailing(trail, Known), DirectionVisit
    PROVE  Trailing(trail', Known)
<1> DEFINE k == Known
           t == trail
           c == t.center
           one == <<c>>
           u == trail'
           p == t.queue[1]
           found == Extended(p)
           list == Sorted(found, Before)
           tail == Tail(t.queue)
<1>1. /\ t.phase \in {"up", "down"} /\ t.queue # <<>> /\ t.used < t.max
      /\ u = [t EXCEPT !.used = t.used + 1, ![t.phase] = t[t.phase] \cup found, !.queue = tail \o list]
  BY DEF DirectionVisit
<1>2. /\ DOMAIN t = {"phase", "center", "max", "used", "closed", "complete", "nodes", "up", "down", "queue"}
      /\ c \in Seal /\ t.max \in Nat /\ t.used \in Nat
      /\ \/ t.phase = "up" /\ GoingUp(t, k)
         \/ t.phase = "down" /\ GoingDown(t, k)
  BY <1>1 DEF Trailing, CutShort, HalfWay
<1>3. k = Known /\ c \in Seal /\ t.used \in Nat
  BY <1>2
<1>4. /\ Rooted(UpPaths(k, c), Onward(k.steps, c), one)
      /\ Rooted(DownPaths(k, c), Backward(k.steps, k.scope[c], c), one)
      /\ Cardinality(UpPaths(k, c)) \in Nat /\ Price(k, c) \in Nat
      /\ UpPaths(k, c) \in SUBSET Seq(Seal) /\ DownPaths(k, c) \in SUBSET Seq(Seal)
  <2>1. UpPaths(k, c) \in SUBSET Seq(Seal)
    BY DEF UpPaths, Along
  <2>2. DownPaths(k, c) \in SUBSET Seq(Seal)
    BY DEF DownPaths, Toward, Along
  <2> HIDE DEF k, c, one
  <2> QED BY <1>3, <2>1, <2>2, UpIsRooted, KnownFacts DEF one
<1> HIDE DEF k, list
<1>5. ASSUME NEW all, NEW grown, Rooted(all, grown, one), all \in SUBSET Seq(Seal), t.queue \in Seq(all),
             found = grown[p]
      PROVE  Step(grown, t.queue, tail, list)
  <2>1. Len(t.queue) >= 1 /\ p \in all
    <3> DEFINE q == t.queue
    <3>1. q \in Seq(all) /\ q # <<>>
      BY <1>1, <1>5
    <3> HIDE DEF q
    <3>2. Len(q) >= 1 /\ q[1] \in all
      BY <3>1
    <3> QED BY <3>2 DEF q
  <2>2. grown[p] \in SUBSET all /\ IsFiniteSet(all)
    BY <2>1, <1>5 DEF Rooted
  <2>3. found \in SUBSET Seq(Seal) /\ IsFiniteSet(found)
    BY <2>2, <1>5, FS_Subset
  <2>4. Lists(list, found)
    <3> HIDE DEF found
    <3> QED BY <2>3, SortedPaths DEF list
  <2> HIDE DEF found
  <2> QED BY <2>1, <2>4, <1>5 DEF Lists, Step
<1>6. ASSUME t.phase = "up", GoingUp(t, k)
      PROVE  u.phase = "up" /\ GoingUp(u, k) /\ u.center = c /\ u.max = t.max /\ u.used = t.used + 1 /\ DOMAIN u = DOMAIN t
  <2> DEFINE A == UpPaths(k, c)
             g == Onward(k.steps, c)
             n == t.used - Price(k, c)
  <2>1. /\ t.closed = TRUE /\ t.complete = TRUE /\ t.nodes = k.scope[c] /\ t.down = {}
        /\ Searching(A, g, one, t.up, t.queue, n)
    BY <1>6 DEF GoingUp
  <2>2. /\ u.phase = "up" /\ u.center = c /\ u.max = t.max /\ u.used = t.used + 1 /\ DOMAIN u = DOMAIN t
        /\ u.closed = TRUE /\ u.complete = TRUE /\ u.nodes = k.scope[c] /\ u.down = {}
        /\ u.up = t.up \cup found /\ u.queue = tail \o list
    <3> HIDE DEF found, tail
    <3> QED BY <1>1, <1>2, <1>6, <2>1
  <2>3. t.queue \in Seq(A)
    BY <2>1 DEF Searching
  <2>4. p \in A
    <3> DEFINE q == t.queue
    <3>1. q \in Seq(A) /\ q # <<>>
      BY <1>1, <2>3
    <3> HIDE DEF q, A
    <3>2. q[1] \in A
      BY <3>1
    <3> QED BY <3>2 DEF q
  <2>5. found = g[p]
    <3> HIDE DEF c, p
    <3>1. trail.phase = "up" /\ trail.nodes = k.scope[c]
      BY <1>6, <2>1
    <3> QED BY <1>3, <2>4, <3>1, ExtendedUp
  <2>6. Step(g, t.queue, tail, list)
    <3> HIDE DEF A, g, tail, found, p, one
    <3>1. Rooted(A, g, one) /\ A \in SUBSET Seq(Seal)
      BY <1>4 DEF A, g
    <3> QED BY <1>5, <2>3, <2>5, <3>1
  <2> DEFINE up == t.up
             queue == t.queue
  <2>7. Searching(A, g, one, up \cup g[queue[1]], tail \o list, n + 1)
    <3>1. Rooted(A, g, one) /\ Searching(A, g, one, up, queue, n) /\ Step(g, queue, tail, list)
      BY <1>4, <2>1, <2>6
    <3> HIDE DEF A, g, one, up, queue, tail, n
    <3> QED BY <3>1, SearchGoesOn
  <2>8. u.used - Price(k, c) = n + 1
    <3> DEFINE w == t.used
    <3>1. w \in Nat /\ u.used = w + 1 /\ n = w - Price(k, c)
      BY <1>2, <2>2
    <3> HIDE DEF w, n
    <3> QED BY <3>1, <1>4
  <2>9. Searching(A, g, one, u.up, u.queue, u.used - Price(k, c))
    <3>1. u.up = up \cup g[queue[1]]
      BY <2>2, <2>5
    <3> HIDE DEF A, g, one, up, queue, tail, n, found
    <3> QED BY <2>2, <2>7, <2>8, <3>1
  <2>10. GoingUp(u, k)
    <3> HIDE DEF u, t, c, tail, found, p
    <3> QED BY <2>2, <2>9 DEF GoingUp
  <2> QED BY <2>2, <2>10
<1>7. ASSUME t.phase = "down", GoingDown(t, k)
      PROVE  u.phase = "down" /\ GoingDown(u, k) /\ u.center = c /\ u.max = t.max /\ u.used = t.used + 1 /\ DOMAIN u = DOMAIN t
  <2> DEFINE A == DownPaths(k, c)
             g == Backward(k.steps, k.scope[c], c)
             m == Cardinality(UpPaths(k, c))
             n == t.used - Price(k, c) - m
  <2>1. /\ t.closed = TRUE /\ t.complete = TRUE /\ t.nodes = k.scope[c] /\ t.up = UpPaths(k, c) \ {one}
        /\ Searching(A, g, one, t.down, t.queue, n)
    BY <1>7 DEF GoingDown
  <2>2. /\ u.phase = "down" /\ u.center = c /\ u.max = t.max /\ u.used = t.used + 1 /\ DOMAIN u = DOMAIN t
        /\ u.closed = TRUE /\ u.complete = TRUE /\ u.nodes = k.scope[c] /\ u.up = UpPaths(k, c) \ {one}
        /\ u.down = t.down \cup found /\ u.queue = tail \o list
    <3> HIDE DEF found, tail
    <3> QED BY <1>1, <1>2, <1>7, <2>1
  <2>3. t.queue \in Seq(A)
    BY <2>1 DEF Searching
  <2>4. p \in A
    <3> DEFINE q == t.queue
    <3>1. q \in Seq(A) /\ q # <<>>
      BY <1>1, <2>3
    <3> HIDE DEF q, A
    <3>2. q[1] \in A
      BY <3>1
    <3> QED BY <3>2 DEF q
  <2>5. found = g[p]
    <3> HIDE DEF c, p
    <3>1. trail.phase = "down" /\ trail.nodes = k.scope[c]
      BY <1>7, <2>1
    <3> QED BY <1>3, <2>4, <3>1, ExtendedDown
  <2>6. Step(g, t.queue, tail, list)
    <3> HIDE DEF A, g, tail, found, p, one
    <3>1. Rooted(A, g, one) /\ A \in SUBSET Seq(Seal)
      BY <1>4 DEF A, g
    <3> QED BY <1>5, <2>3, <2>5, <3>1
  <2> DEFINE down == t.down
             queue == t.queue
  <2>7. Searching(A, g, one, down \cup g[queue[1]], tail \o list, n + 1)
    <3>1. Rooted(A, g, one) /\ Searching(A, g, one, down, queue, n) /\ Step(g, queue, tail, list)
      BY <1>4, <2>1, <2>6
    <3> HIDE DEF A, g, one, down, queue, tail, n
    <3> QED BY <3>1, SearchGoesOn
  <2>8. u.used - Price(k, c) - m = n + 1
    <3> DEFINE w == t.used
    <3>1. w \in Nat /\ u.used = w + 1 /\ n = w - Price(k, c) - m /\ m \in Nat
      BY <1>2, <1>4, <2>2
    <3> HIDE DEF w, n, m
    <3> QED BY <3>1, <1>4
  <2>9. Searching(A, g, one, u.down, u.queue, u.used - Price(k, c) - m)
    <3>1. u.down = down \cup g[queue[1]]
      BY <2>2, <2>5
    <3> HIDE DEF A, g, one, down, queue, tail, n, found, m
    <3> QED BY <2>2, <2>7, <2>8, <3>1
  <2>10. GoingDown(u, k)
    <3> HIDE DEF u, t, c, tail, found, p
    <3> QED BY <2>2, <2>9 DEF GoingDown
  <2> QED BY <2>2, <2>10
<1>8. u.used \in Nat /\ u.used <= u.max /\ u.max \in Nat
  <2>1. u.used = t.used + 1 /\ u.max = t.max
    BY <1>2, <1>6, <1>7
  <2> HIDE DEF u, t
  <2> QED BY <1>1, <1>2, <2>1
<1>9. Trailing(u, k)
  <2> HIDE DEF u, t, c
  <2> QED BY <1>2, <1>6, <1>7, <1>8 DEF Trailing
<1> QED BY <1>9 DEF k

LEMMA TrailStep ==
    ASSUME Built, trail # NoTrail => Trailing(trail, Known), [Next]_vars
    PROVE  trail' # NoTrail => Trailing(trail', Known)
<1>1. ASSUME NEW c \in Seal, NEW n \in Budgets, DirectionBegin(c, n) PROVE Trailing(trail', Known)
  BY <1>1, TrailBegun
<1>2. ASSUME trail.phase \in {"closure", "up", "down"} PROVE Trailing(trail, Known)
  BY <1>2 DEF NoTrail
<1>3. ASSUME ClosureVisit PROVE Trailing(trail', Known)
  <2>1. Trailing(trail, Known)
    BY <1>2, <1>3 DEF ClosureVisit
  <2> QED BY <1>3, <2>1, ClosureVisited
<1>4. ASSUME DirectionVisit PROVE Trailing(trail', Known)
  <2>1. Trailing(trail, Known)
    BY <1>2, <1>4 DEF DirectionVisit
  <2> QED BY <1>4, <2>1, DirectionVisited
<1>5. ASSUME DirectionTurn, trail' # trail PROVE Trailing(trail', Known)
  <2> DEFINE phase == IF trail.phase = "closure" THEN "up" ELSE "down"
  <2>1. trail.phase \in {"closure", "up"} /\ (trail.queue = <<>> \/ Exhausted) /\ trail' = Turn(phase)
    BY <1>5 DEF DirectionTurn
  <2>2. Trailing(trail, Known)
    BY <1>2, <2>1
  <2> HIDE DEF phase
  <2> QED BY <2>1, <2>2, TrailTurned DEF phase
<1>6. ASSUME ~ \E c \in Seal, n \in Budgets : DirectionBegin(c, n), ~ClosureVisit, ~DirectionVisit,
             ~(DirectionTurn /\ trail' # trail)
      PROVE  trail' = trail
  BY <1>6 DEF Next, vars, Impact, LogBegin, LogVisit, LogEmit, LinkLogEmit, Observe, DirectionEmit
<1> QED BY <1>1, <1>3, <1>4, <1>5, <1>6

LEMMA OneIsShort ==
    ASSUME NEW steps \in Walks, NEW s \in Seal, NEW p \in Along(steps, s)
    PROVE  p # <<s>> <=> Len(p) > 1
<1> DEFINE one == <<s>>
<1>1. one \in Seq(Seal) /\ Len(one) = 1 /\ one[1] = s
  OBVIOUS
<1>2. p \in Seq(Seal) /\ Len(p) \in Nat /\ Len(p) >= 1 /\ p[1] = s
  BY AlongFacts
<1> HIDE DEF one
<1>3. Len(p) = 1 => p = one
  <2> SUFFICES ASSUME Len(p) = 1 PROVE p = one
    OBVIOUS
  <2>1. Len(p) = Len(one) /\ \A i \in 1..Len(p) : p[i] = one[i]
    BY <1>1, <1>2
  <2> QED BY <1>1, <1>2, <2>1, SeqEqual
<1>4. p = one => Len(p) = 1
  BY <1>1
<1> DEFINE n == Len(p)
<1>5. n \in Nat /\ n >= 1 /\ (n = 1 <=> p = one)
  BY <1>2, <1>3, <1>4
<1> HIDE DEF n
<1>6. p # one <=> n > 1
  BY <1>5
<1> QED BY <1>6 DEF one, n

(* What is so of a search that is reported. *)
LEMMA TrailEnds ==
    ASSUME Built, NEW k, k = Known, NEW t, t = trail, Trailing(t, k), t.phase = "down",
           t.queue = <<>> \/ Exhausted, NEW c, c = t.center
    PROVE  /\ t.up \in SUBSET (UpPaths(k, c) \ {<<c>>}) /\ t.down \in SUBSET (DownPaths(k, c) \ {<<c>>})
           /\ t.complete /\ ~Exhausted => t.up = UpPaths(k, c) \ {<<c>>} /\ t.down = DownPaths(k, c) \ {<<c>>}
           /\ t.closed => t.nodes = k.scope[c]
           /\ t.closed <=> Price(k, c) <= t.max
           /\ (t.complete /\ ~Exhausted) <=> Price(k, c) + Cardinality(UpPaths(k, c)) + Cardinality(DownPaths(k, c)) <= t.max
           /\ t.used <= t.max
<1> DEFINE complete == t.complete /\ ~Exhausted
           one == <<c>>
           U == UpPaths(k, c)
           D == DownPaths(k, c)
           w == t.used
           max == t.max
           e == Price(k, c)
           x == Cardinality(U)
           y == Cardinality(D)
<1>1. /\ c \in Seal /\ max \in Nat /\ w \in Nat /\ w <= max
      /\ CutShort(t, k) \/ HalfWay(t, k) \/ GoingDown(t, k)
  BY DEF Trailing
<1>2. /\ Rooted(D, Backward(k.steps, k.scope[c], c), one)
      /\ x \in Nat /\ y \in Nat /\ e \in Nat
  BY <1>1, UpIsRooted, KnownFacts
<1>3. Exhausted => w = max /\ t.queue # <<>>
  <2>1. Exhausted => trail.used = trail.max
    BY Exhausting
  <2> QED BY <2>1 DEF Exhausted
<1>4. CASE CutShort(t, k)
  <2>1. /\ t.closed = FALSE /\ complete = FALSE /\ e > max /\ t.up = {} /\ t.down = {}
    BY <1>4 DEF CutShort
  <2> HIDE DEF U, D, w, max, e, x, y
  <2>2. ~(e <= max) /\ ~(e + x + y <= max)
    BY <2>1, <1>1, <1>2
  <2> QED BY <2>1, <2>2, <1>1 DEF U, D, w, max, e, x, y
<1>5. CASE HalfWay(t, k)
  <2>1. /\ t.closed = TRUE /\ complete = FALSE /\ e <= max /\ e + x > max /\ t.nodes = k.scope[c]
        /\ t.up \in SUBSET (U \ {one}) /\ t.down = {}
    BY <1>5 DEF HalfWay
  <2> HIDE DEF U, D, w, max, e, x, y
  <2>2. ~(e + x + y <= max)
    BY <2>1, <1>1, <1>2
  <2> QED BY <2>1, <2>2, <1>1 DEF U, D, w, max, e, x, y
<1>6. CASE GoingDown(t, k)
  <2> DEFINE n == w - e - x
             g == Backward(k.steps, k.scope[c], c)
  <2>1. /\ t.closed = TRUE /\ t.complete = TRUE /\ t.nodes = k.scope[c] /\ t.up = U \ {one}
        /\ Searching(D, g, one, t.down, t.queue, n)
    BY <1>6 DEF GoingDown
  <2> HIDE DEF U, D, w, max, e, x, n, g
  <2>2. n \in Nat /\ one \notin t.down /\ t.down \in SUBSET D
    <3>1. n \in Nat /\ one \notin t.down
      BY <2>1, <1>2, DoneIsFinite DEF g
    <3> QED BY <2>1, <3>1 DEF Searching
  <2>3. w = e + x + n
    BY <1>1, <1>2, <2>2 DEF n
  <2>4. e <= max
    BY <1>1, <1>2, <2>2, <2>3
  <2>5. CASE Exhausted
    <3>1. Len(t.queue) >= 1
      <4> DEFINE q == t.queue
      <4>1. q \in Seq(D) /\ q # <<>>
        BY <1>3, <2>1, <2>5 DEF Searching
      <4> HIDE DEF q
      <4>2. Len(q) >= 1
        BY <4>1
      <4> QED BY <4>2 DEF q
    <3>2. n < y
      BY <2>1, <3>1, <1>2, SearchIsShort DEF g
    <3>3. ~(e + x + y <= max)
      <4> HIDE DEF y
      <4> QED BY <1>1, <1>2, <1>3, <2>2, <2>3, <2>5, <3>2
    <3>4. complete = FALSE
      BY <2>5
    <3> QED BY <2>1, <2>2, <2>4, <3>3, <3>4, <1>1 DEF U, D, w, max, e, x
  <2>6. CASE ~Exhausted
    <3>1. Searching(D, g, one, t.down, <<>>, n)
      BY <2>1, <2>6
    <3>2. t.down = D \ {one} /\ n = y
      BY <3>1, <1>2, SearchEnds DEF g
    <3>3. e + x + y <= max
      <4> HIDE DEF y
      <4> QED BY <1>1, <1>2, <2>2, <2>3, <3>2
    <3>4. complete = TRUE
      BY <2>1, <2>6
    <3> QED BY <2>1, <2>2, <2>4, <3>2, <3>3, <3>4, <1>1 DEF U, D, w, max, e, x
  <2> QED BY <2>5, <2>6
<1> QED BY <1>1, <1>4, <1>5, <1>6

(* Paths counted apart by what they are found as. *)
Marked(mark, X) == {<<mark, p>> : p \in X}
LEMMA MarkedCount ==
    ASSUME NEW X, IsFiniteSet(X), NEW Y, IsFiniteSet(Y)
    PROVE  Cardinality(Marked("up", X) \cup Marked("down", Y)) = Cardinality(X) + Cardinality(Y)
<1>1. ASSUME NEW Z, IsFiniteSet(Z), NEW mark
      PROVE  IsFiniteSet(Marked(mark, Z)) /\ Cardinality(Marked(mark, Z)) = Cardinality(Z)
  <2> DEFINE f == [p \in Z |-> <<mark, p>>]
  <2>1. Marked(mark, Z) = {f[p] : p \in Z}
    BY DEF Marked
  <2>2. f = [p \in Z |-> f[p]] /\ \A p, q \in Z : f[p] = f[q] => p = q
    OBVIOUS
  <2> HIDE DEF f
  <2> QED BY <1>1, <2>1, <2>2, OneByOne, ImageIsFinite
<1> DEFINE A == Marked("up", X)
           B == Marked("down", Y)
<1>2. IsFiniteSet(A) /\ Cardinality(A) = Cardinality(X) /\ IsFiniteSet(B) /\ Cardinality(B) = Cardinality(Y)
  BY <1>1
<1>3. A \cap B = {}
  BY DEF Marked
<1> HIDE DEF A, B
<1>4. /\ Cardinality(A) \in Nat /\ Cardinality(B) \in Nat
      /\ Cardinality(A \cup B) = Cardinality(A) + Cardinality(B) - Cardinality(A \cap B)
  BY <1>2, FS_CardinalityType, FS_Union
<1>5. Cardinality(A \cup B) = Cardinality(A) + Cardinality(B)
  <2> DEFINE a == Cardinality(A)
             b == Cardinality(B)
  <2>1. Cardinality(A \cap B) = 0
    BY <1>3, FS_EmptySet
  <2>2. a \in Nat /\ b \in Nat /\ Cardinality(A \cup B) = a + b - 0
    BY <1>4, <2>1
  <2> HIDE DEF a, b
  <2>3. Cardinality(A \cup B) = a + b
    BY <2>2
  <2> QED BY <2>3 DEF a, b
<1> QED BY <1>2, <1>5 DEF A, B

-----------------------------------------------------------------------------
(* What DirectionEmit answers, and what is so of it. *)
DirectionAnswer ==
    [query |-> "direction", center |-> trail.center, max |-> trail.max, used |-> trail.used,
     nodes |-> trail.nodes, closed |-> trail.closed, complete |-> trail.complete /\ ~Exhausted,
     extra |-> IF trail.closed THEN {trail.center} \ graph.nodes ELSE {},
     upstream |-> Upstream, downstream |-> Downstream]

UpOf(c)   == Along(CauseSteps, c)
DownOf(c) == Toward(CauseSteps, ScopeOf(c), c)

(* The paths found, as the paths between two Seals. *)
LEMMA PathsFound ==
    ASSUME Built, NEW c \in Seal, NEW one, one = <<c>>
    PROVE  /\ \A p : p \in UpOf(c) \ {one} => p \in Rests(c, End(p)) /\ End(p) \in Causes(c)
           /\ \A s : Rests(c, s) \subseteq UpOf(c) \ {one} /\ \A p \in Rests(c, s) : End(p) = s
           /\ \A s \in Causes(c) : Rests(c, s) # {}
           /\ \A p : p \in DownOf(c) \ {one} => p \in Rests(p[1], c) /\ p[1] \in ScopeOf(c) /\ c \in Causes(p[1])
           /\ \A s \in ScopeOf(c) : Rests(s, c) \subseteq DownOf(c) \ {one} /\ \A p \in Rests(s, c) : p[1] = s
           /\ \A s \in ScopeOf(c) : c \in Causes(s) => Rests(s, c) # {}
<1>1. CauseSteps \in Walks /\ ScopeOf(c) \in SUBSET Seal
  BY CausesEnd, ScopeFacts
<1>2. ASSUME NEW d \in Seal, NEW s
      PROVE  Rests(d, s) = {p \in Along(CauseSteps, d) : Len(p) > 1 /\ End(p) = s}
  BY CausePathsAre DEF Rests
<1>3. ASSUME NEW d \in Seal, NEW p \in Along(CauseSteps, d)
      PROVE  /\ p \in Seq(Seal) /\ p[1] = d /\ (p # <<d>> <=> Len(p) > 1)
             /\ Len(p) = 1 => p = <<d>> /\ End(p) = d
  <2>1. p \in Seq(Seal) /\ Len(p) \in Nat /\ Len(p) >= 1 /\ p[1] = d
    BY <1>1, AlongFacts
  <2>2. p # <<d>> <=> Len(p) > 1
    BY <1>1, OneIsShort
  <2>3. Len(p) = 1 => End(p) = p[1]
    BY DEF End
  <2> QED BY <2>1, <2>2, <2>3
<1>4. ASSUME NEW p \in UpOf(c) \ {one} PROVE p \in Rests(c, End(p)) /\ End(p) \in Causes(c)
  <2>1. p \in Along(CauseSteps, c) /\ Len(p) > 1
    BY <1>3 DEF UpOf
  <2> QED BY <2>1, <1>2, CausesArePaths
<1>5. ASSUME NEW s PROVE Rests(c, s) \subseteq UpOf(c) \ {one} /\ \A p \in Rests(c, s) : End(p) = s
  BY <1>2, <1>3 DEF UpOf
<1>6. ASSUME NEW d \in Seal, NEW s \in Causes(d) PROVE Rests(d, s) # {}
  BY <1>2, CausesArePaths
<1>7. ASSUME NEW p \in DownOf(c) \ {one}
      PROVE  p \in Rests(p[1], c) /\ p[1] \in ScopeOf(c) /\ c \in Causes(p[1])
  <2>1. PICK d \in ScopeOf(c) : p \in Along(CauseSteps, d) /\ End(p) = c
    BY DEF DownOf, Toward
  <2>2. d \in Seal
    BY <1>1
  <2>3. p[1] = d /\ Len(p) \in Nat /\ Len(p) >= 1
    BY <1>1, <2>1, <2>2, AlongFacts
  <2>4. Len(p) # 1
    BY <1>3, <2>1, <2>2
  <2>5. Len(p) > 1
    BY <2>3, <2>4
  <2> QED BY <2>1, <2>2, <2>3, <2>5, <1>2, CausesArePaths
<1>8. ASSUME NEW s \in ScopeOf(c), NEW p \in Rests(s, c)
      PROVE  p \in DownOf(c) \ {one} /\ p[1] = s
  <2>1. s \in Seal
    BY <1>1
  <2>2. p \in Along(CauseSteps, s) /\ Len(p) > 1 /\ End(p) = c
    BY <1>2, <2>1
  <2>3. p[1] = s
    BY <1>3, <2>1, <2>2
  <2>4. p # one
    <3> DEFINE n == Len(p)
               m == Len(one)
    <3>1. m = 1 /\ n > 1
      BY <2>2
    <3> HIDE DEF n, m
    <3>2. n # m
      BY <3>1
    <3> QED BY <3>2 DEF n, m
  <2>5. p \in DownOf(c)
    BY <2>2 DEF DownOf, Toward
  <2> QED BY <2>3, <2>4, <2>5
<1>9. \A s \in ScopeOf(c) : s \in Seal
  BY <1>1
<1> QED BY <1>4, <1>5, <1>6, <1>7, <1>8, <1>9

LEMMA DirectionIsRight ==
    ASSUME Built, Trailing(trail, Known), trail.phase = "down", trail.queue = <<>> \/ Exhausted,
           answer = DirectionAnswer
    PROVE  DirectionIsExact
<1> DEFINE c == trail.center
           k == Known
           one == <<c>>
           complete == trail.complete /\ ~Exhausted
           scope == ScopeOf(c)
           U == UpOf(c)
           D == DownOf(c)
           over == {d \in scope : c \in Causes(d)}
           up == {Member(s, Rests(c, s)) : s \in Causes(c)}
           down == {Member(s, Rests(s, c)) : s \in over}
<1>1. /\ answer.center = c /\ answer.complete = complete /\ answer.nodes = trail.nodes
      /\ answer.closed = trail.closed /\ answer.upstream = Upstream /\ answer.downstream = Downstream
  BY DEF DirectionAnswer
<1>2. c \in Seal
  BY DEF Trailing
<1>3. UpPaths(k, c) = U /\ DownPaths(k, c) = D /\ k.scope[c] = scope
  <2>1. k.steps = CauseSteps /\ k.scope[c] = ScopeOf(c)
    BY <1>2, KnownFacts
  <2> HIDE DEF k, c
  <2> QED BY <2>1 DEF UpPaths, DownPaths, UpOf, DownOf
<1>4. /\ trail.up \in SUBSET (U \ {one}) /\ trail.down \in SUBSET (D \ {one})
      /\ complete => trail.up = U \ {one} /\ trail.down = D \ {one}
      /\ trail.closed => trail.nodes = scope
  <2>1. /\ trail.up \in SUBSET (UpPaths(k, c) \ {one}) /\ trail.down \in SUBSET (DownPaths(k, c) \ {one})
        /\ complete => trail.up = UpPaths(k, c) \ {one} /\ trail.down = DownPaths(k, c) \ {one}
        /\ trail.closed => trail.nodes = k.scope[c]
    BY TrailEnds
  <2> HIDE DEF U, D, scope, k, c, one
  <2> QED BY <1>3, <2>1
<1>5. /\ \A p : p \in U \ {one} => p \in Rests(c, End(p)) /\ End(p) \in Causes(c)
      /\ \A s : Rests(c, s) \subseteq U \ {one} /\ \A p \in Rests(c, s) : End(p) = s
      /\ \A s \in Causes(c) : Rests(c, s) # {}
      /\ \A p : p \in D \ {one} => p \in Rests(p[1], c) /\ p[1] \in scope /\ c \in Causes(p[1])
      /\ \A s \in scope : Rests(s, c) \subseteq D \ {one} /\ \A p \in Rests(s, c) : p[1] = s
      /\ \A s \in scope : c \in Causes(s) => Rests(s, c) # {}
  BY <1>2, PathsFound
<1> HIDE DEF c, complete, scope, U, D, one
<1>6. ASSUME NEW s, NEW X, NEW m, m = Member(s, X)
      PROVE  m.seal = s /\ m.direct \cup m.indirect \subseteq X
  <2>1. m.seal = s /\ m.direct = {p \in X : Len(p) = 2} /\ m.indirect = First(1, {p \in X : Len(p) > 2})
    BY <1>6 DEF Member
  <2>2. m.indirect \subseteq {p \in X : Len(p) > 2}
    BY <2>1 DEF First
  <2> QED BY <2>1, <2>2
<1>7. complete => Upstream = up
  <2> SUFFICES ASSUME complete PROVE Upstream = up
    OBVIOUS
  <2>1. trail.up = U \ {one}
    BY <1>4
  <2>2. ASSUME NEW s PROVE {p \in trail.up : End(p) = s} = Rests(c, s)
    BY <2>1, <1>5
  <2>3. {End(p) : p \in trail.up} = Causes(c)
    <3>1. \A p \in trail.up : End(p) \in Causes(c)
      BY <2>1, <1>5
    <3>2. ASSUME NEW s \in Causes(c) PROVE \E p \in trail.up : End(p) = s
      BY <2>1, <1>5
    <3> QED BY <3>1, <3>2
  <2>4. Upstream = {Member(s, {p \in trail.up : End(p) = s}) : s \in Causes(c)}
    BY <2>3 DEF Upstream
  <2> QED BY <2>2, <2>4
<1>8. complete => Downstream = down
  <2> SUFFICES ASSUME complete PROVE Downstream = down
    OBVIOUS
  <2>1. trail.down = D \ {one}
    BY <1>4
  <2>2. ASSUME NEW s \in over PROVE {p \in trail.down : p[1] = s} = Rests(s, c)
    BY <2>1, <1>5
  <2>3. {p[1] : p \in trail.down} = over
    <3>1. \A p \in trail.down : p[1] \in over
      BY <2>1, <1>5
    <3>2. ASSUME NEW s \in over PROVE \E p \in trail.down : p[1] = s
      BY <2>1, <1>5
    <3> HIDE DEF over
    <3> QED BY <3>1, <3>2
  <2> HIDE DEF over
  <2>4. Downstream = {Member(s, {p \in trail.down : p[1] = s}) : s \in over}
    BY <2>3 DEF Downstream
  <2> QED BY <2>2, <2>4
<1>9. ASSUME NEW m \in Upstream, NEW p \in m.direct \cup m.indirect PROVE p \in Rests(c, m.seal)
  <2>1. PICK s : m = Member(s, {q \in trail.up : End(q) = s})
    BY DEF Upstream
  <2>2. m.seal = s /\ p \in trail.up /\ End(p) = s
    BY <1>6, <2>1
  <2> QED BY <2>2, <1>4, <1>5
<1>10. ASSUME NEW m \in Downstream, NEW p \in m.direct \cup m.indirect PROVE p \in Rests(m.seal, c)
  <2>1. PICK s : m = Member(s, {q \in trail.down : q[1] = s})
    BY DEF Downstream
  <2>2. m.seal = s /\ p \in trail.down /\ p[1] = s
    BY <1>6, <2>1
  <2> QED BY <2>2, <1>4, <1>5
<1>11. scope = G!Nodes(graph.heads \cup {answer.center})
  BY <1>1 DEF scope, ScopeOf
<1> HIDE DEF up, down
<1>12. /\ answer.complete => answer.upstream = up /\ answer.downstream = down
       /\ \A m \in answer.upstream : \A p \in m.direct \cup m.indirect : p \in Rests(answer.center, m.seal)
       /\ \A m \in answer.downstream : \A p \in m.direct \cup m.indirect : p \in Rests(m.seal, answer.center)
       /\ answer.closed => answer.nodes = scope
  BY <1>1, <1>4, <1>7, <1>8, <1>9, <1>10
<1>13. /\ up = {Member(s, Rests(answer.center, s)) : s \in Causes(answer.center)}
       /\ down = {Member(s, Rests(s, answer.center)) : s \in {d \in scope : answer.center \in Causes(d)}}
  BY <1>1 DEF up, down
<1> QED BY <1>11, <1>12, <1>13 DEF DirectionIsExact

LEMMA BudgetIsRight ==
    ASSUME Built, Trailing(trail, Known), trail.phase = "down", trail.queue = <<>> \/ Exhausted,
           answer = DirectionAnswer
    PROVE  BudgetIsExact
<1> DEFINE c == trail.center
           k == Known
           one == <<c>>
           complete == trail.complete /\ ~Exhausted
           scope == ScopeOf(c)
           U == UpOf(c)
           D == DownOf(c)
           paths == {<<"up", p>> : p \in CausePaths[c]}
                       \cup UNION {{<<"down", p>> : p \in {q \in CausePaths[d] : End(q) = c}} : d \in scope}
           e == 1 + Cardinality(DOMAIN refs) + Cardinality(NamingsIn(scope))
<1>1. /\ answer.center = c /\ answer.complete = complete /\ answer.max = trail.max
      /\ answer.closed = trail.closed /\ answer.used = trail.used
  BY DEF DirectionAnswer
<1>2. c \in Seal
  BY DEF Trailing
<1>3. UpPaths(k, c) = U /\ DownPaths(k, c) = D /\ k.scope[c] = scope /\ scope \in SUBSET Seal /\ Price(k, c) = e
  <2>1. /\ k.steps = CauseSteps /\ k.scope[c] = ScopeOf(c) /\ k.scope[c] \in SUBSET Seal
        /\ \A N \in SUBSET Seal : k.cost[N] = 1 + Cardinality(DOMAIN refs) + Cardinality(NamingsIn(N))
    BY <1>2, KnownFacts
  <2> HIDE DEF k, c
  <2> QED BY <2>1 DEF UpPaths, DownPaths, UpOf, DownOf, Price
<1>4. /\ trail.closed <=> e <= trail.max
      /\ complete <=> e + Cardinality(U) + Cardinality(D) <= trail.max
      /\ trail.used <= trail.max
  <2> HIDE DEF U, D, scope
  <2> HIDE DEF e
  <2> QED BY <1>3, TrailEnds
<1>5. IsFiniteSet(U) /\ IsFiniteSet(D) /\ Cardinality(U) \in Nat /\ Cardinality(D) \in Nat
  <2> HIDE DEF U, D
  <2> QED BY <1>2, <1>3, UpIsRooted
<1>6. paths = Marked("up", U) \cup Marked("down", D)
  <2>1. CausePaths[c] = U /\ \A d \in scope : CausePaths[d] = Along(CauseSteps, d)
    BY <1>2, <1>3, CausePathsAre DEF UpOf
  <2>2. UNION {{<<"down", p>> : p \in {q \in CausePaths[d] : End(q) = c}} : d \in scope} = Marked("down", D)
    <3>1. ASSUME NEW x \in UNION {{<<"down", p>> : p \in {q \in CausePaths[d] : End(q) = c}} : d \in scope}
          PROVE  x \in Marked("down", D)
      <4>1. PICK d \in scope : x \in {<<"down", p>> : p \in {q \in CausePaths[d] : End(q) = c}}
        OBVIOUS
      <4>2. PICK p \in CausePaths[d] : End(p) = c /\ x = <<"down", p>>
        BY <4>1
      <4>3. p \in D
        BY <2>1, <4>2 DEF DownOf, Toward
      <4> QED BY <4>2, <4>3 DEF Marked
    <3>2. ASSUME NEW x \in Marked("down", D)
          PROVE  x \in UNION {{<<"down", p>> : p \in {q \in CausePaths[d] : End(q) = c}} : d \in scope}
      <4>1. PICK p \in D : x = <<"down", p>>
        BY DEF Marked
      <4>2. PICK d \in scope : p \in Along(CauseSteps, d) /\ End(p) = c
        BY DEF DownOf, Toward
      <4>3. x \in {<<"down", q>> : q \in {r \in CausePaths[d] : End(r) = c}}
        BY <2>1, <4>1, <4>2
      <4> QED BY <4>3
    <3> QED BY <3>1, <3>2
  <2> HIDE DEF U, D, scope
  <2> QED BY <2>1, <2>2 DEF Marked
<1>7. Cardinality(paths) = Cardinality(U) + Cardinality(D)
  <2> HIDE DEF paths, U, D
  <2> QED BY <1>5, <1>6, MarkedCount
<1>8. e + Cardinality(paths) = e + Cardinality(U) + Cardinality(D)
  <2> DEFINE x == Cardinality(U)
             y == Cardinality(D)
             z == Cardinality(paths)
  <2>1. e \in Nat
    BY <1>2, <1>3, KnownFacts
  <2>2. x \in Nat /\ y \in Nat /\ z = x + y
    BY <1>5, <1>7
  <2> HIDE DEF e, x, y, z
  <2>3. e + z = e + x + y
    BY <2>1, <2>2
  <2> QED BY <2>3 DEF x, y, z
<1>9. scope = G!Nodes(graph.heads \cup {answer.center})
  BY <1>1 DEF ScopeOf
<1> HIDE DEF c, U, D, complete
<1>10. /\ answer.used <= answer.max
       /\ answer.closed <=> e <= answer.max
       /\ answer.complete <=> e + Cardinality(paths) <= answer.max
  <2> HIDE DEF e, paths
  <2> QED BY <1>1, <1>4, <1>8
<1>11. e = 1 + Cardinality(DOMAIN refs)
             + Cardinality(UNION {UNION {{s} \X {l.target} \X ({0} \cup l.previous) : l \in body[s].links} : s \in scope})
  BY DEF NamingsIn
<1>12. paths = {<<"up", p>> : p \in CausePaths[answer.center]}
                  \cup UNION {{<<"down", p>> : p \in {q \in CausePaths[d] : End(q) = answer.center}} : d \in scope}
  BY <1>1
<1> HIDE DEF e, paths, scope
<1> QED BY <1>9, <1>10, <1>11, <1>12 DEF BudgetIsExact

SummaryAnswers ==
    /\ trail # NoTrail => Trailing(trail, Known)
    /\ Asks("direction") => /\ trail # NoTrail /\ trail.phase = "down"
                            /\ trail.queue = <<>> \/ Exhausted
                            /\ answer = DirectionAnswer

LEMMA FrozenKnown ==
    ASSUME body' = body, refs' = refs, graph' = graph
    PROVE  /\ Known' = Known
           /\ trail' = trail => DirectionAnswer' = DirectionAnswer /\ (Exhausted' <=> Exhausted)
<1>1. CauseSteps' = CauseSteps
  BY FrozenGraph DEF CauseSteps
<1>2. \A s : Followed(s)' = Followed(s)
  BY DEF Followed, G!Targets, G!Asserted
<1>3. \A c : ScopeOf(c)' = ScopeOf(c)
  BY DEF ScopeOf, G!Nodes, G!Targets, G!Asserted, G!Reach
<1>4. \A N : NamingsIn(N)' = NamingsIn(N)
  BY DEF NamingsIn
<1>5. Known' = Known
  BY <1>1, <1>2, <1>3, <1>4 DEF Known
<1>6. ASSUME trail' = trail PROVE DirectionAnswer' = DirectionAnswer /\ (Exhausted' <=> Exhausted)
  <2>1. Upstream' = Upstream /\ Downstream' = Downstream
    BY <1>6 DEF Upstream, Downstream, Member, First, Before, Lexical, End
  <2>2. Exhausted' <=> Exhausted
    BY <1>6 DEF Exhausted
  <2> QED BY <1>6, <2>1, <2>2 DEF DirectionAnswer
<1> QED BY <1>5, <1>6

LEMMA SummaryStep ==
    ASSUME Built, SummaryAnswers, [Next]_vars
    PROVE  SummaryAnswers'
<1>1. body' = body /\ refs' = refs /\ graph' = graph /\ Known' = Known
  BY NothingIsStored, FrozenKnown
<1>2. (trail # NoTrail => Trailing(trail, Known))'
  <2>1. trail' # NoTrail => Trailing(trail', Known)
    BY TrailStep DEF SummaryAnswers
  <2>2. trail' # NoTrail => Trailing(trail', Known')
    BY <1>1, <2>1
  <2> QED BY <2>2 DEF NoTrail, Trailing, Closing, CutShort, GoingUp, GoingDown, HalfWay, Price, UpPaths, DownPaths,
              Searching, Done, Onward, Backward, Toward, Longer, Earlier, Along, End
<1>3. ASSUME answer' = answer, Asks("direction") PROVE trail' = trail
  <2>1. answer # NoAnswer /\ trail.phase = "down" /\ (trail.queue = <<>> \/ Exhausted)
    BY <1>3 DEF SummaryAnswers, Asks, NoAnswer
  <2>2. trail # NoTrail /\ Trailing(trail, Known)
    BY <1>3 DEF SummaryAnswers
  <2>3. trail.queue # <<>> => ~(trail.used < trail.max)
    BY <2>1, <2>2, Exhausting DEF Exhausted, Trailing
  <2>4. ~ClosureVisit /\ ~DirectionVisit /\ ~DirectionTurn /\ \A c, n : ~DirectionBegin(c, n)
    BY <2>1, <2>3 DEF ClosureVisit, DirectionVisit, DirectionTurn, DirectionBegin, Idle
  <2> QED BY <2>4 DEF Next, vars, Impact, LogBegin, LogVisit, LogEmit, LinkLogEmit, Observe, DirectionEmit
<1>4. ASSUME answer' # answer, answer'.query = "direction" PROVE DirectionEmit
  BY <1>4, AnswersAre
<1>5. ASSUME DirectionEmit
      PROVE  /\ trail' = trail /\ trail # NoTrail /\ trail.phase = "down" /\ (trail.queue = <<>> \/ Exhausted)
             /\ answer' = DirectionAnswer
  BY <1>5 DEF DirectionEmit, DirectionAnswer, NoTrail
<1>6. ASSUME trail' = trail PROVE DirectionAnswer' = DirectionAnswer /\ (Exhausted' <=> Exhausted)
  BY <1>1, <1>6, FrozenKnown
<1>7. ASSUME answer'.query = "direction"
      PROVE  /\ trail' # NoTrail /\ trail'.phase = "down"
             /\ trail'.queue = <<>> \/ Exhausted'
             /\ answer' = DirectionAnswer'
  <2>1. CASE answer' = answer
    <3>1. Asks("direction") /\ trail' = trail
      BY <1>3, <1>7, <2>1 DEF Asks
    <3> QED BY <1>6, <2>1, <3>1 DEF SummaryAnswers
  <2>2. CASE answer' # answer
    BY <1>4, <1>5, <1>6, <1>7, <2>2
  <2> QED BY <2>1, <2>2
<1>8. NoTrail' = NoTrail
  BY DEF NoTrail
<1> QED BY <1>2, <1>7, <1>8 DEF SummaryAnswers, Asks

(* A complete direction summary has every Seal that the chosen one rests   *)
(* on or that rests on it, with its link and its first longer path; an     *)
(* incomplete one shows only paths that exist; and it is complete exactly  *)
(* when the budget covers one visit for every naming in the closure and    *)
(* for every Cause path from and to the chosen Seal                        *)
(* (trace_direction_graph.go).                                             *)
THEOREM SummaryExact == Spec => []SummaryIsExact
<1>1. Init => Built /\ SummaryAnswers
  <2>1. Init => Built
    BY InitBuilds
  <2>2. Init => SummaryAnswers
    BY DEF Init, NoAnswer, SummaryAnswers, Asks
  <2> QED BY <2>1, <2>2
<1>2. Built /\ SummaryAnswers /\ [Next]_vars => (Built /\ SummaryAnswers)'
  BY NothingIsStored, FrozenGraph, SummaryStep
<1>3. Built /\ SummaryAnswers => SummaryIsExact
  <2> SUFFICES ASSUME Built, SummaryAnswers, Asks("direction") PROVE DirectionIsExact /\ BudgetIsExact
    BY DEF SummaryIsExact, DirectionIsExact, BudgetIsExact
  <2>1. /\ Trailing(trail, Known) /\ trail.phase = "down" /\ (trail.queue = <<>> \/ Exhausted)
        /\ answer = DirectionAnswer
    BY DEF SummaryAnswers
  <2> QED BY <2>1, DirectionIsRight, BudgetIsRight
<1> QED BY <1>1, <1>2, <1>3, PTL DEF Spec

-----------------------------------------------------------------------------
(* The search for a sealed run. *)

LEMMA MinIs ==
    ASSUME NEW S \in SUBSET Int, NEW x \in S, \A y \in S : x <= y
    PROVE  Min(S) = x
<1>1. \A z \in S : (\A y \in S : z <= y) => z = x
  OBVIOUS
<1> QED BY <1>1 DEF Min

LEMMA MaxIs ==
    ASSUME NEW S \in SUBSET Int, NEW x \in S, \A y \in S : y <= x
    PROVE  Max(S) = x
<1>1. \A z \in S : (\A y \in S : y <= z) => z = x
  OBVIOUS
<1> QED BY <1>1 DEF Max

LEMMA MinOfTwo ==
    ASSUME NEW a \in Int, NEW b \in Int
    PROVE  Min({a, b}) = IF a <= b THEN a ELSE b
<1>1. CASE a <= b
  BY <1>1, MinIs
<1>2. CASE ~(a <= b)
  BY <1>2, MinIs
<1> QED BY <1>1, <1>2

LEMMA MaxOfTwo ==
    ASSUME NEW a \in Int, NEW b \in Int
    PROVE  Max({a, b}) = IF a <= b THEN b ELSE a
<1>1. CASE a <= b
  BY <1>1, MaxIs
<1>2. CASE ~(a <= b)
  BY <1>2, MaxIs
<1> QED BY <1>1, <1>2

LEMMA MinOfNumbers ==
    ASSUME NEW S \in SUBSET Nat, S # {}
    PROVE  Min(S) \in S /\ \A y \in S : Min(S) <= y
<1>1. PICK x \in S : \A y \in S : x <= y
  BY LeastMember
<1>2. Min(S) = x
  BY <1>1, MinIs
<1> QED BY <1>1, <1>2

(* A run is sealed in its source. *)
Sealed == /\ source \in Seq(Byte) /\ current \in Seq(Byte)
          /\ span.start \in Nat /\ span.length \in Nat \ {0}
          /\ span.start + span.length <= Len(source)

LEMMA PartIs ==
    ASSUME NEW text \in Seq(Byte), NEW at \in Nat, NEW n \in Nat, at + n <= Len(text)
    PROVE  /\ Bytes(text, at, n) \in Seq(Byte) /\ Len(Bytes(text, at, n)) = n
           /\ \A i \in 1..n : Bytes(text, at, n)[i] = text[at + i]
<1> QED BY DEF Bytes

LEMMA RunIs ==
    ASSUME Sealed
    PROVE  /\ Run \in Seq(Byte) /\ Len(Run) = span.length
           /\ \A i \in 1..span.length : Run[i] = source[span.start + i]
BY PartIs DEF Sealed, Run

(* Where a run occurs. *)
LEMMA OccursThere ==
    ASSUME Sealed, NEW text \in Seq(Byte), NEW at \in Nat
    PROVE  Occurs(text, at) <=> /\ at + span.length <= Len(text)
                                /\ \A i \in 1..span.length : text[at + i] = source[span.start + i]
<1> DEFINE n == span.length
           B == Bytes(text, at, n)
           R == Run
<1>1. n \in Nat /\ R \in Seq(Byte) /\ Len(R) = n /\ \A i \in 1..n : R[i] = source[span.start + i]
  BY RunIs DEF Sealed
<1>2. Occurs(text, at) <=> at + n <= Len(text) /\ B = R
  BY <1>1 DEF Occurs
<1>3. ASSUME at + n <= Len(text)
      PROVE  B \in Seq(Byte) /\ Len(B) = n /\ \A i \in 1..n : B[i] = text[at + i]
  BY <1>1, <1>3, PartIs
<1> HIDE DEF B, R, n
<1>4. ASSUME at + n <= Len(text), \A i \in 1..n : text[at + i] = source[span.start + i]
      PROVE  B = R
  <2>1. B \in Seq(Byte) /\ Len(B) = Len(R) /\ \A i \in 1..Len(B) : B[i] = R[i]
    BY <1>1, <1>3, <1>4
  <2> QED BY <1>1, <2>1, SeqEqual
<1>5. Occurs(text, at) <=> at + n <= Len(text) /\ \A i \in 1..n : text[at + i] = source[span.start + i]
  BY <1>1, <1>2, <1>3, <1>4
<1> QED BY <1>5 DEF n

LEMMA Joined ==
    ASSUME NEW S, NEW U, NEW u \in Seq(S), NEW v \in Seq(U)
    PROVE  /\ u \o v \in Seq(S \cup U) /\ Len(u \o v) = Len(u) + Len(v) /\ DOMAIN (u \o v) = 1..(Len(u) + Len(v))
           /\ \A i \in 1..Len(u) : (u \o v)[i] = u[i]
           /\ \A i \in 1..Len(v) : (u \o v)[Len(u) + i] = v[i]
<1>1. u \in Seq(S \cup U) /\ v \in Seq(S \cup U)
  OBVIOUS
<1> QED BY <1>1

(* The sets of starts, in the order in which they are scanned. *)
LEMMA OrderIs ==
    ASSUME Sealed, NEW Z, Z = SearchOrder, NEW f, f = FirstPoint, NEW s, s = SecondPoint, NEW max, max = MaxStart
    PROVE  /\ f \in Nat /\ s \in Int /\ max \in Int
           /\ DOMAIN Z = 1..Len(Z) /\ Len(Z) = IF Interval = {} THEN 4 ELSE 5
           /\ Z[1] = {f} \cap 0..max /\ Z[2] = ({s} \ {f}) \cap 0..max /\ Z[3] = Scanned(Interval)
           /\ Interval = {} => Z[4] = Scanned(0..max)
           /\ Interval # {} => /\ Z[4] = Scanned(0..(Min(Interval) - 1))
                               /\ Z[5] = Scanned((Max(Interval) + 1)..max)
<1> DEFINE a == {f} \cap 0..max
           b == ({s} \ {f}) \cap 0..max
           c == Scanned(Interval)
           d == Scanned(0..max)
           e == Scanned(0..(Min(Interval) - 1))
           g == Scanned((Max(Interval) + 1)..max)
<1>1. f \in Nat /\ s \in Int /\ max \in Int
  BY RunIs DEF Sealed, FirstPoint, SecondPoint, MaxStart
<1>2. Z = <<a, b>> \o <<c>> \o (IF Interval = {} THEN <<d>> ELSE <<e, g>>)
  BY DEF SearchOrder, Points, Remainder
<1> HIDE DEF a, b, c, d, e, g
<1> DEFINE F == <<a, b>> \o <<c>>
<1>3. F \in Seq({a, b, c}) /\ Len(F) = 3 /\ F[1] = a /\ F[2] = b /\ F[3] = c /\ F = <<a, b>> \o <<c>>
  <2>1. <<a, b>> \in Seq({a, b, c}) /\ Len(<<a, b>>) = 2 /\ <<a, b>>[1] = a /\ <<a, b>>[2] = b
    OBVIOUS
  <2>2. <<c>> \in Seq({a, b, c}) /\ Len(<<c>>) = 1 /\ <<c>>[1] = c
    OBVIOUS
  <2> QED BY <2>1, <2>2, Joined
<1> HIDE DEF F
<1>4. CASE Interval = {}
  <2>1. Z = <<a, b>> \o <<c>> \o <<d>>
    BY <1>2, <1>4
  <2>2. <<d>> \in Seq({d}) /\ Len(<<d>>) = 1 /\ <<d>>[1] = d
    OBVIOUS
  <2>3. Z = F \o <<d>>
    BY <2>1, <1>3
  <2>4. DOMAIN Z = 1..Len(Z) /\ Len(Z) = 4 /\ Z[1] = a /\ Z[2] = b /\ Z[3] = c /\ Z[4] = d
    <3> DEFINE v == <<d>>
    <3> HIDE DEF v
    <3>1. v \in Seq({d}) /\ Len(v) = 1 /\ v[1] = d /\ Z = F \o v
      BY <2>2, <2>3 DEF v
    <3>2. /\ Len(Z) = Len(F) + Len(v) /\ DOMAIN Z = 1..(Len(F) + Len(v))
          /\ \A i \in 1..Len(F) : Z[i] = F[i]
          /\ \A i \in 1..Len(v) : Z[Len(F) + i] = v[i]
      <4>1. v \in Seq({d}) /\ Z = F \o v
        BY <3>1
      <4> QED BY <4>1, <1>3, Joined
    <3>3. Z[3 + 1] = d
      BY <3>1, <3>2, <1>3
    <3> QED BY <3>1, <3>2, <3>3, <1>3
  <2> QED BY <1>1, <1>4, <2>4 DEF a, b, c, d
<1>5. CASE Interval # {}
  <2>1. Z = <<a, b>> \o <<c>> \o <<e, g>>
    BY <1>2, <1>5
  <2>2. <<e, g>> \in Seq({e, g}) /\ Len(<<e, g>>) = 2 /\ <<e, g>>[1] = e /\ <<e, g>>[2] = g
    OBVIOUS
  <2>3. Z = F \o <<e, g>>
    BY <2>1, <1>3
  <2>4. DOMAIN Z = 1..Len(Z) /\ Len(Z) = 5 /\ Z[1] = a /\ Z[2] = b /\ Z[3] = c /\ Z[4] = e /\ Z[5] = g
    <3> DEFINE v == <<e, g>>
    <3> HIDE DEF v
    <3>1. /\ Len(Z) = Len(F) + Len(v) /\ DOMAIN Z = 1..(Len(F) + Len(v))
          /\ \A i \in 1..Len(F) : Z[i] = F[i]
          /\ \A i \in 1..Len(v) : Z[Len(F) + i] = v[i]
      <4>1. v \in Seq({e, g})
        BY <2>2 DEF v
      <4>2. Z = F \o v
        BY <2>3 DEF v
      <4> QED BY <4>1, <4>2, <1>3, Joined
    <3>2. Len(v) = 2 /\ v[1] = e /\ v[2] = g
      BY <2>2 DEF v
    <3>3. Z[3 + 1] = e /\ Z[3 + 2] = g
      BY <3>1, <3>2, <1>3
    <3> QED BY <3>1, <3>2, <3>3, <1>3
  <2> QED BY <1>1, <1>5, <2>4 DEF a, b, c, e, g
<1> QED BY <1>4, <1>5

(* What lies between the two points. *)
LEMMA IntervalIs ==
    ASSUME Sealed, NEW f, f = FirstPoint, NEW s, s = SecondPoint, NEW max, max = MaxStart
    PROVE  /\ \A p \in Int : p \in Interval <=> /\ 0 <= p /\ p <= max
                                                /\ (f <= p /\ p <= s) \/ (s <= p /\ p <= f)
           /\ Interval \in SUBSET Nat
           /\ Interval # {} => /\ Min(Interval) \in Interval /\ Max(Interval) \in Interval
                               /\ \A p \in Int : Min(Interval) <= p /\ p <= Max(Interval) => p \in Interval
<1>1. f \in Nat /\ s \in Int /\ max \in Int
  BY OrderIs
<1> DEFINE low == IF f <= s THEN f ELSE s
           high == IF f <= s THEN s ELSE f
           from == IF 0 <= low THEN low ELSE 0
           to == IF max <= high THEN max ELSE high
           I == Interval
<1>2. I = from..to
  <2>1. Min({f, s}) = low /\ Max({f, s}) = high
    BY <1>1, MinOfTwo, MaxOfTwo
  <2>2. low \in Int /\ high \in Int
    BY <1>1
  <2> HIDE DEF low, high
  <2>3. Max({0, low}) = from /\ Min({max, high}) = to
    BY <1>1, <2>2, MinOfTwo, MaxOfTwo
  <2> HIDE DEF from, to
  <2> QED BY <2>1, <2>3 DEF Interval
<1>3. from \in Nat /\ to \in Int
  BY <1>1
<1>4. \A p \in Int : p \in from..to <=> 0 <= p /\ p <= max /\ ((f <= p /\ p <= s) \/ (s <= p /\ p <= f))
  BY <1>1
<1>5. ASSUME I # {} PROVE Min(I) = from /\ Max(I) = to /\ from \in I /\ to \in I
  <2> HIDE DEF from, to, I
  <2>1. from <= to
    BY <1>2, <1>3, <1>5
  <2>2. from \in I /\ to \in I /\ I \in SUBSET Int /\ (\A p \in I : from <= p /\ p <= to)
    BY <1>2, <1>3, <2>1
  <2> QED BY <2>2, MinIs, MaxIs
<1> HIDE DEF from, to
<1>6. I \in SUBSET Nat
  BY <1>2, <1>3
<1>7. ASSUME I # {} PROVE /\ Min(I) \in I /\ Max(I) \in I
                          /\ \A p \in Int : Min(I) <= p /\ p <= Max(I) => p \in I
  <2> HIDE DEF I
  <2> QED BY <1>2, <1>3, <1>5, <1>7
<1> QED BY <1>2, <1>4, <1>6, <1>7

(* Every start is tried, and what lies between the two points before what  *)
(* does not.                                                               *)
LEMMA AllAreTried ==
    ASSUME Sealed, NEW Z, Z = SearchOrder, NEW p \in Nat, p <= MaxStart
    PROVE  /\ \E i \in DOMAIN Z : p \in Z[i]
           /\ p \in Interval => \E i \in 1..3 : p \in Z[i]
<1> DEFINE f == FirstPoint
           s == SecondPoint
           max == MaxStart
           I == Interval
<1>1. /\ f \in Nat /\ s \in Int /\ max \in Int
      /\ DOMAIN Z = 1..Len(Z) /\ Len(Z) = IF I = {} THEN 4 ELSE 5
      /\ Z[1] = {f} \cap 0..max /\ Z[2] = ({s} \ {f}) \cap 0..max /\ Z[3] = Scanned(I)
      /\ I = {} => Z[4] = Scanned(0..max)
      /\ I # {} => Z[4] = Scanned(0..(Min(I) - 1)) /\ Z[5] = Scanned((Max(I) + 1)..max)
  BY OrderIs
<1>2. /\ I \in SUBSET Nat
      /\ I # {} => /\ Min(I) \in I /\ Max(I) \in I
                   /\ \A q \in Int : Min(I) <= q /\ q <= Max(I) => q \in I
  BY IntervalIs
<1>3. ASSUME p # f, p # s PROVE \A R : p \in Scanned(R) <=> p \in R
  BY <1>3 DEF Scanned
<1> HIDE DEF f, s, max, I
<1>4. p \in Nat /\ p <= max
  BY DEF max
<1>5. DOMAIN Z = IF I = {} THEN 1..4 ELSE 1..5
  BY <1>1
<1>6. CASE p = f
  <2>1. p \in Z[1] /\ 1 \in DOMAIN Z /\ 1 \in 1..3
    BY <1>1, <1>4, <1>5, <1>6
  <2> QED BY <2>1 DEF I
<1>7. CASE p = s /\ p # f
  <2>1. p \in Z[2] /\ 2 \in DOMAIN Z /\ 2 \in 1..3
    BY <1>1, <1>4, <1>5, <1>7
  <2> QED BY <2>1 DEF I
<1>8. CASE p # f /\ p # s
  <2>1. \A R : p \in Scanned(R) <=> p \in R
    BY <1>3, <1>8
  <2>2. CASE p \in I
    <3>1. p \in Z[3] /\ 3 \in DOMAIN Z /\ 3 \in 1..3
      BY <1>1, <1>5, <2>1, <2>2
    <3> QED BY <3>1 DEF I
  <2>3. CASE p \notin I /\ I = {}
    <3>1. p \in Z[4] /\ 4 \in DOMAIN Z
      BY <1>1, <1>4, <1>5, <2>1, <2>3
    <3> QED BY <3>1, <2>3 DEF I
  <2>4. CASE p \notin I /\ I # {}
    <3> DEFINE a == Min(I)
               b == Max(I)
    <3>1. a \in Nat /\ b \in Nat /\ ~(a <= p /\ p <= b)
      <4>1. a \in I /\ b \in I /\ \A q \in Int : a <= q /\ q <= b => q \in I
        BY <1>2, <2>4
      <4> HIDE DEF a, b
      <4> QED BY <1>2, <1>4, <2>4, <4>1
    <3>2. Z[4] = Scanned(0..(a - 1)) /\ Z[5] = Scanned((b + 1)..max)
      BY <1>1, <2>4
    <3> HIDE DEF a, b
    <3>3. p \in 0..(a - 1) \/ p \in (b + 1)..max
      BY <1>1, <1>4, <3>1
    <3>4. p \in Z[4] \/ p \in Z[5]
      BY <2>1, <3>2, <3>3
    <3>5. 4 \in DOMAIN Z /\ 5 \in DOMAIN Z
      BY <1>5, <2>4
    <3> QED BY <3>4, <3>5, <2>4 DEF I
  <2> QED BY <2>2, <2>3, <2>4
<1> QED BY <1>6, <1>7, <1>8

LEMMA OrderNumbers ==
    ASSUME Sealed, NEW Z, Z = SearchOrder
    PROVE  DOMAIN Z = 1..Len(Z) /\ Len(Z) \in Nat /\ \A i \in DOMAIN Z : Z[i] \in SUBSET Nat
<1> DEFINE max == MaxStart
<1>1. /\ FirstPoint \in Nat /\ SecondPoint \in Int /\ max \in Int
      /\ DOMAIN Z = 1..Len(Z) /\ Len(Z) \in Nat
  <2>1. /\ FirstPoint \in Nat /\ SecondPoint \in Int /\ max \in Int
        /\ DOMAIN Z = 1..Len(Z) /\ Len(Z) = IF Interval = {} THEN 4 ELSE 5
    BY OrderIs
  <2>2. Len(Z) = 4 \/ Len(Z) = 5
    BY <2>1
  <2> QED BY <2>1, <2>2
<1>2. ASSUME NEW i \in DOMAIN Z PROVE Z[i] \in SUBSET Nat
  <2> DEFINE f == FirstPoint
             s == SecondPoint
             I == Interval
  <2>1. /\ Z[1] = {f} \cap 0..max /\ Z[2] = ({s} \ {f}) \cap 0..max /\ Z[3] = Scanned(I)
        /\ I = {} => Z[4] = Scanned(0..max)
        /\ I # {} => Z[4] = Scanned(0..(Min(I) - 1)) /\ Z[5] = Scanned((Max(I) + 1)..max)
        /\ Len(Z) = IF I = {} THEN 4 ELSE 5
    BY OrderIs
  <2>2. I \in SUBSET Nat /\ (I # {} => Min(I) \in Nat /\ Max(I) \in Nat)
    BY IntervalIs
  <2>3. ASSUME NEW R \in SUBSET Nat PROVE Scanned(R) \in SUBSET Nat
    BY DEF Scanned
  <2> HIDE DEF f, s, I, max
  <2>4. i \in 1..5 /\ (i = 5 => I # {})
    BY <1>1, <2>1
  <2>5. Z[1] \in SUBSET Nat /\ Z[2] \in SUBSET Nat /\ Z[3] \in SUBSET Nat
    BY <1>1, <2>1, <2>2, <2>3
  <2>6. CASE I = {}
    <3>1. 0..max \in SUBSET Nat
      BY <1>1
    <3>2. Z[4] \in SUBSET Nat
      BY <2>1, <2>3, <2>6, <3>1
    <3> QED BY <2>4, <2>5, <2>6, <3>2
  <2>7. CASE I # {}
    <3> DEFINE a == Min(I)
               b == Max(I)
    <3>1. a \in Nat /\ b \in Nat /\ Z[4] = Scanned(0..(a - 1)) /\ Z[5] = Scanned((b + 1)..max)
      BY <2>1, <2>2, <2>7
    <3> HIDE DEF a, b
    <3>2. 0..(a - 1) \in SUBSET Nat /\ (b + 1)..max \in SUBSET Nat
      BY <1>1, <3>1
    <3>3. Z[4] \in SUBSET Nat /\ Z[5] \in SUBSET Nat
      BY <2>3, <3>1, <3>2
    <3> QED BY <2>4, <2>5, <3>3
  <2> QED BY <2>6, <2>7
<1> QED BY <1>1, <1>2

(* What the search reports. *)
LEMMA SearchFinds ==
    ASSUME Sealed, NEW Z, Z = SearchOrder
    PROVE  LET hits(i) == {p \in Z[i] : Occurs(current, p)}
           IN  /\ (\E i \in DOMAIN Z : hits(i) # {}) <=> Search.status = "PRESENT"
               /\ Search.status # "PRESENT" => Search.status = "ABSENT_EXACT"
               /\ \A i \in DOMAIN Z : hits(i) # {} =>
                     \E k \in DOMAIN Z : /\ k <= i /\ Search.start \in hits(k)
                                         /\ \A j \in DOMAIN Z : hits(j) # {} => k <= j
<1> DEFINE hits(i) == {p \in Z[i] : Occurs(current, p)}
           found == {i \in DOMAIN Z : hits(i) # {}}
<1>1. DOMAIN Z = 1..Len(Z) /\ Len(Z) \in Nat
  BY OrderNumbers
<1>2. \A i \in DOMAIN Z : Z[i] \in SUBSET Nat
  BY OrderNumbers
<1>3. \A i : Hits(i) = hits(i)
  BY DEF Hits
<1>4. Search = IF Len(current) < Len(Run) \/ found = {}
                 THEN [status |-> "ABSENT_EXACT", start |-> -1]
                 ELSE [status |-> "PRESENT", start |-> Min(hits(Min(found)))]
  <2>1. {i \in DOMAIN SearchOrder : Hits(i) # {}} = found
    BY <1>3
  <2> HIDE DEF hits, found
  <2> QED BY <1>3, <2>1 DEF Search
<1>5. ASSUME found # {} PROVE ~(Len(current) < Len(Run))
  <2>1. PICK i \in DOMAIN Z : \E p \in Z[i] : Occurs(current, p)
    BY <1>5
  <2>2. PICK p \in Z[i] : Occurs(current, p)
    BY <2>1
  <2>3. p \in Nat /\ Len(current) \in Nat /\ Len(Run) = span.length /\ span.length \in Nat
    BY <1>2, RunIs DEF Sealed
  <2> DEFINE n == Len(current)
             m == Len(Run)
  <2>4. p + m <= n /\ n \in Nat /\ m \in Nat
    BY <2>2, <2>3 DEF Occurs
  <2> HIDE DEF n, m
  <2>5. ~(n < m)
    BY <2>3, <2>4
  <2> QED BY <2>5 DEF n, m
<1>6. ASSUME NEW i \in DOMAIN Z, hits(i) # {}
      PROVE  /\ Search.status = "PRESENT"
             /\ \E k \in DOMAIN Z : /\ k <= i /\ Search.start \in hits(k)
                                    /\ \A j \in DOMAIN Z : hits(j) # {} => k <= j
  <2>1. found \in SUBSET Nat /\ found # {} /\ i \in found
    BY <1>1, <1>6
  <2> DEFINE k == Min(found)
  <2>2. k \in found /\ \A j \in found : k <= j
    <3> HIDE DEF found
    <3> QED BY <2>1, MinOfNumbers
  <2>3. Search = [status |-> "PRESENT", start |-> Min(hits(k))]
    <3> HIDE DEF found, hits
    <3> QED BY <1>4, <1>5, <2>1
  <2> HIDE DEF k
  <2>4. hits(k) \in SUBSET Nat /\ hits(k) # {} /\ k \in DOMAIN Z
    BY <1>2, <2>2
  <2>5. Min(hits(k)) \in hits(k)
    <3> HIDE DEF hits
    <3> QED BY <2>4, MinOfNumbers
  <2>6. k <= i /\ \A j \in DOMAIN Z : hits(j) # {} => k <= j
    BY <2>1, <2>2
  <2> HIDE DEF hits, found
  <2> QED BY <2>3, <2>4, <2>5, <2>6
<1>7. (\A i \in DOMAIN Z : hits(i) = {}) => Search.status = "ABSENT_EXACT"
  <2>1. (\A i \in DOMAIN Z : hits(i) = {}) => found = {}
    OBVIOUS
  <2> HIDE DEF found, hits
  <2> QED BY <1>4, <2>1
<1> HIDE DEF hits
<1>8. /\ (\E i \in DOMAIN Z : hits(i) # {}) <=> Search.status = "PRESENT"
      /\ Search.status # "PRESENT" => Search.status = "ABSENT_EXACT"
  BY <1>6, <1>7
<1> QED BY <1>6, <1>8 DEF hits

LEMMA CompareIsRight ==
    ASSUME Sealed, report.result = Search
    PROVE  CompareIsExact
<1> DEFINE Z == SearchOrder
           hits(i) == {p \in Z[i] : Occurs(current, p)}
           reply == Search
<1>1. /\ (\E i \in DOMAIN Z : hits(i) # {}) <=> reply.status = "PRESENT"
      /\ reply.status # "PRESENT" => reply.status = "ABSENT_EXACT"
      /\ \A i \in DOMAIN Z : hits(i) # {} => \E k \in DOMAIN Z : reply.start \in hits(k)
  BY SearchFinds
<1>2. ASSUME NEW p \in 0..Len(current), Occurs(current, p) PROVE \E i \in DOMAIN Z : hits(i) # {}
  <2>1. p + span.length <= Len(current) /\ p \in Nat
    BY <1>2, OccursThere DEF Sealed
  <2>2. p <= MaxStart
    <3> DEFINE n == Len(current)
               m == Len(Run)
    <3>1. n \in Nat /\ m \in Nat /\ m = span.length
      BY RunIs DEF Sealed
    <3> HIDE DEF n, m
    <3>2. p + m <= n
      BY <2>1, <3>1 DEF n
    <3>3. p <= n - m
      BY <2>1, <3>1, <3>2
    <3> QED BY <3>3 DEF n, m, MaxStart
  <2>3. PICK i \in DOMAIN Z : p \in Z[i]
    BY <2>1, <2>2, AllAreTried
  <2> QED BY <1>2, <2>3
<1>3. ASSUME reply.status = "PRESENT"
      PROVE  Occurs(current, reply.start)
  BY <1>1, <1>3
<1>4. ASSUME NEW i \in DOMAIN Z, NEW p \in hits(i) PROVE \E q \in 0..Len(current) : Occurs(current, q)
  <2>1. p \in Nat /\ Occurs(current, p)
    BY OrderNumbers
  <2>2. p + span.length <= Len(current)
    BY <2>1, OccursThere DEF Sealed
  <2>3. p \in 0..Len(current)
    <3> DEFINE n == Len(current)
    <3>1. n \in Nat /\ p + span.length <= n /\ span.length \in Nat
      BY <2>2 DEF Sealed
    <3> HIDE DEF n
    <3>2. p \in 0..n
      BY <2>1, <3>1
    <3> QED BY <3>2 DEF n
  <2> QED BY <2>1, <2>3
<1>5. (\E p \in 0..Len(current) : Occurs(current, p)) <=> reply.status = "PRESENT"
  <2> HIDE DEF Z, reply
  <2> QED BY <1>1, <1>2, <1>4
<1> HIDE DEF reply
<1>6. report.result = reply
  BY DEF reply
<1> QED BY <1>1, <1>3, <1>5, <1>6 DEF CompareIsExact

(* A run whose text up to its end, or from its start on, is the old one. *)
LEMMA KeptBefore ==
    ASSUME Sealed, NEW end, end = span.start + span.length,
           UpTo(current, end) = UpTo(source, end)
    PROVE  Occurs(current, span.start)
<1> DEFINE n == Len(current)
           m == Len(source)
           k == Min({end, n})
<1>1. n \in Nat /\ m \in Nat /\ end \in Nat /\ end <= m /\ span.start \in Nat /\ span.length \in Nat
  BY DEF Sealed
<1>2. Min({end, m}) = end /\ k \in Nat /\ k <= n /\ k <= end /\ (k = end \/ k = n)
  <2> HIDE DEF n, m
  <2> QED BY <1>1, MinOfTwo
<1> HIDE DEF k
<1>3. SubSeq(current, 1, k) = SubSeq(source, 1, end)
  BY <1>2 DEF UpTo, k
<1>4. /\ Len(SubSeq(current, 1, k)) = k /\ \A i \in 1..k : SubSeq(current, 1, k)[i] = current[i]
      /\ Len(SubSeq(source, 1, end)) = end /\ \A i \in 1..end : SubSeq(source, 1, end)[i] = source[i]
  BY <1>1, <1>2 DEF Sealed
<1>5. k = end /\ \A i \in 1..end : current[i] = source[i]
  BY <1>3, <1>4
<1>6. \A i \in 1..span.length : current[span.start + i] = source[span.start + i]
  BY <1>1, <1>5
<1>7. span.start + span.length <= Len(current)
  BY <1>2, <1>5
<1>8. current \in Seq(Byte)
  BY DEF Sealed
<1> QED BY <1>1, <1>6, <1>7, <1>8, OccursThere

LEMMA SuffixKept ==
    ASSUME NEW u \in Seq(Byte), NEW v \in Seq(Byte), NEW x \in Nat, NEW tail \in Nat \ {0}, Len(v) = tail + x,
           Onwards(u, tail) = Onwards(v, tail)
    PROVE  tail <= Len(u) /\ \A i \in 1..tail : u[(Len(u) - tail) + i] = v[x + i]
<1> DEFINE n == Len(u)
           m == Len(v)
           a == Max({1, n - tail + 1})
           b == Max({1, m - tail + 1})
<1>1. n \in Nat /\ m \in Nat /\ m = tail + x
  OBVIOUS
<1>2. u \in Seq(Byte) /\ v \in Seq(Byte) /\ n = Len(u) /\ m = Len(v)
  OBVIOUS
<1>3. SubSeq(u, a, n) = SubSeq(v, b, m)
  BY DEF Onwards
<1> HIDE DEF n, m
<1>4. a = IF 1 <= n - tail + 1 THEN n - tail + 1 ELSE 1
  <2> DEFINE c == n - tail + 1
  <2>1. c \in Int
    BY <1>1
  <2> HIDE DEF c
  <2>2. Max({1, c}) = IF 1 <= c THEN c ELSE 1
    BY <2>1, MaxOfTwo
  <2> QED BY <2>2 DEF c
<1>5. b = x + 1
  <2> DEFINE c == m - tail + 1
  <2>1. c \in Int /\ c = x + 1 /\ 1 <= c
    BY <1>1
  <2> HIDE DEF c
  <2>2. Max({1, c}) = IF 1 <= c THEN c ELSE 1
    BY <2>1, MaxOfTwo
  <2>3. Max({1, c}) = c
    BY <2>1, <2>2
  <2> QED BY <2>1, <2>3 DEF c
<1> HIDE DEF a, b
<1>6. Len(SubSeq(v, b, m)) = tail /\ \A i \in 1..tail : SubSeq(v, b, m)[i] = v[x + i]
  <2>1. SubSeq(v, x + 1, m) \in Seq(Byte) /\ Len(SubSeq(v, x + 1, m)) = tail
    BY <1>1, <1>2
  <2>2. \A i \in 1..tail : SubSeq(v, x + 1, m)[i] = v[x + i]
    BY <1>1, <1>2
  <2> QED BY <1>5, <2>1, <2>2
<1>7. tail <= n
  <2> SUFFICES ASSUME ~(tail <= n) PROVE FALSE
    OBVIOUS
  <2>1. a = 1
    BY <1>1, <1>4
  <2>2. Len(SubSeq(u, 1, n)) = n
    BY <1>1, <1>2
  <2>3. Len(SubSeq(u, a, n)) = n
    BY <2>1, <2>2
  <2>4. n = tail
    BY <1>3, <1>6, <2>3
  <2> QED BY <1>1, <2>4
<1>8. \A i \in 1..tail : SubSeq(u, a, n)[i] = u[(n - tail) + i]
  <2>1. a = n - tail + 1
    BY <1>1, <1>4, <1>7
  <2> DEFINE d == n - tail
  <2>2. d \in Nat /\ a = d + 1 /\ n = d + tail
    BY <1>1, <1>7, <2>1
  <2> HIDE DEF d
  <2>3. \A i \in 1..tail : SubSeq(u, d + 1, n)[i] = u[d + i]
    BY <1>2, <2>2
  <2>4. \A i \in 1..tail : SubSeq(u, a, n)[i] = u[d + i]
    BY <2>2, <2>3
  <2> QED BY <2>4 DEF d
<1>9. \A i \in 1..tail : u[(n - tail) + i] = v[x + i]
  BY <1>3, <1>6, <1>8
<1> QED BY <1>7, <1>9 DEF n

LEMMA KeptBehind ==
    ASSUME Sealed, NEW tail, tail = Len(source) - span.start,
           Onwards(current, tail) = Onwards(source, tail)
    PROVE  Len(current) - tail \in Nat /\ Occurs(current, Len(current) - tail)
<1> DEFINE n == Len(current)
           m == Len(source)
           x == span.start
           l == span.length
<1>1. n \in Nat /\ m \in Nat /\ x \in Nat /\ l \in Nat \ {0} /\ x + l <= m /\ tail = m - x
  BY DEF Sealed
<1>2. source \in Seq(Byte) /\ current \in Seq(Byte)
  BY DEF Sealed
<1> HIDE DEF n, m, x, l
<1>3. tail \in Nat \ {0} /\ m = tail + x /\ l <= tail
  BY <1>1
<1>4. tail <= n /\ \A i \in 1..tail : current[(n - tail) + i] = source[x + i]
  <2>1. Len(current) \in Nat /\ Len(source) = tail + x
    BY <1>1, <1>3 DEF n, m
  <2>2. Onwards(current, tail) = Onwards(source, tail)
    OBVIOUS
  <2>3. /\ tail <= Len(current)
        /\ \A i \in 1..tail : current[(Len(current) - tail) + i] = source[x + i]
    BY <1>1, <1>2, <1>3, <2>1, <2>2, SuffixKept
  <2> QED BY <2>3 DEF n
<1> DEFINE at == n - tail
<1>5. at \in Nat /\ at + l <= n /\ \A i \in 1..l : current[at + i] = source[x + i]
  <2>1. at \in Nat /\ at + l <= n
    BY <1>1, <1>3, <1>4
  <2>2. \A i \in 1..tail : current[at + i] = source[x + i]
    BY <1>4
  <2>3. \A i \in 1..l : i \in 1..tail
    BY <1>1, <1>3
  <2> HIDE DEF at
  <2> QED BY <2>1, <2>2, <2>3
<1> HIDE DEF at
<1>6. at + span.length <= Len(current) /\ \A i \in 1..span.length : current[at + i] = source[span.start + i]
  BY <1>5 DEF l, n, x
<1>7. Occurs(current, at)
  BY <1>2, <1>5, <1>6, OccursThere
<1> QED BY <1>5, <1>7 DEF at, n

(* What occurs in the first three sets is reported from one of them.       *)
LEMMA FoundEarly ==
    ASSUME Sealed, NEW Z, Z = SearchOrder, NEW i \in 1..3, NEW p \in Z[i], Occurs(current, p)
    PROVE  \E k \in 1..3 : /\ k <= i /\ Search.start \in Z[k] /\ Occurs(current, Search.start)
                           /\ \A j \in 1..3 : \A q : q \in Z[j] /\ Occurs(current, q) => k <= j
<1> DEFINE hits(j) == {q \in Z[j] : Occurs(current, q)}
<1>1. DOMAIN Z = 1..Len(Z) /\ (Len(Z) = 4 \/ Len(Z) = 5)
  BY OrderIs
<1>2. 1..3 \subseteq DOMAIN Z
  BY <1>1
<1>3. i \in DOMAIN Z /\ hits(i) # {}
  BY <1>2
<1>4. \E k \in DOMAIN Z : /\ k <= i /\ Search.start \in hits(k)
                          /\ \A j \in DOMAIN Z : hits(j) # {} => k <= j
  BY <1>3, SearchFinds
<1>5. PICK k \in DOMAIN Z : /\ k <= i /\ Search.start \in hits(k)
                            /\ \A j \in DOMAIN Z : hits(j) # {} => k <= j
  BY <1>4
<1>6. k \in 1..3
  BY <1>1, <1>5
<1>7. \A j \in 1..3 : \A q : q \in Z[j] /\ Occurs(current, q) => k <= j
  BY <1>2, <1>5
<1> QED BY <1>5, <1>6, <1>7

LEMMA EditsAreRight ==
    ASSUME Sealed, report.result = Search
    PROVE  EditsAreFollowed
<1> DEFINE Z == SearchOrder
           f == FirstPoint
           s == SecondPoint
           max == MaxStart
           I == Interval
           n == Len(current)
           m == Len(source)
           start == Search.start
           Occ(p) == Occurs(current, p)
<1>1. /\ f = span.start /\ f \in Nat /\ span.length \in Nat \ {0} /\ n \in Nat /\ m \in Nat
      /\ s = n - (m - f) /\ s \in Int /\ max = n - span.length /\ f + span.length <= m
  <2>1. f = span.start
    BY DEF FirstPoint
  <2>2. f \in Nat /\ span.length \in Nat \ {0} /\ n \in Nat /\ m \in Nat /\ f + span.length <= m
    BY <2>1 DEF Sealed
  <2>3. max = n - span.length
    BY RunIs DEF MaxStart
  <2>4. s = f + n - m
    BY DEF SecondPoint, FirstPoint
  <2> HIDE DEF n, m, f, s, max
  <2> QED BY <2>1, <2>2, <2>3, <2>4
<1>2. Z[1] = {f} \cap 0..max /\ Z[2] = ({s} \ {f}) \cap 0..max /\ Z[3] = Scanned(I)
  BY OrderIs
<1>3. \A p \in Int : p \in I <=> 0 <= p /\ p <= max /\ ((f <= p /\ p <= s) \/ (s <= p /\ p <= f))
  BY IntervalIs
<1>4. Scanned(I) \subseteq I /\ I \subseteq Nat
  BY IntervalIs DEF Scanned
<1>5. \A p \in Nat : Occ(p) => p <= max
  <2> SUFFICES ASSUME NEW p \in Nat, Occ(p) PROVE p <= max
    OBVIOUS
  <2>1. p + span.length <= n
    BY OccursThere DEF Sealed
  <2> HIDE DEF n, max
  <2> QED BY <1>1, <2>1
<1>6. ASSUME NEW i \in 1..3, NEW p \in Z[i], Occ(p)
      PROVE  \E k \in 1..3 : /\ k <= i /\ start \in Z[k] /\ Occ(start)
                             /\ \A j \in 1..3 : \A q : q \in Z[j] /\ Occ(q) => k <= j
  BY <1>6, FoundEarly
<1>7. \A p \in Nat : p \in I /\ p <= max => \E i \in 1..3 : p \in Z[i]
  BY AllAreTried
<1>8. Occ(f) => start = f
  <2> HIDE DEF Z, f, s, max, I, start, Occ
  <2>1. SUFFICES ASSUME Occ(f) PROVE start = f
    OBVIOUS
  <2>2. f \in Z[1] /\ 1 \in 1..3
    BY <1>1, <1>2, <1>5, <2>1
  <2>3. \E k \in 1..3 : k <= 1 /\ start \in Z[k]
    BY <1>6, <2>1, <2>2
  <2>4. start \in Z[1]
    BY <2>3
  <2> QED BY <1>2, <2>4
<1>9. s \in Nat /\ Occ(s) /\ ~Occ(f) => start = s
  <2> HIDE DEF Z, f, s, max, I, start, Occ
  <2>1. SUFFICES ASSUME s \in Nat, Occ(s), ~Occ(f) PROVE start = s
    OBVIOUS
  <2>2. s \in Z[2] /\ 2 \in 1..3
    BY <1>1, <1>2, <1>5, <2>1
  <2>3. \E k \in 1..3 : k <= 2 /\ start \in Z[k] /\ Occ(start)
    BY <1>6, <2>1, <2>2
  <2>4. start \in Z[1] \cup Z[2] /\ Occ(start)
    BY <2>3
  <2>5. start # f
    BY <2>1, <2>4
  <2> QED BY <1>2, <2>4, <2>5
<1>10. ASSUME NEW p \in Nat, p \in I, Occ(p) PROVE start \in I \cup {f, s}
  <2> HIDE DEF Z, f, s, max, I, start, Occ
  <2>1. PICK i \in 1..3 : p \in Z[i]
    BY <1>5, <1>7, <1>10
  <2>2. \E k \in 1..3 : start \in Z[k]
    BY <1>6, <1>10, <2>1
  <2>3. start \in Z[1] \cup Z[2] \cup Z[3]
    BY <2>2
  <2> QED BY <1>2, <1>4, <2>3
<1> DEFINE end == span.start + span.length
           tail == m - span.start
           moved == n - tail
           between == Min({span.start, moved})..Max({span.start, moved})
<1>11. UpTo(current, end) = UpTo(source, end) => start = span.start
  <2>1. UpTo(current, end) = UpTo(source, end) => Occ(span.start)
    BY KeptBefore
  <2> HIDE DEF start, Occ, f, end
  <2> QED BY <1>1, <1>8, <2>1
<1>12. moved = s /\ tail = m - f
  <2> HIDE DEF n, m, s, f
  <2> QED BY <1>1
<1>13. Onwards(current, tail) = Onwards(source, tail) /\ ~Occ(span.start) => start = moved
  <2>1. Onwards(current, tail) = Onwards(source, tail) => n - tail \in Nat /\ Occ(n - tail)
    BY KeptBehind
  <2> HIDE DEF start, Occ, f, s, n, m, tail
  <2> QED BY <1>1, <1>9, <1>12, <2>1
<1>14. \A p \in Int : p \in between <=> (f <= p /\ p <= s) \/ (s <= p /\ p <= f)
  <2> HIDE DEF f, s, moved
  <2>1. f \in Int /\ s \in Int
    BY <1>1
  <2>2. /\ Min({f, s}) = IF f <= s THEN f ELSE s
        /\ Max({f, s}) = IF f <= s THEN s ELSE f
    BY <2>1, MinOfTwo, MaxOfTwo
  <2>3. between = (IF f <= s THEN f ELSE s)..(IF f <= s THEN s ELSE f)
    BY <1>1, <1>12, <2>2
  <2> HIDE DEF between
  <2> QED BY <1>1, <2>3
<1>15. (\E p \in between \cap 0..n : Occ(p)) => start \in between
  <2> HIDE DEF Z, f, s, max, I, start, Occ, between, n, m
  <2> SUFFICES ASSUME NEW p \in between \cap 0..n, Occ(p) PROVE start \in between
    OBVIOUS
  <2>1. p \in Nat /\ p \in I
    BY <1>1, <1>3, <1>5, <1>14
  <2>2. start \in I \cup {f, s}
    BY <1>10, <2>1
  <2>3. f \in between /\ s \in between
    BY <1>1, <1>14
  <2>4. I \subseteq between
    BY <1>3, <1>4, <1>14
  <2> QED BY <2>2, <2>3, <2>4
<1> HIDE DEF start, end, tail, moved, between
<1>16. report.result.start = start
  BY DEF start
<1>17. /\ UpTo(current, end) = UpTo(source, end) => report.result.start = span.start
       /\ Onwards(current, tail) = Onwards(source, tail) /\ ~Occurs(current, span.start) =>
             report.result.start = moved
       /\ (\E p \in between \cap 0..Len(current) : Occurs(current, p)) => report.result.start \in between
  BY <1>11, <1>13, <1>15, <1>16
<1> QED BY <1>17 DEF EditsAreFollowed, end, tail, moved, between

(* The inductive invariant: the bytes and the run stay as they are, so     *)
(* that what was found in them stays what would be found.                  *)
SealedAnswers == Sealed /\ (report.query = "compare" => report.result = Search)

LEMMA SealedInit == ASSUME WellFormed, TracesInit PROVE SealedAnswers
<1>1. source \in Seq(Byte) /\ current \in Seq(Byte)
  BY DEF WellFormed, TracesInit
<1>2. PICK s \in 0..Len(source), n \in 1..Len(source) : s + n <= Len(source) /\ span = [start |-> s, length |-> n]
  BY DEF TracesInit
<1>3. Sealed
  BY <1>1, <1>2 DEF Sealed
<1>4. report.query # "compare"
  BY DEF TracesInit, Unasked
<1> QED BY <1>3, <1>4 DEF SealedAnswers

LEMMA SealedNext == ASSUME SealedAnswers, [TracesNext]_tracesVars PROVE SealedAnswers'
<1>1. source' = source /\ span' = span /\ current' = current
  BY DEF TracesNext, tracesVars, Compare, EstimateRun, FirstPage, NextPage, Turned
<1>2. Sealed'
  BY <1>1 DEF SealedAnswers, Sealed
<1>3. Search' = Search
  BY <1>1 DEF Search, SearchOrder, Hits, Points, Remainder, Scanned, Interval, FirstPoint, SecondPoint,
              MaxStart, Run, Bytes, Occurs
<1>4. CASE Compare
  BY <1>2, <1>3, <1>4 DEF SealedAnswers, Compare
<1>5. CASE \E ids \in SUBSET Matching(span) : EstimateRun(ids)
  <2>1. report'.query = "estimate"
    BY <1>5 DEF EstimateRun
  <2> QED BY <1>2, <2>1 DEF SealedAnswers
<1>6. CASE (\E view \in Views, n \in PageLimits : FirstPage(view, n)) \/ NextPage
  <2>1. report'.query = "occurrences"
    BY <1>6 DEF FirstPage, NextPage, Turned
  <2> QED BY <1>2, <2>1 DEF SealedAnswers
<1>7. CASE UNCHANGED tracesVars
  <2>1. report' = report
    BY <1>7 DEF tracesVars
  <2> QED BY <1>2, <1>3, <2>1 DEF SealedAnswers
<1> QED BY <1>4, <1>5, <1>6, <1>7 DEF TracesNext

LEMMA SealedIsExact == ASSUME SealedAnswers PROVE SearchIsExact
<1>1. CASE report.query = "compare"
  <2>1. CompareIsExact /\ EditsAreFollowed
    BY <1>1, CompareIsRight, EditsAreRight DEF SealedAnswers
  <2> QED BY <2>1 DEF SearchIsExact
<1>2. CASE report.query # "compare"
  BY <1>2 DEF SearchIsExact, CompareIsExact, EditsAreFollowed
<1> QED BY <1>1, <1>2

(* trace compare (compare.go) finds a sealed run exactly when it occurs    *)
(* in the current bytes, and reports the occurrence that follows the edits *)
(* made around it.                                                         *)
THEOREM SearchExact == TracesSpec => []SearchIsExact
<1>1. TracesInit => SealedAnswers
  BY TextsAssumption, SealedInit
<1>2. SealedAnswers /\ [TracesNext]_tracesVars => SealedAnswers'
  BY SealedNext
<1>3. SealedAnswers => SearchIsExact
  BY SealedIsExact
<1> QED BY <1>1, <1>2, <1>3, PTL DEF TracesSpec

-----------------------------------------------------------------------------
(* The pages of occurrences.  A list of numbers that rises.                *)
Rises(q, S) == /\ q \in Seq(S)
               /\ \A x \in S : \E i \in 1..Len(q) : q[i] = x
               /\ \A i, j \in 1..Len(q) : i < j => q[i] < q[j]

LEMMA OrderedIsList ==
    ASSUME NEW S \in SUBSET Nat
    PROVE  Ordered(S) = List(LessOn(S), S)
<1> DEFINE a(i) == CHOOSE x \in S : Cardinality({y \in S : y < x}) = i - 1
           b(i) == CHOOSE x \in S : Rank(LessOn(S), S, x) = i - 1
<1>1. \A x \in S : {y \in S : y < x} = {y \in S : <<y, x>> \in LessOn(S)}
  BY DEF LessOn
<1>2. \A x \in S : Cardinality({y \in S : y < x}) = Rank(LessOn(S), S, x)
  BY <1>1 DEF Rank
<1>3. \A i : a(i) = b(i)
  BY <1>2
<1>4. Ordered(S) = [i \in 1..Cardinality(S) |-> a(i)]
  BY DEF Ordered
<1>5. List(LessOn(S), S) = [i \in 1..Cardinality(S) |-> b(i)]
  BY DEF List
<1> HIDE DEF a, b
<1> QED BY <1>3, <1>4, <1>5

LEMMA OrderedRises ==
    ASSUME NEW S \in SUBSET Nat, IsFiniteSet(S)
    PROVE  Rises(Ordered(S), S) /\ Len(Ordered(S)) = Cardinality(S)
<1> DEFINE R == LessOn(S)
           q == List(R, S)
           n == Cardinality(S)
<1>1. Orders(R, S)
  BY NumbersAreOrdered
<1>2. /\ q \in Seq(S) /\ Len(q) = n /\ n \in Nat
      /\ \A x \in S : \E i \in 1..n : q[i] = x
  BY <1>1, ListHasAll, FS_CardinalityType
<1>3. ASSUME NEW i \in 1..n PROVE q[i] \in S /\ Rank(R, S, q[i]) = i - 1
  <2>1. i - 1 \in 0..(n - 1)
    BY <1>2
  <2> HIDE DEF R
  <2>2. \E x \in S : Rank(R, S, x) = i - 1
    <3>1. \A k \in 0..(Cardinality(S) - 1) : \E x \in S : Rank(R, S, x) = k
      BY <1>1, RanksCount
    <3> QED BY <2>1, <3>1
  <2>3. q[i] = CHOOSE x \in S : Rank(R, S, x) = i - 1
    BY DEF List
  <2> HIDE DEF q
  <2> QED BY <2>2, <2>3
<1>4. ASSUME NEW i \in 1..n, NEW j \in 1..n, i < j PROVE q[i] < q[j]
  <2>1. q[i] \in S /\ q[j] \in S /\ Rank(R, S, q[i]) = i - 1 /\ Rank(R, S, q[j]) = j - 1
    BY <1>3
  <2>2. \A x, y \in S : <<x, y>> \in R <=> x < y
    BY DEF LessOn
  <2> HIDE DEF q, R
  <2>3. ASSUME q[j] < q[i] PROVE FALSE
    <3>1. Rank(R, S, q[j]) < Rank(R, S, q[i])
      BY <1>1, <2>1, <2>2, <2>3, RankGrows
    <3> QED BY <1>2, <1>4, <2>1, <3>1
  <2>4. q[i] # q[j]
    BY <1>2, <1>4, <2>1
  <2>5. q[i] \in Nat /\ q[j] \in Nat
    BY <2>1
  <2> QED BY <2>3, <2>4, <2>5
<1> HIDE DEF q, n
<1>5. Rises(q, S)
  BY <1>2, <1>4 DEF Rises
<1> QED BY <1>2, <1>5, OrderedIsList DEF q, R, n

(* It is the only one. *)
LEMMA OneRises ==
    ASSUME NEW S \in SUBSET Nat, NEW q, Rises(q, S)
    PROVE  IsFiniteSet(S) /\ Len(q) = Cardinality(S) /\ q = Ordered(S)
<1> DEFINE n == Len(q)
           R == LessOn(S)
<1>1. n \in Nat /\ q \in Seq(S) /\ (\A i \in 1..n : q[i] \in S /\ q[i] \in Nat)
  <2>1. q \in Seq(S) /\ n \in Nat
    BY DEF Rises
  <2>2. \A i \in 1..n : q[i] \in S
    BY <2>1
  <2> QED BY <2>1, <2>2
<1>2. /\ \A i, j \in 1..n : i < j => q[i] < q[j]
      /\ \A x \in S : \E i \in 1..n : q[i] = x
  BY DEF Rises
<1> HIDE DEF n
<1>3. \A i, j \in 1..n : q[i] < q[j] => i < j
  <2> SUFFICES ASSUME NEW i \in 1..n, NEW j \in 1..n, q[i] < q[j], ~(i < j) PROVE FALSE
    OBVIOUS
  <2>1. i = j \/ j < i
    BY <1>1
  <2> QED BY <1>1, <1>2, <2>1
<1>4. ASSUME NEW k \in 0..n
      PROVE  LET B == {q[i] : i \in 1..k} IN IsFiniteSet(B) /\ Cardinality(B) = k
  <2> DEFINE B == {q[i] : i \in 1..k}
             f == [i \in 1..k |-> q[i]]
  <2>1. f \in [1..k -> B] /\ (\A y \in B : \E i \in 1..k : f[i] = y)
    OBVIOUS
  <2>2. \A i, j \in 1..k : f[i] = f[j] => i = j
    <3> SUFFICES ASSUME NEW i \in 1..k, NEW j \in 1..k, q[i] = q[j], i # j PROVE FALSE
      OBVIOUS
    <3>1. i \in 1..n /\ j \in 1..n /\ (i < j \/ j < i)
      BY <1>1
    <3> QED BY <1>1, <1>2, <3>1
  <2> HIDE DEF B, f
  <2>3. f \in Bijection(1..k, B)
    BY <2>1, <2>2 DEF Bijection, Injection, Surjection, IsInjective
  <2>4. IsFiniteSet(1..k) /\ Cardinality(1..k) = k
    <3>1. k \in Nat /\ 1 \in Int /\ k \in Int
      BY <1>1
    <3>2. IsFiniteSet(1..k) /\ Cardinality(1..k) = IF 1 > k THEN 0 ELSE k - 1 + 1
      BY <3>1, FS_Interval
    <3> QED BY <3>1, <3>2
  <2>5. IsFiniteSet(B) /\ Cardinality(B) = Cardinality(1..k)
    <3>1. f \in Surjection(1..k, B) /\ f \in Injection(1..k, B)
      BY <2>3 DEF Bijection
    <3> DEFINE A == 1..k
    <3>2. f \in Bijection(A, B) /\ IsFiniteSet(A)
      BY <2>3, <2>4
    <3> HIDE DEF A
    <3>3. IsFiniteSet(B) /\ Cardinality(B) = Cardinality(A)
      BY <3>2, FS_Bijection DEF ExistsBijection
    <3> QED BY <3>3 DEF A
  <2> QED BY <2>4, <2>5 DEF B
<1>5. S = {q[i] : i \in 1..n} /\ n \in 0..n
  <2>1. n \in 0..n
    BY <1>1
  <2>2. \A i \in 1..n : q[i] \in S
    BY <1>1
  <2>3. \A x \in S : \E i \in 1..n : q[i] = x
    BY <1>2
  <2> QED BY <2>1, <2>2, <2>3
<1>6. IsFiniteSet(S) /\ Cardinality(S) = n
  BY <1>4, <1>5
<1>7. ASSUME NEW i \in 1..n PROVE Rank(R, S, q[i]) = i - 1
  <2> DEFINE B == {y \in S : <<y, q[i]>> \in R}
             k == i - 1
  <2>1. k \in 0..n /\ \A j \in 1..n : j \in 1..k <=> j < i
    BY <1>1
  <2>2. \A x, y \in S : <<x, y>> \in R <=> x < y
    BY DEF LessOn
  <2>3. B = {q[j] : j \in 1..k}
    <3> HIDE DEF R, k
    <3>1. \A j \in 1..k : j \in 1..n
      BY <1>1, <2>1
    <3>2. ASSUME NEW j \in 1..k PROVE q[j] \in B
      <4>1. j \in 1..n /\ j < i
        BY <2>1, <3>1
      <4>2. q[j] \in S /\ q[i] \in S /\ q[j] < q[i]
        BY <1>1, <1>2, <4>1
      <4> QED BY <2>2, <4>2
    <3>3. ASSUME NEW x \in B PROVE \E j \in 1..k : q[j] = x
      <4>1. PICK j \in 1..n : q[j] = x
        BY <1>2
      <4>2. q[i] \in S /\ x \in S /\ x < q[i]
        BY <1>1, <2>2
      <4>3. j < i
        BY <1>3, <4>1, <4>2
      <4> QED BY <2>1, <4>1, <4>3
    <3> HIDE DEF B
    <3> QED BY <3>2, <3>3
  <2> HIDE DEF B, k
  <2>4. Cardinality(B) = k
    BY <1>4, <2>1, <2>3
  <2> QED BY <2>4 DEF B, k, Rank
<1>8. Orders(R, S)
  BY NumbersAreOrdered
<1>9. ASSUME NEW i \in 1..n PROVE List(R, S)[i] = q[i]
  <2>1. List(R, S)[i] = CHOOSE x \in S : Rank(R, S, x) = i - 1
    BY <1>6 DEF List
  <2>2. q[i] \in S /\ Rank(R, S, q[i]) = i - 1
    BY <1>1, <1>7
  <2> HIDE DEF R
  <2>3. \A x \in S : Rank(R, S, x) = i - 1 => x = q[i]
    <3>1. \A x, y \in S : Rank(R, S, x) = Rank(R, S, y) => x = y
      BY <1>6, <1>8, RanksCount
    <3> QED BY <2>2, <3>1
  <2> QED BY <2>1, <2>2, <2>3
<1>10. List(R, S) \in Seq(S) /\ Len(List(R, S)) = n
  <2> HIDE DEF R
  <2> QED BY <1>6, <1>8, ListHasAll
<1>11. q = List(R, S)
  <2> DEFINE l == List(R, S)
  <2>1. l \in Seq(S) /\ Len(l) = n /\ (\A i \in 1..n : l[i] = q[i]) /\ Len(q) = n /\ q \in Seq(S)
    BY <1>1, <1>9, <1>10 DEF n
  <2> HIDE DEF l
  <2>2. q = l
    BY <2>1, SeqEqual
  <2> QED BY <2>2 DEF l
<1> QED BY <1>6, <1>11, OrderedIsList DEF n

(* What follows one of them. *)
Above(S, x) == {p \in S : p > x}

LEMMA OrderedTail ==
    ASSUME NEW S \in SUBSET Nat, IsFiniteSet(S), NEW k \in 0..Len(Ordered(S)),
           NEW after, after = IF k = 0 THEN -1 ELSE Ordered(S)[k]
    PROVE  LET r == Ordered(Above(S, after))
           IN  /\ r \in Seq(Nat) /\ Len(r) = Len(Ordered(S)) - k
               /\ \A i \in 1..Len(r) : r[i] = Ordered(S)[k + i]
<1> DEFINE q == Ordered(S)
           r == Ordered(Above(S, after))
           n == Len(q)
           U == Above(S, after)
           t == SubSeq(q, k + 1, n)
<1>1. Rises(q, S)
  BY OrderedRises
<1>2. /\ n \in Nat /\ q \in Seq(S) /\ (\A i \in 1..n : q[i] \in S /\ q[i] \in Nat)
      /\ \A i, j \in 1..n : i < j => q[i] < q[j]
      /\ \A x \in S : \E i \in 1..n : q[i] = x
  <2>1. /\ n \in Nat /\ q \in Seq(S)
        /\ \A i, j \in 1..n : i < j => q[i] < q[j]
        /\ \A x \in S : \E i \in 1..n : q[i] = x
    BY <1>1 DEF Rises
  <2>2. \A i \in 1..n : q[i] \in S
    BY <2>1
  <2> QED BY <2>1, <2>2
<1> HIDE DEF q
<1>3. after = IF k = 0 THEN -1 ELSE q[k]
  BY DEF q
<1>4. k \in Nat /\ k <= n
  BY <1>2 DEF q
<1>5. Len(t) = n - k /\ Len(t) \in Nat /\ t \in Seq(S) /\ (\A i \in 1..(n - k) : t[i] = q[k + i])
  <2> HIDE DEF n
  <2>1. q \in Seq(S) /\ k + 1 \in 1..(n + 1) /\ n = Len(q)
    BY <1>2, <1>4 DEF n
  <2>2. Len(t) = n - k /\ t \in Seq(S) /\ (\A i \in 1..(n - k) : t[i] = q[k + i])
    BY <1>2, <1>4, <2>1
  <2> QED BY <1>2, <1>4, <2>2
<1> HIDE DEF n, t
<1>6. \A i \in 1..n : q[i] > after <=> i > k
  <2> SUFFICES ASSUME NEW i \in 1..n PROVE q[i] > after <=> i > k
    OBVIOUS
  <2>1. CASE k = 0
    BY <1>2, <1>3, <2>1
  <2>2. CASE k # 0
    <3>1. k \in 1..n /\ after = q[k]
      BY <1>2, <1>4, <1>3, <2>2
    <3>2. i > k => q[i] > after
      BY <1>2, <3>1
    <3>3. i = k => ~(q[i] > after)
      BY <1>2, <3>1
    <3>4. i < k => ~(q[i] > after)
      BY <1>2, <3>1
    <3> QED BY <1>2, <1>4, <3>2, <3>3, <3>4
  <2> QED BY <2>1, <2>2
<1>7. ASSUME NEW i \in 1..(n - k) PROVE k + i \in 1..n /\ t[i] = q[k + i] /\ t[i] \in U
  BY <1>2, <1>4, <1>5, <1>6 DEF Above
<1>8. \A x \in U : \E i \in 1..(n - k) : t[i] = x
  <2> SUFFICES ASSUME NEW x \in U PROVE \E i \in 1..(n - k) : t[i] = x
    OBVIOUS
  <2>1. PICK j \in 1..n : q[j] = x
    BY <1>2 DEF Above
  <2>2. j > k
    BY <1>6, <2>1 DEF Above
  <2>3. j - k \in 1..(n - k) /\ k + (j - k) = j
    BY <1>2, <1>4, <2>2
  <2> QED BY <1>7, <2>1, <2>3
<1>9. \A i, j \in 1..(n - k) : i < j => t[i] < t[j]
  <2> SUFFICES ASSUME NEW i \in 1..(n - k), NEW j \in 1..(n - k), i < j PROVE t[i] < t[j]
    OBVIOUS
  <2>1. k + i < k + j
    BY <1>2, <1>4
  <2> QED BY <1>2, <1>7, <2>1
<1>10. Rises(t, U) /\ U \in SUBSET Nat
  <2>1. U \in SUBSET Nat
    BY DEF Above
  <2>2. t \in Seq(U)
    <3> HIDE DEF U
    <3> QED BY <1>5, <1>7
  <2> HIDE DEF U
  <2>3. Rises(t, U)
    BY <1>5, <1>8, <1>9, <2>2 DEF Rises
  <2> QED BY <2>1, <2>3 DEF U
<1>11. t = r
  <2> HIDE DEF U
  <2>1. t = Ordered(U)
    BY <1>10, OneRises
  <2> QED BY <2>1 DEF U
<1>12. t \in Seq(Nat)
  BY <1>5, SeqMonotonic
<1> QED BY <1>5, <1>11, <1>12 DEF n, q

(* The starts of a text, and what a page shows of them after the first k.  *)
Starts(text) == Ordered({p \in 0..Len(text) : Occurs(text, p)})

LEMMA StartsAreNumbers ==
    ASSUME NEW text \in Seq(Byte)
    PROVE  /\ Starts(text) \in Seq(Nat) /\ Len(Starts(text)) \in Nat
           /\ \A i \in 1..Len(Starts(text)) : Starts(text)[i] \in Nat
<1> DEFINE P == {p \in 0..Len(text) : Occurs(text, p)}
           n == Len(text)
<1>1. n \in Nat
  OBVIOUS
<1>2. IsFiniteSet(0..n)
  <2> HIDE DEF n
  <2>1. 0 \in Int /\ n \in Int
    BY <1>1
  <2> QED BY <2>1, FS_Interval
<1>3. P \in SUBSET (0..n) /\ P \in SUBSET Nat
  BY <1>1
<1>4. IsFiniteSet(P)
  <2> HIDE DEF P, n
  <2> QED BY <1>2, <1>3, FS_Subset
<1> DEFINE q == Ordered(P)
<1>5. Rises(q, P)
  <2> HIDE DEF P
  <2> QED BY <1>3, <1>4, OrderedRises
<1>6. q \in Seq(P)
  <2> HIDE DEF P, q
  <2> QED BY <1>5 DEF Rises
<1> HIDE DEF P, q
<1>7. q \in Seq(Nat)
  BY <1>3, <1>6, SeqMonotonic
<1>8. Len(q) \in Nat /\ \A i \in 1..Len(q) : q[i] \in Nat
  BY <1>7
<1> QED BY <1>7, <1>8 DEF q, P, Starts

PageShows(page, text, k, limit) ==
    /\ page.starts \in Seq(Nat)
    /\ Len(page.starts) = IF Len(Starts(text)) - k <= limit THEN Len(Starts(text)) - k ELSE limit
    /\ \A i \in 1..Len(page.starts) : page.starts[i] = Starts(text)[k + i]
    /\ page.more <=> Len(Starts(text)) - k > limit

LEMMA PageIs ==
    ASSUME Sealed, NEW text \in Seq(Byte), NEW k \in 0..Len(Starts(text)), NEW limit \in Nat,
           NEW after, after = IF k = 0 THEN -1 ELSE Starts(text)[k]
    PROVE  PageShows(Page(text, after, limit), text, k, limit)
<1> DEFINE page == Page(text, after, limit)
           P == {p \in 0..Len(text) : Occurs(text, p)}
           U == Above(P, after)
           V == {p \in (after + 1)..(Len(text) - Len(Run)) : Occurs(text, p)}
           q == Starts(text)
           r == Ordered(V)
           n == Len(text)
           m == Len(Run)
<1>1. n \in Nat /\ m \in Nat /\ q \in Seq(Nat) /\ Len(q) \in Nat /\ (\A i \in 1..Len(q) : q[i] \in Nat)
  BY RunIs, StartsAreNumbers DEF Sealed
<1>2. after \in Int /\ -1 <= after
  <2> HIDE DEF q
  <2>1. CASE k = 0
    BY <2>1
  <2>2. CASE k # 0
    <3>1. k \in 1..Len(q)
      BY <1>1, <2>2 DEF q
    <3>2. after = q[k]
      BY <2>2 DEF q
    <3> QED BY <1>1, <3>1, <3>2
  <2> QED BY <2>1, <2>2
<1>3. \A p \in Nat : Occurs(text, p) => p + m <= n
  BY DEF Occurs
<1>4. U = V
  <2>1. \A p : p \in U <=> p \in 0..n /\ p > after /\ Occurs(text, p)
    BY DEF Above
  <2>2. \A p : p \in V <=> p \in (after + 1)..(n - m) /\ Occurs(text, p)
    OBVIOUS
  <2> HIDE DEF U, V, n, m
  <2>3. ASSUME NEW p, Occurs(text, p) PROVE p \in 0..n /\ p > after <=> p \in (after + 1)..(n - m)
    <3>1. ASSUME p \in 0..n, p > after PROVE p \in (after + 1)..(n - m)
      <4>1. p \in Nat /\ p + m <= n
        BY <1>1, <1>3, <2>3, <3>1
      <4> QED BY <1>1, <1>2, <3>1, <4>1
    <3>2. ASSUME p \in (after + 1)..(n - m) PROVE p \in 0..n /\ p > after
      BY <1>1, <1>2, <3>2
    <3> QED BY <3>1, <3>2
  <2> QED BY <2>1, <2>2, <2>3
<1>5. P \in SUBSET Nat /\ IsFiniteSet(P)
  <2>1. P \in SUBSET (0..n) /\ P \in SUBSET Nat
    BY <1>1
  <2> HIDE DEF P, n
  <2>2. 0 \in Int /\ n \in Int
    BY <1>1
  <2>3. IsFiniteSet(0..n)
    BY <2>2, FS_Interval
  <2> QED BY <2>1, <2>3, FS_Subset
<1>6. q = Ordered(P) /\ r = Ordered(U)
  BY <1>4 DEF Starts
<1>7. /\ r \in Seq(Nat) /\ Len(r) = Len(q) - k
      /\ \A i \in 1..Len(r) : r[i] = q[k + i]
  <2>1. k \in 0..Len(q) /\ after = IF k = 0 THEN -1 ELSE q[k]
    OBVIOUS
  <2> HIDE DEF P, q, r
  <2> QED BY <1>5, <1>6, <2>1, OrderedTail
<1>8. page.starts = SubSeq(r, 1, Min({limit, Len(r)})) /\ page.more = (Len(r) > limit)
  BY DEF Page
<1> HIDE DEF page
<1>9. k \in Nat /\ Len(r) \in Nat
  BY <1>1, <1>7
<1> HIDE DEF q, r
<1>10. Min({limit, Len(r)}) = IF limit <= Len(r) THEN limit ELSE Len(r)
  BY <1>9, MinOfTwo
<1> DEFINE z == IF limit <= Len(r) THEN limit ELSE Len(r)
<1>11. z \in Nat /\ z <= Len(r) /\ z = IF Len(q) - k <= limit THEN Len(q) - k ELSE limit
  <2> DEFINE y == Len(r)
             x == Len(q)
  <2>1. x \in Nat /\ y \in Nat /\ y = x - k /\ k \in Nat
    BY <1>1, <1>7, <1>9
  <2> HIDE DEF x, y
  <2>2. z = IF limit <= y THEN limit ELSE y
    BY DEF y
  <2>3. z \in Nat /\ z <= y /\ z = IF x - k <= limit THEN x - k ELSE limit
    <3> HIDE DEF z
    <3> QED BY <2>1, <2>2
  <2> QED BY <2>3 DEF x, y
<1> DEFINE t == SubSeq(r, 1, z)
<1>12. Min({limit, Len(r)}) = z
  BY <1>10
<1> HIDE DEF z
<1>13. t = page.starts /\ (page.more <=> Len(r) > limit)
  BY <1>8, <1>12
<1>14. t \in Seq(Nat) /\ Len(t) = z /\ (\A i \in 1..z : t[i] = r[i])
  <2>1. r \in Seq(Nat) /\ z \in Nat /\ z <= Len(r)
    BY <1>7, <1>11
  <2> QED BY <2>1
<1> HIDE DEF t
<1>15. \A i \in 1..z : t[i] = q[k + i]
  <2> SUFFICES ASSUME NEW i \in 1..z PROVE t[i] = q[k + i]
    OBVIOUS
  <2>1. i \in 1..Len(r)
    BY <1>9, <1>11
  <2> QED BY <1>7, <1>14, <2>1
<1> QED BY <1>7, <1>11, <1>14, <1>15, <1>13 DEF q, page, PageShows

(* How many there are in the source, and in the current text. *)
OldCount(view) == IF view = "current" THEN 0 ELSE Len(Starts(source))
NewCount(view) == IF view = "snapshot" THEN 0 ELSE Len(Starts(current))
Entry == [view : {"snapshot", "current"}, start : Nat]

(* All the occurrences: those in the source, then those in the current     *)
(* text.                                                                   *)
LEMMA AllIs ==
    ASSUME Sealed, NEW view
    PROVE  /\ OldCount(view) \in Nat /\ NewCount(view) \in Nat /\ Len(All(view)) = OldCount(view) + NewCount(view)
           /\ All(view) \in Seq(Entry)
           /\ \A i \in 1..OldCount(view) : All(view)[i] = [view |-> "snapshot", start |-> Starts(source)[i]]
           /\ \A i \in 1..NewCount(view) : All(view)[OldCount(view) + i] = [view |-> "current", start |-> Starts(current)[i]]
<1> DEFINE E == Entry
           all == All(view)
           a == IF view = "current" THEN 0 ELSE Len(Starts(source))
           b == IF view = "snapshot" THEN 0 ELSE Len(Starts(current))
           in(name, text) == [i \in DOMAIN Starts(text) |-> [view |-> name, start |-> Starts(text)[i]]]
           u == IF view = "current" THEN <<>> ELSE in("snapshot", source)
           v == IF view = "snapshot" THEN <<>> ELSE in("current", current)
<1>1. all = u \o v
  BY DEF All, Starts
<1>2. ASSUME NEW name \in {"snapshot", "current"}, NEW text \in Seq(Byte)
      PROVE  /\ in(name, text) \in Seq(E) /\ Len(in(name, text)) = Len(Starts(text))
             /\ \A i \in 1..Len(Starts(text)) : in(name, text)[i] = [view |-> name, start |-> Starts(text)[i]]
  <2> DEFINE q == Starts(text)
             w == in(name, text)
             k == Len(q)
  <2>1. k \in Nat /\ DOMAIN q = 1..k /\ \A i \in 1..k : q[i] \in Nat
    BY StartsAreNumbers
  <2>2. w = [i \in 1..k |-> [view |-> name, start |-> q[i]]]
    BY <2>1
  <2>3. w \in [1..k -> E]
    <3> HIDE DEF q, k
    <3> QED BY <2>1, <2>2 DEF Entry
  <2>4. \A i \in 1..k : w[i] = [view |-> name, start |-> q[i]]
    <3> HIDE DEF q, k
    <3> QED BY <2>2
  <2> HIDE DEF w, k
  <2>5. w \in Seq(E) /\ Len(w) = k
    <3> HIDE DEF E
    <3>1. w \in Seq(E)
      BY <2>1, <2>3 DEF Seq
    <3> QED BY <2>1, <2>3, <3>1
  <2> QED BY <2>4, <2>5 DEF w, k
<1>3. /\ u \in Seq(E) /\ Len(u) = a
      /\ \A i \in 1..a : u[i] = [view |-> "snapshot", start |-> Starts(source)[i]]
  <2>1. source \in Seq(Byte)
    BY DEF Sealed
  <2>2. CASE view = "current"
    <3> HIDE DEF E, in
    <3>1. u = <<>> /\ a = 0
      BY <2>2
    <3> HIDE DEF u
    <3>2. u \in Seq(E) /\ Len(u) = 0
      BY <3>1, EmptySeq
    <3> QED BY <3>1, <3>2
  <2>3. CASE view # "current"
    <3>1. u = in("snapshot", source) /\ a = Len(Starts(source))
      BY <2>3
    <3> HIDE DEF E, in, u
    <3> QED BY <1>2, <2>1, <3>1
  <2> QED BY <2>2, <2>3
<1>4. /\ v \in Seq(E) /\ Len(v) = b
      /\ \A i \in 1..b : v[i] = [view |-> "current", start |-> Starts(current)[i]]
  <2>1. current \in Seq(Byte)
    BY DEF Sealed
  <2>2. CASE view = "snapshot"
    <3> HIDE DEF E, in
    <3>1. v = <<>> /\ b = 0
      BY <2>2
    <3> HIDE DEF v
    <3>2. v \in Seq(E) /\ Len(v) = 0
      BY <3>1, EmptySeq
    <3> QED BY <3>1, <3>2
  <2>3. CASE view # "snapshot"
    <3>1. v = in("current", current) /\ b = Len(Starts(current))
      BY <2>3
    <3> HIDE DEF E, in, v
    <3> QED BY <1>2, <2>1, <3>1
  <2> QED BY <2>2, <2>3
<1> HIDE DEF u, v, E, all, a, b
<1>5. /\ u \o v \in Seq(E \cup E) /\ Len(u \o v) = Len(u) + Len(v) /\ DOMAIN (u \o v) = 1..(Len(u) + Len(v))
      /\ \A i \in 1..Len(u) : (u \o v)[i] = u[i]
      /\ \A i \in 1..Len(v) : (u \o v)[Len(u) + i] = v[i]
  <2>1. u \in Seq(E) /\ v \in Seq(E)
    BY <1>3, <1>4
  <2> QED BY <2>1, Joined
<1>6. E \cup E = E
  OBVIOUS
<1>7. a \in Nat /\ b \in Nat
  BY <1>3, <1>4
<1>8. /\ Len(all) = a + b /\ all \in Seq(E)
      /\ \A i \in 1..a : all[i] = [view |-> "snapshot", start |-> Starts(source)[i]]
      /\ \A i \in 1..b : all[a + i] = [view |-> "current", start |-> Starts(current)[i]]
  BY <1>1, <1>3, <1>4, <1>5, <1>6
<1> QED BY <1>7, <1>8 DEF E, all, a, b, OldCount, NewCount

LEMMA EntriesAre ==
    ASSUME NEW name \in {"snapshot", "current"}, NEW page, page.starts \in Seq(Nat)
    PROVE  /\ Entries(name, page) \in Seq(Entry) /\ Len(Entries(name, page)) = Len(page.starts)
           /\ \A i \in 1..Len(page.starts) : Entries(name, page)[i] = [view |-> name, start |-> page.starts[i]]
<1> DEFINE q == page.starts
           n == Len(q)
           w == Entries(name, page)
<1>1. n \in Nat /\ DOMAIN q = 1..n /\ \A i \in 1..n : q[i] \in Nat
  OBVIOUS
<1>2. w = [i \in 1..n |-> [view |-> name, start |-> q[i]]]
  BY <1>1 DEF Entries
<1> HIDE DEF q, n, w
<1>3. w \in [1..n -> Entry] /\ \A i \in 1..n : w[i] = [view |-> name, start |-> q[i]]
  BY <1>1, <1>2 DEF Entry
<1>4. w \in Seq(Entry) /\ Len(w) = n
  <2>1. w \in Seq(Entry)
    BY <1>1, <1>3 DEF Seq
  <2> QED BY <1>1, <1>3, <2>1
<1> QED BY <1>3, <1>4 DEF q, n, w

(* A page continues where the last one ended. *)
CollectedWell(view, limit, k, last) ==
    LET page == Collected(view, limit, last)
        rest == Len(All(view)) - k
    IN  /\ page.entries \in Seq(Entry)
        /\ Len(page.entries) = IF rest <= limit THEN rest ELSE limit
        /\ \A i \in 1..Len(page.entries) : page.entries[i] = All(view)[k + i]
        /\ page.more <=> rest > limit

LEMMA CollectedIs ==
    ASSUME Sealed, NEW view \in Views, NEW limit \in Nat \ {0}, NEW k \in 0..Len(All(view)),
           NEW last, last = IF k = 0 THEN [view |-> "none", start |-> -1] ELSE All(view)[k]
    PROVE  CollectedWell(view, limit, k, last)
<1> DEFINE A == Starts(source)
           B == Starts(current)
           all == All(view)
           a == OldCount(view)
           b == NewCount(view)
           ks == IF k <= a THEN k ELSE a
           kc == IF k <= a THEN 0 ELSE k - a
           snap == IF view # "current" /\ last.view \in {"none", "snapshot"}
                   THEN Page(source, last.start, limit) ELSE [starts |-> <<>>, more |-> FALSE]
           s == Len(snap.starts)
           left == limit - s
           after == IF last.view = "current" THEN last.start ELSE -1
           cur == Page(current, after, left)
           any == Page(current, -1, 1)
           page == Collected(view, limit, last)
<1>1. /\ a \in Nat /\ b \in Nat /\ Len(all) = a + b
      /\ \A i \in 1..a : all[i] = [view |-> "snapshot", start |-> A[i]]
      /\ \A i \in 1..b : all[a + i] = [view |-> "current", start |-> B[i]]
  BY AllIs
<1>2. k \in Nat /\ k <= a + b /\ limit \in Nat /\ limit > 0
  BY <1>1
<1>3. source \in Seq(Byte) /\ current \in Seq(Byte)
  BY DEF Sealed
<1>4. view = "snapshot" \/ view = "current" \/ view = "both"
  BY DEF Views
<1>5. /\ k = 0 => last.view = "none" /\ last.start = -1
      /\ k # 0 /\ k <= a => last.view = "snapshot" /\ last.start = A[k]
      /\ ~(k <= a) => last.view = "current" /\ last.start = B[kc]
      /\ kc \in 0..b /\ ks \in 0..a
  <2> HIDE DEF a, b, A, B, all
  <2>1. k = 0 => last.view = "none" /\ last.start = -1
    OBVIOUS
  <2>2. k # 0 => last = all[k]
    BY DEF all
  <2>3. ASSUME k # 0, k <= a PROVE last.view = "snapshot" /\ last.start = A[k]
    <3>1. k \in 1..a
      BY <1>1, <1>2, <2>3
    <3>2. last = [view |-> "snapshot", start |-> A[k]]
      BY <1>1, <2>2, <2>3, <3>1
    <3> QED BY <3>2
  <2>4. ASSUME ~(k <= a) PROVE last.view = "current" /\ last.start = B[kc]
    <3>1. kc \in 1..b /\ a + kc = k /\ k # 0
      BY <1>1, <1>2, <2>4
    <3>2. all[a + kc] = [view |-> "current", start |-> B[kc]]
      BY <1>1, <3>1
    <3>3. last = [view |-> "current", start |-> B[kc]]
      BY <2>2, <3>1, <3>2
    <3> QED BY <3>3
  <2>5. kc \in 0..b /\ ks \in 0..a
    BY <1>1, <1>2
  <2> QED BY <2>1, <2>3, <2>4, <2>5
<1>6. /\ snap.starts \in Seq(Nat) /\ s = IF a - ks <= limit THEN a - ks ELSE limit
      /\ \A i \in 1..s : snap.starts[i] = A[ks + i]
      /\ snap.more <=> a - ks > limit
  <2>1. CASE view # "current" /\ k <= a
    <3>1. a = Len(A) /\ ks = k /\ last.view \in {"none", "snapshot"}
      BY <1>2, <1>5, <2>1 DEF OldCount
    <3>2. snap = Page(source, last.start, limit)
      BY <2>1, <3>1
    <3>3. k \in 0..Len(A) /\ last.start = IF k = 0 THEN -1 ELSE A[k]
      <4>1. k \in 0..Len(A)
        <5> HIDE DEF a, A
        <5> QED BY <1>1, <1>2, <2>1, <3>1
      <4> HIDE DEF a, A
      <4>2. last.start = IF k = 0 THEN -1 ELSE A[k]
        BY <1>5, <2>1
      <4> QED BY <4>1, <4>2
    <3> HIDE DEF snap, ks, a
    <3>4. /\ snap.starts \in Seq(Nat) /\ Len(snap.starts) = IF Len(A) - k <= limit THEN Len(A) - k ELSE limit
          /\ \A i \in 1..Len(snap.starts) : snap.starts[i] = A[k + i]
          /\ snap.more <=> Len(A) - k > limit
      <4> DEFINE x == last.start
      <4>1. k \in 0..Len(A) /\ x = (IF k = 0 THEN -1 ELSE A[k]) /\ snap = Page(source, x, limit)
        BY <3>2, <3>3
      <4> HIDE DEF x
      <4>2. PageShows(snap, source, k, limit)
        BY <1>2, <1>3, <4>1, PageIs
      <4> QED BY <4>2 DEF PageShows
    <3> QED BY <3>1, <3>4
  <2>2. CASE ~(view # "current" /\ k <= a)
    <3>1. a - ks = 0
      BY <1>1, <1>2, <2>2 DEF OldCount
    <3>2. ~(view # "current" /\ last.view \in {"none", "snapshot"})
      BY <1>5, <2>2
    <3>3. snap.starts = <<>> /\ snap.more = FALSE
      BY <3>2
    <3> HIDE DEF snap, a, ks
    <3> QED BY <1>2, <3>1, <3>3
  <2> QED BY <2>1, <2>2
<1>7. left \in Nat /\ after = IF kc = 0 THEN -1 ELSE B[kc]
  <2>1. left \in Nat
    <3> HIDE DEF a, ks, snap, s
    <3>1. ks \in Nat /\ ks <= a
      BY <1>1, <1>5
    <3> QED BY <1>1, <1>2, <1>6, <3>1
  <2>2. after = IF kc = 0 THEN -1 ELSE B[kc]
    <3>1. CASE k <= a
      <4> HIDE DEF a
      <4>1. kc = 0 /\ last.view # "current"
        BY <1>5, <3>1
      <4> QED BY <4>1
    <3>2. CASE ~(k <= a)
      <4>1. last.view = "current" /\ last.start = B[kc]
        BY <1>5, <3>2
      <4>2. kc # 0
        <5> HIDE DEF a
        <5> QED BY <1>1, <1>2, <3>2
      <4> HIDE DEF kc, B
      <4> QED BY <4>1, <4>2
    <3> QED BY <3>1, <3>2
  <2> QED BY <2>1, <2>2
<1>8. ASSUME view # "snapshot"
      PROVE  /\ cur.starts \in Seq(Nat) /\ Len(cur.starts) = IF b - kc <= left THEN b - kc ELSE left
             /\ \A i \in 1..Len(cur.starts) : cur.starts[i] = B[kc + i]
             /\ cur.more <=> b - kc > left
             /\ any.starts # <<>> <=> b > 0
  <2>1. b = Len(B) /\ kc \in 0..Len(B)
    BY <1>5, <1>8 DEF NewCount
  <2> HIDE DEF a, b, kc, left, after
  <2>2. /\ cur.starts \in Seq(Nat) /\ Len(cur.starts) = IF Len(B) - kc <= left THEN Len(B) - kc ELSE left
        /\ \A i \in 1..Len(cur.starts) : cur.starts[i] = B[kc + i]
        /\ cur.more <=> Len(B) - kc > left
    <3>1. PageShows(cur, current, kc, left)
      BY <1>3, <1>7, <2>1, PageIs
    <3> QED BY <3>1 DEF PageShows
  <2>3. any.starts \in Seq(Nat) /\ Len(any.starts) = IF Len(B) - 0 <= 1 THEN Len(B) - 0 ELSE 1
    <3> DEFINE z == 0
               x == -1
    <3>1. z \in 0..Len(B) /\ x = (IF z = 0 THEN -1 ELSE B[z]) /\ 1 \in Nat
      BY <1>1, <2>1
    <3> HIDE DEF z, x
    <3>2. PageShows(Page(current, x, 1), current, z, 1)
      BY <1>3, <3>1, PageIs
    <3> QED BY <3>2 DEF z, x, PageShows
  <2>4. any.starts # <<>> <=> b > 0
    <3> HIDE DEF any, B
    <3>1. any.starts = <<>> <=> Len(any.starts) = 0
      BY <2>3, EmptySeq
    <3> QED BY <1>1, <2>1, <2>3, <3>1
  <2> HIDE DEF cur, any
  <2> QED BY <2>1, <2>2, <2>4
<1>9. snap.more \/ view = "snapshot" => page.entries = Entries("snapshot", snap) /\ page.more = snap.more
  BY DEF Collected
<1>10. ~(snap.more \/ view = "snapshot") =>
          /\ page.entries = Entries("snapshot", snap) \o (IF left = 0 THEN <<>> ELSE Entries("current", cur))
          /\ page.more = IF left = 0 THEN any.starts # <<>> ELSE cur.more
  BY DEF Collected, MoreCurrent
<1> DEFINE u == Entries("snapshot", snap)
           v == Entries("current", cur)
<1>11. /\ u \in Seq(Entry) /\ Len(u) = s
       /\ \A i \in 1..s : u[i] = [view |-> "snapshot", start |-> snap.starts[i]]
  <2> HIDE DEF snap
  <2> QED BY <1>6, EntriesAre
<1>12. ASSUME view # "snapshot"
       PROVE  /\ v \in Seq(Entry) /\ Len(v) = Len(cur.starts)
              /\ \A i \in 1..Len(cur.starts) : v[i] = [view |-> "current", start |-> cur.starts[i]]
  <2>1. cur.starts \in Seq(Nat)
    BY <1>8, <1>12
  <2> HIDE DEF cur
  <2> QED BY <2>1, EntriesAre
<1> HIDE DEF u, v, snap, cur, any, left, after, s, a, b, kc, ks, A, B, all, page
<1>13. /\ ks \in Nat /\ kc \in Nat /\ ks <= a /\ kc <= b /\ s \in Nat /\ left = limit - s /\ left \in Nat
       /\ ks = (IF k <= a THEN k ELSE a) /\ kc = (IF k <= a THEN 0 ELSE k - a)
       /\ s = IF a - ks <= limit THEN a - ks ELSE limit
  <2>1. ks \in Nat /\ kc \in Nat /\ ks <= a /\ kc <= b
    BY <1>1, <1>5
  <2> QED BY <1>1, <1>2, <1>6, <1>7, <2>1 DEF ks, kc, left
<1>14. \A i \in 1..s : u[i] = all[ks + i]
  <2> SUFFICES ASSUME NEW i \in 1..s PROVE u[i] = all[ks + i]
    OBVIOUS
  <2>1. ks + i \in 1..a
    BY <1>1, <1>2, <1>13
  <2>2. all[ks + i] = [view |-> "snapshot", start |-> A[ks + i]]
    BY <1>1, <2>1
  <2> QED BY <1>6, <1>11, <2>2
<1>15. CASE snap.more
  <2>1. page.entries = u /\ page.more
    BY <1>9, <1>15 DEF u
  <2>2. a - ks > limit
    BY <1>6, <1>15
  <2>3. ks = k /\ s = limit /\ Len(all) - k > limit
    BY <1>1, <1>2, <1>13, <2>2
  <2>4. Len(page.entries) = limit /\ page.entries \in Seq(Entry) /\ \A i \in 1..limit : page.entries[i] = all[k + i]
    BY <1>11, <1>14, <2>1, <2>3
  <2>5. ~(Len(all) - k <= limit)
    BY <1>1, <1>2, <2>3
  <2> QED BY <2>1, <2>3, <2>4, <2>5 DEF page, all, CollectedWell
<1>16. CASE ~snap.more /\ view = "snapshot"
  <2>1. page.entries = u /\ ~page.more
    BY <1>9, <1>16 DEF u
  <2>2. b = 0
    BY <1>16 DEF b, NewCount
  <2>3. ~(a - ks > limit)
    BY <1>6, <1>16
  <2>4. ks = k /\ s = Len(all) - k /\ Len(all) - k <= limit /\ ~(Len(all) - k > limit)
    BY <1>1, <1>2, <1>13, <2>2, <2>3
  <2>5. Len(page.entries) = Len(all) - k /\ page.entries \in Seq(Entry)
    BY <1>11, <2>1, <2>4
  <2>6. \A i \in 1..Len(page.entries) : page.entries[i] = all[k + i]
    BY <1>11, <1>14, <2>1, <2>4
  <2> QED BY <2>1, <2>4, <2>5, <2>6 DEF page, all, CollectedWell
<1>17. CASE ~snap.more /\ view # "snapshot" /\ left = 0
  <2>1. page.entries = u \o <<>> /\ page.more = (any.starts # <<>>)
    BY <1>10, <1>17 DEF u
  <2>2. page.entries = u /\ (page.more <=> b > 0)
    BY <1>8, <1>11, <1>17, <2>1, ConcatEmptySeq
  <2>3. ~(a - ks > limit)
    BY <1>6, <1>17
  <2>4. ks = k /\ s = limit /\ Len(all) - k = limit + b
    BY <1>1, <1>2, <1>13, <1>17, <2>3
  <2>5. (b > 0 <=> Len(all) - k > limit) /\ limit = IF Len(all) - k <= limit THEN Len(all) - k ELSE limit
    BY <1>1, <1>2, <2>4
  <2>6. page.entries \in Seq(Entry) /\ Len(page.entries) = limit /\ \A i \in 1..limit : page.entries[i] = all[k + i]
    BY <1>11, <1>14, <2>2, <2>4
  <2> QED BY <2>2, <2>5, <2>6 DEF page, all, CollectedWell
<1>18. CASE ~snap.more /\ view # "snapshot" /\ left # 0
  <2>1. page.entries = u \o v /\ page.more = cur.more
    BY <1>10, <1>18 DEF u, v
  <2> DEFINE c == Len(v)
             w == u \o v
  <2>2. /\ w \in Seq(Entry \cup Entry) /\ Len(w) = Len(u) + Len(v)
        /\ \A i \in 1..Len(u) : w[i] = u[i]
        /\ \A i \in 1..Len(v) : w[Len(u) + i] = v[i]
    <3>1. u \in Seq(Entry) /\ v \in Seq(Entry)
      BY <1>11, <1>12, <1>18
    <3> QED BY <3>1, Joined
  <2> HIDE DEF w
  <2>3. ~(a - ks > limit)
    BY <1>6, <1>18
  <2>4. c = (IF b - kc <= left THEN b - kc ELSE left) /\ (cur.more <=> b - kc > left)
    BY <1>8, <1>12, <1>18
  <2> HIDE DEF c
  <2>5. s = a - ks /\ k + s = a + kc /\ Len(all) - k = s + (b - kc) /\ left = limit - s /\ c \in Nat
    BY <1>1, <1>2, <1>13, <2>3, <2>4
  <2>6. /\ s + c = IF Len(all) - k <= limit THEN Len(all) - k ELSE limit
        /\ b - kc > left <=> Len(all) - k > limit
    BY <1>1, <1>2, <1>13, <2>4, <2>5
  <2>7. ASSUME NEW i \in 1..c PROVE v[i] = all[k + (s + i)]
    <3>1. kc + i \in 1..b /\ k + (s + i) = a + (kc + i)
      BY <1>1, <1>2, <1>13, <2>4, <2>5
    <3>2. all[a + (kc + i)] = [view |-> "current", start |-> B[kc + i]]
      BY <1>1, <3>1
    <3>3. i \in 1..Len(cur.starts)
      BY <1>12, <1>18 DEF c
    <3>4. v[i] = [view |-> "current", start |-> B[kc + i]]
      BY <1>8, <1>12, <1>18, <3>3
    <3> QED BY <3>1, <3>2, <3>4
  <2>8. ASSUME NEW i \in 1..(s + c) PROVE w[i] = all[k + i]
    <3>1. CASE i <= s
      <4>1. i \in 1..s
        BY <1>13, <2>5, <3>1
      <4>2. ks = k
        BY <1>1, <1>2, <1>13, <2>5, <4>1
      <4> QED BY <1>11, <1>14, <2>2, <4>1, <4>2
    <3>2. CASE ~(i <= s)
      <4>1. s \in Nat /\ c \in Nat
        BY <1>13, <2>5
      <4>2. i - s \in 1..c /\ s + (i - s) = i
        BY <3>2, <4>1
      <4>3. w[s + (i - s)] = v[i - s]
        BY <1>11, <2>2, <4>2 DEF c
      <4> QED BY <2>7, <4>2, <4>3
    <3> QED BY <3>1, <3>2
  <2>9. page.entries = w /\ Len(w) = s + c /\ w \in Seq(Entry)
    <3>1. Entry \cup Entry = Entry
      OBVIOUS
    <3> QED BY <1>11, <2>1, <2>2, <3>1 DEF w, c
  <2>10. page.more <=> Len(all) - k > limit
    BY <2>1, <2>4, <2>6
  <2> QED BY <2>6, <2>8, <2>9, <2>10 DEF page, all, CollectedWell
<1> QED BY <1>15, <1>16, <1>17, <1>18

(* The inductive invariant: what is shown is the beginning of all there    *)
(* is, and more is announced exactly when there is more; then something    *)
(* was shown, which the cursor can name.                                   *)
Shows(view) == /\ shown \in Seq(Entry) /\ Len(shown) <= Len(All(view))
               /\ \A i \in 1..Len(shown) : shown[i] = All(view)[i]
               /\ report.more <=> Len(shown) < Len(All(view))
               /\ report.more => Len(shown) > 0

FollowedPages ==
    /\ report.query = "none" => shown = <<>>
    /\ report.query = "occurrences" =>
          \E view \in Views, limit \in Nat \ {0} :
             report.view = view /\ report.limit = limit /\ Shows(view)

LEMMA AllStays ==
    ASSUME UNCHANGED <<source, span, current>>, NEW view
    PROVE  All(view)' = All(view)
BY DEF All, Ordered, Occurs, Bytes, Run

LEMMA TurnedKeeps ==
    ASSUME Sealed, NEW view \in Views, NEW limit \in Nat \ {0},
           shown \in Seq(Entry), Len(shown) <= Len(All(view)), \A i \in 1..Len(shown) : shown[i] = All(view)[i],
           NEW last, last = IF Len(shown) = 0 THEN [view |-> "none", start |-> -1] ELSE All(view)[Len(shown)],
           Turned(view, limit, last)
    PROVE  report'.query = "occurrences" /\ report'.view = view /\ report'.limit = limit /\ Shows(view)'
<1> DEFINE all == All(view)
           k == Len(shown)
           page == Collected(view, limit, last)
           e == page.entries
           rest == Len(all) - k
<1>1. k \in Nat /\ Len(all) \in Nat /\ k <= Len(all)
  BY AllIs
<1>2. k \in 0..Len(all)
  BY <1>1
<1>3. /\ e \in Seq(Entry) /\ Len(e) = IF rest <= limit THEN rest ELSE limit
      /\ \A i \in 1..Len(e) : e[i] = all[k + i]
      /\ page.more <=> rest > limit
  <2> DEFINE kk == Len(shown)
  <2>1. kk \in 0..Len(All(view)) /\ last = IF kk = 0 THEN [view |-> "none", start |-> -1] ELSE All(view)[kk]
    BY <1>2
  <2>2. kk = k
    OBVIOUS
  <2> HIDE DEF kk
  <2>3. CollectedWell(view, limit, kk, last)
    BY <2>1, CollectedIs
  <2> QED BY <2>2, <2>3 DEF CollectedWell
<1>4. /\ shown' = shown \o e /\ UNCHANGED <<source, span, current>>
      /\ report' = [query |-> "occurrences", view |-> view, limit |-> limit, more |-> page.more]
  BY DEF Turned
<1>5. All(view)' = all
  BY <1>4, AllStays
<1> HIDE DEF page, all, k, e, rest
<1>6. report'.query = "occurrences" /\ report'.view = view /\ report'.limit = limit /\ report'.more = page.more
  BY <1>4
<1>7. /\ shown' \in Seq(Entry \cup Entry) /\ Len(shown') = k + Len(e)
      /\ \A i \in 1..k : shown'[i] = shown[i]
      /\ \A i \in 1..Len(e) : shown'[k + i] = e[i]
  <2>1. shown \in Seq(Entry) /\ e \in Seq(Entry)
    BY <1>3
  <2> DEFINE p == shown
  <2>2. /\ p \o e \in Seq(Entry \cup Entry) /\ Len(p \o e) = Len(p) + Len(e)
        /\ \A i \in 1..Len(p) : (p \o e)[i] = p[i]
        /\ \A i \in 1..Len(e) : (p \o e)[Len(p) + i] = e[i]
    BY <2>1, Joined
  <2> QED BY <1>4, <2>2 DEF k
<1> DEFINE c == Len(e)
<1>8. c \in Nat /\ c = IF rest <= limit THEN rest ELSE limit
  BY <1>3
<1> HIDE DEF c
<1>9. ASSUME NEW i \in 1..(k + c) PROVE shown'[i] = all[i]
  <2>1. CASE i <= k
    <3>1. i \in 1..k
      BY <1>1, <1>8, <2>1
    <3>2. shown[i] = all[i]
      BY <3>1 DEF k, all
    <3> QED BY <1>7, <3>1, <3>2
  <2>2. CASE ~(i <= k)
    <3>1. i - k \in 1..c /\ k + (i - k) = i
      BY <1>1, <1>8, <2>2
    <3>2. i - k \in 1..Len(e)
      BY <3>1 DEF c
    <3> QED BY <1>3, <1>7, <3>1, <3>2
  <2> QED BY <2>1, <2>2
<1>10. k + c <= Len(all) /\ (rest > limit <=> k + c < Len(all)) /\ (rest > limit => k + c > 0)
  BY <1>1, <1>8 DEF rest
<1>11. shown' \in Seq(Entry) /\ Len(shown') = k + c
  <2>1. Entry \cup Entry = Entry
    OBVIOUS
  <2> QED BY <1>7, <2>1 DEF c
<1>12. Shows(view)'
  BY <1>3, <1>5, <1>6, <1>9, <1>10, <1>11 DEF Shows
<1> QED BY <1>6, <1>12

LEMMA PagesInit == ASSUME TracesInit PROVE FollowedPages
BY DEF TracesInit, Unasked, FollowedPages

LEMMA PagesNext ==
    ASSUME WellFormed, Sealed, FollowedPages, [TracesNext]_tracesVars
    PROVE  FollowedPages'
<1>1. CASE Compare
  <2>1. report'.query = "compare"
    BY <1>1 DEF Compare
  <2> QED BY <2>1 DEF FollowedPages
<1>2. CASE \E ids \in SUBSET Matching(span) : EstimateRun(ids)
  <2>1. report'.query = "estimate"
    BY <1>2 DEF EstimateRun
  <2> QED BY <2>1 DEF FollowedPages
<1>3. ASSUME NEW view \in Views, NEW limit \in Nat \ {0},
             report'.query = "occurrences", report'.view = view, report'.limit = limit, Shows(view)'
      PROVE  FollowedPages'
  BY <1>3 DEF FollowedPages, Views
<1>4. CASE \E view \in Views, n \in PageLimits : FirstPage(view, n)
  <2>1. PICK view \in Views, n \in PageLimits : FirstPage(view, n)
    BY <1>4
  <2> DEFINE last == [view |-> "none", start |-> -1]
  <2>2. report.query = "none" /\ Turned(view, n, last)
    BY <2>1 DEF FirstPage, Unasked
  <2>3. shown = <<>> /\ n \in Nat \ {0}
    BY <2>1, <2>2 DEF FollowedPages, WellFormed
  <2>4. shown \in Seq(Entry) /\ Len(shown) = 0 /\ Len(All(view)) \in Nat
    <3>1. <<>> \in Seq(Entry) /\ Len(<<>>) = 0
      BY EmptySeq
    <3> QED BY <2>3, <3>1, AllIs
  <2> HIDE DEF last
  <2>5. last = IF Len(shown) = 0 THEN [view |-> "none", start |-> -1] ELSE All(view)[Len(shown)]
    BY <2>4 DEF last
  <2>6. Len(shown) <= Len(All(view)) /\ \A i \in 1..Len(shown) : shown[i] = All(view)[i]
    BY <2>4
  <2>7. report'.query = "occurrences" /\ report'.view = view /\ report'.limit = n /\ Shows(view)'
    BY <2>2, <2>3, <2>4, <2>5, <2>6, TurnedKeeps
  <2> QED BY <1>3, <2>3, <2>7
<1>5. CASE NextPage
  <2>1. report.query = "occurrences" /\ report.more /\ Turned(report.view, report.limit, shown[Len(shown)])
    BY <1>5 DEF NextPage
  <2>2. PICK view \in Views, limit \in Nat \ {0} : report.view = view /\ report.limit = limit /\ Shows(view)
    BY <2>1 DEF FollowedPages
  <2> DEFINE last == shown[Len(shown)]
  <2>3. Turned(view, limit, last)
    BY <2>1, <2>2
  <2>4. /\ shown \in Seq(Entry) /\ Len(shown) <= Len(All(view)) /\ Len(shown) > 0
        /\ \A i \in 1..Len(shown) : shown[i] = All(view)[i]
    BY <2>1, <2>2 DEF Shows
  <2>5. last = IF Len(shown) = 0 THEN [view |-> "none", start |-> -1] ELSE All(view)[Len(shown)]
    <3>1. Len(shown) \in 1..Len(shown) /\ Len(shown) # 0
      BY <2>4
    <3> QED BY <2>4, <3>1
  <2> HIDE DEF last
  <2>6. report'.query = "occurrences" /\ report'.view = view /\ report'.limit = limit /\ Shows(view)'
    BY <2>3, <2>4, <2>5, TurnedKeeps
  <2> QED BY <1>3, <2>6
<1>6. CASE UNCHANGED tracesVars
  <2>1. UNCHANGED <<source, span, current>> /\ report' = report /\ shown' = shown
    BY <1>6 DEF tracesVars
  <2>2. \A view : All(view)' = All(view)
    BY <2>1, AllStays
  <2>3. \A view : Shows(view) => Shows(view)'
    BY <2>1, <2>2 DEF Shows
  <2>4. CASE report.query = "occurrences"
    <3>1. PICK view \in Views, limit \in Nat \ {0} : report.view = view /\ report.limit = limit /\ Shows(view)
      BY <2>4 DEF FollowedPages
    <3> QED BY <1>3, <2>1, <2>3, <2>4, <3>1
  <2>5. CASE report.query # "occurrences"
    BY <2>1, <2>5 DEF FollowedPages
  <2> QED BY <2>4, <2>5
<1> QED BY <1>1, <1>2, <1>4, <1>5, <1>6 DEF TracesNext

LEMMA FollowedIsExact == ASSUME Sealed, FollowedPages PROVE PagesAreExact
<1>1. CASE report.query # "occurrences"
  BY <1>1 DEF PagesAreExact
<1>2. CASE report.query = "occurrences"
  <2>1. PICK view \in Views : report.view = view /\ Shows(view)
    BY <1>2 DEF FollowedPages
  <2> DEFINE all == All(view)
             k == Len(shown)
             n == Len(all)
  <2>2. /\ shown \in Seq(Entry) /\ k <= n /\ (\A i \in 1..k : shown[i] = all[i])
        /\ report.more <=> k < n
    BY <2>1 DEF Shows
  <2>3. all \in Seq(Entry) /\ n \in Nat /\ k \in Nat
    BY <2>2, AllIs
  <2>4. SubSeq(shown, 1, k) = SubSeq(all, 1, k)
    <3> HIDE DEF all
    <3>1. /\ SubSeq(shown, 1, k) \in Seq(Entry) /\ Len(SubSeq(shown, 1, k)) = k
          /\ \A i \in 1..k : SubSeq(shown, 1, k)[i] = shown[i]
      BY <2>2, <2>3
    <3>2. /\ SubSeq(all, 1, k) \in Seq(Entry) /\ Len(SubSeq(all, 1, k)) = k
          /\ \A i \in 1..k : SubSeq(all, 1, k)[i] = all[i]
      <4> HIDE DEF k
      <4> QED BY <2>2, <2>3
    <3> DEFINE u == SubSeq(shown, 1, k)
               v == SubSeq(all, 1, k)
    <3>3. /\ u \in Seq(Entry) /\ v \in Seq(Entry) /\ Len(u) = Len(v)
          /\ \A i \in 1..Len(u) : u[i] = v[i]
      BY <2>2, <3>1, <3>2
    <3> HIDE DEF u, v
    <3>4. u = v
      BY <3>3, SeqEqual
    <3> QED BY <3>4 DEF u, v
  <2>5. IsPrefix(shown, all)
    BY <2>2, <2>4 DEF IsPrefix
  <2>6. k < n <=> shown # all
    <3> HIDE DEF all
    <3>1. ASSUME ~(k < n) PROVE shown = all
      <4>1. Len(shown) = Len(all)
        BY <2>2, <2>3, <3>1
      <4> QED BY <2>2, <2>3, <4>1, SeqEqual
    <3>2. shown = all => ~(k < n)
      BY <2>3
    <3> QED BY <3>1, <3>2
  <2> QED BY <2>1, <2>2, <2>5, <2>6 DEF PagesAreExact
<1> QED BY <1>1, <1>2

(* trace occurrences (page.go, trace_occurrences_output.go): following the *)
(* cursors, of any limit and view, shows every occurrence once and in      *)
(* order, and only the last page says that it is the last.                 *)
THEOREM PagesExact == TracesSpec => []PagesAreExact
<1>1. TracesInit => SealedAnswers /\ FollowedPages
  BY TextsAssumption, SealedInit, PagesInit
<1>2. SealedAnswers /\ FollowedPages /\ [TracesNext]_tracesVars => (SealedAnswers /\ FollowedPages)'
  BY TextsAssumption, SealedNext, PagesNext DEF SealedAnswers
<1>3. SealedAnswers /\ FollowedPages => PagesAreExact
  BY FollowedIsExact DEF SealedAnswers
<1> QED BY <1>1, <1>2, <1>3, PTL DEF TracesSpec
=============================================================================
