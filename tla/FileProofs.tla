----------------------------- MODULE FileProofs -----------------------------
(***************************************************************************)
(* Proofs about files: a saved chain is read again as it was, the script   *)
(* and the C program agree on every file, and a Merkle root belongs to one *)
(* list of transactions.                                                   *)
(*                                                                         *)
(* They are about loops over texts and trees of any size.  Induction over  *)
(* the rounds of a loop comes from the least element of a set of numbers;  *)
(* a recursive function satisfies its equation because a solution exists,  *)
(* built up round by round or written down as the loop's invariant.        *)
(***************************************************************************)
EXTENDS ArchiveProofs

-----------------------------------------------------------------------------
(* Induction and recursion.                                                *)

\* A set with 0 that with n has n + 1 contains every number.
LEMMA Induction ==
  ASSUME NEW S, 0 \in S, \A n \in Nat : n \in S => n + 1 \in S
  PROVE  \A n \in Nat : n \in S
<1> DEFINE T == Nat \ S
<1>1. SUFFICES ASSUME T # {} PROVE FALSE
  OBVIOUS
<1>2. PICK x \in T : \A y \in T : ~(<<y, x>> \in OpToRel(<, Nat))
  BY <1>1, NatLessThanWellFounded, WFMin
<1>3. x \in Nat /\ x \notin S /\ x # 0
  BY <1>2
<1>4. x - 1 \in Nat /\ x - 1 < x
  BY <1>3
<1>5. x - 1 \notin T
  BY <1>2, <1>3, <1>4 DEF OpToRel
<1> QED
  BY <1>3, <1>4, <1>5

\* The minimum is a lower bound.
LEMMA MinIsLeast ==
  ASSUME NEW T, T \subseteq Nat, T # {}
  PROVE  Min(T) \in T /\ \A y \in T : Min(T) <= y
<1>1. PICK x \in T : \A y \in T : ~(<<y, x>> \in OpToRel(<, Nat))
  BY NatLessThanWellFounded, WFMin
<1>2. \A y \in T : x <= y
  <2> TAKE y \in T
  <2>1. ~(y < x)
    BY <1>1 DEF OpToRel
  <2> QED
    BY <2>1
<1> QED
  BY <1>2 DEF Min

\* The levels of a Merkle tree: the definition has a solution.
LEMMA LevelsDef ==
  ASSUME NEW txs, Len(txs) \in Nat
  PROVE  LET L == Levels(txs)
             leaves == [i \in 1..Len(txs) |-> Sha256Text(txs[i])]
         IN L = [k \in 0..Len(txs) |-> IF k = 0 THEN leaves ELSE Parents(L[k - 1])]
<1> DEFINE leaves == [i \in 1..Len(txs) |-> Sha256Text(txs[i])]
           Solves(g, n) == g = [k \in 0..n |-> IF k = 0 THEN leaves ELSE Parents(g[k - 1])]
           S == {n \in Nat : \E g : Solves(g, n)}
<1>1. 0 \in S
  <2> DEFINE g == [k \in 0..0 |-> leaves]
  <2>1. Solves(g, 0)
    OBVIOUS
  <2> QED
    BY <2>1
<1>2. ASSUME NEW n \in Nat, n \in S
      PROVE  n + 1 \in S
  <2>1. PICK g : Solves(g, n)
    BY <1>2
  <2> DEFINE h == [k \in 0..(n + 1) |-> IF k = 0 THEN leaves ELSE Parents(g[k - 1])]
  <2>2. \A k \in 0..n : g[k] = IF k = 0 THEN leaves ELSE Parents(g[k - 1])
    BY <2>1
  <2>3. \A k \in 0..n : h[k] = g[k]
    BY <2>2
  <2>4. ASSUME NEW k \in 0..(n + 1)
        PROVE  h[k] = IF k = 0 THEN leaves ELSE Parents(h[k - 1])
    <3>1. CASE k = 0
      BY <3>1
    <3>2. CASE k # 0
      <4>1. k - 1 \in 0..n
        BY <3>2
      <4>2. h[k] = Parents(g[k - 1]) /\ h[k - 1] = g[k - 1]
        BY <2>3, <3>2, <4>1
      <4> HIDE DEF h
      <4> QED
        BY <3>2, <4>2
    <3> QED
      BY <3>1, <3>2
  <2>5. h = [k \in 0..(n + 1) |-> h[k]]
    OBVIOUS
  <2> HIDE DEF h
  <2>6. Solves(h, n + 1)
    BY <2>4, <2>5
  <2> HIDE DEF Solves
  <2> QED
    BY <2>6
<1> HIDE DEF S
<1>3. Len(txs) \in S
  BY <1>1, <1>2, Induction
<1> USE DEF S
<1>4. \E g : Solves(g, Len(txs))
  BY <1>3
<1>5. Levels(txs) = CHOOSE g : Solves(g, Len(txs))
  BY DEF Levels
<1> QED
  BY <1>4, <1>5

-----------------------------------------------------------------------------
(* Merkle roots.                                                           *)

\* Both loops fill an odd level up, Parents before it pairs and Half in the last
\* pair, and compute the same next level.
LEMMA ParentsAreHalf ==
  ASSUME NEW l, IsSeq(l)
  PROVE  Parents(l) = Half(l)
<1> DEFINE n == Len(l)
<1>1. n \in Nat
  BY SeqFacts
<1>2. Sha256Text(<<>>) = EmptyDigest
  BY DEF EmptyDigest
<1>3. CASE n % 2 = 0
  <2>1. (n + 1) \div 2 = n \div 2 /\ \A k \in 1..(n \div 2) : 2 * k <= n
    BY <1>1, <1>3
  <2>2. Parents(l) = [k \in 1..(n \div 2) |-> Sha256Pair(l[2 * k - 1], l[2 * k])]
    BY <1>3 DEF Parents
  <2>3. Half(l) = [k \in 1..(n \div 2) |-> Sha256Pair(l[2 * k - 1], l[2 * k])]
    BY <2>1 DEF Half
  <2> QED
    BY <2>2, <2>3
<1>4. CASE n % 2 # 0
  <2> DEFINE p == Append(l, EmptyDigest)
  <2>1. /\ Len(p) = n + 1 /\ p[n + 1] = EmptyDigest
        /\ \A i \in 1..n : p[i] = l[i]
    BY SeqAppend
  <2>2. Parents(l) = [k \in 1..((n + 1) \div 2) |-> Sha256Pair(p[2 * k - 1], p[2 * k])]
    BY <1>4, <2>1 DEF Parents
  <2> HIDE DEF p
  <2>3. ASSUME NEW k \in 1..((n + 1) \div 2)
        PROVE  /\ p[2 * k - 1] = l[2 * k - 1]
               /\ p[2 * k] = IF 2 * k <= n THEN l[2 * k] ELSE EmptyDigest
    <3>1. 2 * k - 1 \in 1..n /\ (2 * k <= n => 2 * k \in 1..n) /\ (2 * k > n => 2 * k = n + 1)
      BY <1>1, <1>4
    <3> QED
      BY <2>1, <3>1
  <2>4. Half(l) = [k \in 1..((n + 1) \div 2) |->
                     Sha256Pair(l[2 * k - 1], IF 2 * k <= n THEN l[2 * k] ELSE EmptyDigest)]
    BY <1>2 DEF Half
  <2> QED
    BY <2>2, <2>3, <2>4
<1> QED
  BY <1>3, <1>4

\* The next level is half as long and holds digests of pairs.
LEMMA HalfFacts ==
  ASSUME NEW l, IsSeq(l)
  PROVE  /\ IsSeq(Half(l)) /\ Len(Half(l)) = (Len(l) + 1) \div 2
         /\ \A k \in 1..Len(Half(l)) :
              Half(l)[k] = Sha256Pair(l[2 * k - 1],
                                      IF 2 * k <= Len(l) THEN l[2 * k] ELSE EmptyDigest)
<1>1. Len(l) \in Nat
  BY SeqFacts
<1>2. (Len(l) + 1) \div 2 \in Nat
  BY <1>1
<1>3. Half(l) = [k \in 1..((Len(l) + 1) \div 2) |->
                   Sha256Pair(l[2 * k - 1], IF 2 * k <= Len(l) THEN l[2 * k] ELSE EmptyDigest)]
  BY DEF Half, EmptyDigest
<1> HIDE DEF Half
<1>4. Half(l) = [k \in 1..((Len(l) + 1) \div 2) |-> Half(l)[k]]
  BY <1>3
<1>5. IsSeq(Half(l)) /\ Len(Half(l)) = (Len(l) + 1) \div 2
  BY <1>2, <1>4, SeqOfFunction
<1> QED
  BY <1>3, <1>5

\* The digest of a pair is no digest of a text, and both determine what they
\* were made of.
LEMMA Digests ==
  /\ \A x, y, z : Sha256Text(x) # Sha256Pair(y, z)
  /\ \A x, y : Sha256Text(x) = Sha256Text(y) => x = y
  /\ \A w, x, y, z : Sha256Pair(w, x) = Sha256Pair(y, z) => w = y /\ x = z
  BY DEF Sha256Text, Sha256Pair

\* Two levels without the filling digest that have the same next level are
\* the same.
LEMMA HalfInjective ==
  ASSUME NEW a, IsSeq(a), NEW b, IsSeq(b), Half(a) = Half(b),
         \A i \in 1..Len(a) : a[i] # EmptyDigest,
         \A i \in 1..Len(b) : b[i] # EmptyDigest
  PROVE  a = b
<1> DEFINE m == Len(Half(a))
           Second(l, k) == IF 2 * k <= Len(l) THEN l[2 * k] ELSE EmptyDigest
<1>1. Len(a) \in Nat /\ Len(b) \in Nat
  BY SeqFacts
<1>2. /\ m = (Len(a) + 1) \div 2 /\ m = (Len(b) + 1) \div 2
      /\ \A k \in 1..m : Half(a)[k] = Sha256Pair(a[2 * k - 1], Second(a, k))
      /\ \A k \in 1..m : Half(a)[k] = Sha256Pair(b[2 * k - 1], Second(b, k))
  BY HalfFacts
<1> HIDE DEF m, Second
<1>3. \A k \in 1..m : a[2 * k - 1] = b[2 * k - 1] /\ Second(a, k) = Second(b, k)
  BY <1>2, Digests
<1>4. Len(a) = Len(b)
  <2>1. ASSUME NEW s, NEW t, Len(s) \in Nat, Len(t) \in Nat, Len(s) < Len(t),
               m = (Len(s) + 1) \div 2, m = (Len(t) + 1) \div 2,
               Second(s, m) = Second(t, m),
               \A i \in 1..Len(t) : t[i] # EmptyDigest
        PROVE  FALSE
    <3>1. Len(t) = 2 * m /\ ~(2 * m <= Len(s)) /\ 2 * m \in 1..Len(t) /\ 2 * m <= Len(t)
      BY <2>1
    <3>2. Second(s, m) = EmptyDigest /\ Second(t, m) = t[2 * m]
      BY <3>1 DEF Second
    <3> QED
      BY <2>1, <3>1, <3>2
  <2>2. CASE Len(a) < Len(b)
    <3>1. m \in 1..m
      BY <1>1, <1>2, <2>2
    <3> QED
      BY <1>1, <1>2, <1>3, <2>1, <2>2, <3>1
  <2>3. CASE Len(b) < Len(a)
    <3>1. m \in 1..m
      BY <1>1, <1>2, <2>3
    <3> QED
      BY <1>1, <1>2, <1>3, <2>1, <2>3, <3>1
  <2> QED
    BY <1>1, <2>2, <2>3
<1>5. ASSUME NEW i \in 1..Len(a)
      PROVE  a[i] = b[i]
  <2>1. CASE i % 2 = 1
    <3>1. PICK k \in Nat : k = (i + 1) \div 2
      OBVIOUS
    <3>2. i = 2 * k - 1
      BY <2>1, <3>1
    <3>3. k \in 1..m
      BY <1>1, <1>2, <3>1
    <3> QED
      BY <1>3, <3>2, <3>3
  <2>2. CASE i % 2 # 1
    <3>1. PICK k \in Nat : k = i \div 2
      OBVIOUS
    <3>2. k \in 1..m /\ i = 2 * k
      BY <1>1, <1>2, <2>2, <3>1
    <3>3. Second(a, k) = a[i] /\ Second(b, k) = b[i]
      BY <1>1, <1>4, <3>2 DEF Second
    <3> QED
      BY <1>3, <3>2, <3>3
  <2> QED
    BY <2>1, <2>2
<1>6. a = [i \in 1..Len(a) |-> a[i]] /\ b = [i \in 1..Len(a) |-> b[i]]
  BY <1>4, SeqFacts
<1> QED
  BY <1>5, <1>6

\* The levels of a tree: sequences that shrink to one digest, made of pairs
\* above the leaves.
LEMMA LevelFacts ==
  ASSUME NEW txs, IsSeq(txs), txs # <<>>
  PROVE  /\ Len(txs) \in Nat \ {0}
         /\ Levels(txs)[0] = [i \in 1..Len(txs) |-> Sha256Text(txs[i])]
         /\ Len(Levels(txs)[0]) = Len(txs)
         /\ \A k \in 1..Len(txs) : Levels(txs)[k] = Half(Levels(txs)[k - 1])
         /\ \A k \in 0..Len(txs) : LET l == Levels(txs)[k]
                                  IN IsSeq(l) /\ Len(l) >= 1 /\ (Len(l) = 1 \/ Len(l) <= Len(txs) - k)
<1> DEFINE L == Levels(txs)
           n == Len(txs)
           leaves == [i \in 1..n |-> Sha256Text(txs[i])]
           Good(k) == IsSeq(L[k]) /\ Len(L[k]) >= 1 /\ (Len(L[k]) = 1 \/ Len(L[k]) <= n - k)
           S == {k \in Nat : k <= n => Good(k)}
<1>1. n \in Nat \ {0}
  BY SeqFacts, SeqEmpty
<1>2. L = [k \in 0..n |-> IF k = 0 THEN leaves ELSE Parents(L[k - 1])]
  BY <1>1, LevelsDef
<1> HIDE DEF L
<1>3. L[0] = leaves /\ \A k \in 1..n : L[k] = Parents(L[k - 1])
  <2>1. \A k \in 0..n : L[k] = IF k = 0 THEN leaves ELSE Parents(L[k - 1])
    BY <1>2
  <2> HIDE DEF leaves
  <2> QED
    BY <1>1, <2>1
<1>4. IsSeq(leaves) /\ Len(leaves) = n
  BY <1>1, SeqOfFunction
<1> HIDE DEF leaves, n
<1>5. 0 \in S
  BY <1>1, <1>3, <1>4
<1>6. ASSUME NEW k \in Nat, k \in S
      PROVE  k + 1 \in S
  <2>1. SUFFICES ASSUME k + 1 <= n PROVE Good(k + 1)
    OBVIOUS
  <2>2. Good(k) /\ k + 1 \in 1..n
    BY <1>1, <1>6, <2>1
  <2>3. L[k + 1] = Half(L[k])
    BY <1>3, <2>2, ParentsAreHalf
  <2>4. IsSeq(L[k + 1]) /\ Len(L[k + 1]) = (Len(L[k]) + 1) \div 2 /\ Len(L[k]) \in Nat
    BY <2>2, <2>3, HalfFacts, SeqFacts
  <2>5. \A p, q \in Nat : p >= 1 /\ (p = 1 \/ p <= n - k) /\ q = (p + 1) \div 2 =>
                           q >= 1 /\ (q = 1 \/ q <= n - (k + 1))
    BY <1>1, <2>1
  <2>6. Len(L[k + 1]) \in Nat
    BY <2>4, SeqFacts
  <2> QED
    BY <2>2, <2>4, <2>5, <2>6
<1> HIDE DEF S
<1>7. \A k \in Nat : k \in S
  BY <1>5, <1>6, Induction
<1>8. \A k \in 0..n : Good(k)
  BY <1>1, <1>7 DEF S
<1>9. \A k \in 1..n : L[k] = Half(L[k - 1])
  BY <1>1, <1>3, <1>8, ParentsAreHalf
<1> QED
  BY <1>1, <1>3, <1>4, <1>8, <1>9 DEF L, n, leaves

\* No digest of a tree is the one that odd levels are filled up with, and
\* above the leaves there are only digests of pairs.
LEMMA LevelDigests ==
  ASSUME NEW txs, IsSeq(txs), txs # <<>>, \A i \in 1..Len(txs) : txs[i] # <<>>
  PROVE  /\ \A k \in 0..Len(txs) : \A i \in 1..Len(Levels(txs)[k]) : Levels(txs)[k][i] # EmptyDigest
         /\ \A k \in 1..Len(txs) : \E x, y : Levels(txs)[k][1] = Sha256Pair(x, y)
         /\ \A i \in 1..Len(txs) : Levels(txs)[0][i] = Sha256Text(txs[i])
<1> DEFINE L == Levels(txs)
           n == Len(txs)
<1>1. /\ n \in Nat \ {0} /\ L[0] = [i \in 1..n |-> Sha256Text(txs[i])] /\ Len(L[0]) = n
      /\ \A k \in 1..n : L[k] = Half(L[k - 1])
      /\ \A k \in 0..n : IsSeq(L[k]) /\ Len(L[k]) >= 1
  BY LevelFacts
<1> HIDE DEF L, n
<1>2. \A i \in 1..n : L[0][i] = Sha256Text(txs[i])
  BY <1>1
<1>3. \A i \in 1..n : L[0][i] # EmptyDigest
  BY <1>2, Digests DEF EmptyDigest, n
<1>4. ASSUME NEW k \in 1..n, NEW i \in 1..Len(L[k])
      PROVE  \E x, y : L[k][i] = Sha256Pair(x, y)
  <2>1. IsSeq(L[k - 1]) /\ L[k] = Half(L[k - 1])
    BY <1>1
  <2> QED
    BY <2>1, HalfFacts
<1>5. \A k \in 1..n : \A i \in 1..Len(L[k]) : L[k][i] # EmptyDigest
  BY <1>4, Digests DEF EmptyDigest
<1>6. \A k \in 1..n : 1 \in 1..Len(L[k])
  BY <1>1, SeqFacts
<1> QED
  BY <1>1, <1>2, <1>3, <1>4, <1>5, <1>6 DEF L, n

\* Two trees with a level in common have the same leaves.
LEMMA SameLevels ==
  ASSUME NEW a, IsSeq(a), a # <<>>, \A i \in 1..Len(a) : a[i] # <<>>,
         NEW b, IsSeq(b), b # <<>>, \A i \in 1..Len(b) : b[i] # <<>>,
         NEW r \in 1..Len(a), NEW s \in 1..Len(b), r <= s,
         Levels(a)[r] = Levels(b)[s]
  PROVE  a = b
<1> DEFINE A == Levels(a)
           B == Levels(b)
           S == {j \in Nat : j <= r => A[r - j] = B[s - j]}
<1>1. /\ Len(a) \in Nat \ {0} /\ Len(A[0]) = Len(a)
      /\ \A k \in 1..Len(a) : A[k] = Half(A[k - 1])
      /\ \A k \in 0..Len(a) : IsSeq(A[k])
  BY LevelFacts
<1>2. /\ Len(b) \in Nat \ {0} /\ Len(B[0]) = Len(b)
      /\ \A k \in 1..Len(b) : B[k] = Half(B[k - 1])
      /\ \A k \in 0..Len(b) : IsSeq(B[k])
  BY LevelFacts
<1>3. /\ \A k \in 0..Len(a) : \A i \in 1..Len(A[k]) : A[k][i] # EmptyDigest
      /\ \A i \in 1..Len(a) : A[0][i] = Sha256Text(a[i])
  BY LevelDigests
<1>4. /\ \A k \in 0..Len(b) : \A i \in 1..Len(B[k]) : B[k][i] # EmptyDigest
      /\ \A k \in 1..Len(b) : \E x, y : B[k][1] = Sha256Pair(x, y)
      /\ \A i \in 1..Len(b) : B[0][i] = Sha256Text(b[i])
  BY LevelDigests
<1>5. A[r] = B[s]
  OBVIOUS
<1> HIDE DEF A, B
<1>6. 0 \in S
  BY <1>5
<1>7. ASSUME NEW j \in Nat, j \in S
      PROVE  j + 1 \in S
  <2>1. SUFFICES ASSUME j + 1 <= r PROVE A[r - (j + 1)] = B[s - (j + 1)]
    OBVIOUS
  <2>2. PICK p \in 1..Len(a) : p = r - j
    BY <1>1, <2>1
  <2>3. PICK q \in 1..Len(b) : q = s - j
    BY <1>2, <2>1
  <2>4. A[p] = B[q]
    BY <1>7, <2>1, <2>2, <2>3
  <2>5. Half(A[p - 1]) = Half(B[q - 1])
    BY <1>1, <1>2, <2>4
  <2>6. p - 1 \in 0..Len(a) /\ q - 1 \in 0..Len(b)
    BY <1>1, <1>2
  <2>7. A[p - 1] = B[q - 1]
    BY <1>1, <1>2, <1>3, <1>4, <2>5, <2>6, HalfInjective
  <2>8. r - (j + 1) = p - 1 /\ s - (j + 1) = q - 1
    BY <1>1, <1>2, <2>2, <2>3
  <2> QED
    BY <2>7, <2>8
<1> HIDE DEF S
<1>8. r \in S /\ r \in Nat /\ s \in Nat
  <2>1. r \in Nat /\ s \in Nat
    BY <1>1, <1>2
  <2>2. \A j \in Nat : j \in S
    BY <1>6, <1>7, Induction
  <2> QED
    BY <2>1, <2>2
<1>9. r - r = 0 /\ A[r - r] = B[s - r]
  BY <1>8 DEF S
<1>10. A[0] = B[s - r]
  BY <1>9
<1>11. s = r
  <2>1. SUFFICES ASSUME s # r PROVE FALSE
    OBVIOUS
  <2>2. s - r \in 1..Len(b)
    BY <1>2, <1>8, <2>1
  <2>3. PICK x, y : B[s - r][1] = Sha256Pair(x, y)
    BY <1>4, <2>2
  <2>4. A[0][1] = Sha256Text(a[1])
    BY <1>1, <1>3
  <2> QED
    BY <1>10, <2>3, <2>4, Digests
<1>12. A[0] = B[0]
  BY <1>8, <1>10, <1>11
<1>13. Len(a) = Len(b) /\ \A i \in 1..Len(a) : a[i] = b[i]
  BY <1>1, <1>2, <1>3, <1>4, <1>12, Digests
<1>14. a = [i \in 1..Len(a) |-> a[i]] /\ b = [i \in 1..Len(b) |-> b[i]]
  BY SeqFacts
<1> QED
  BY <1>13, <1>14

\* The root is the only digest of some level above the leaves.
LEMMA RootLevel ==
  ASSUME NEW txs, IsSeq(txs), txs # <<>>
  PROVE  \E r \in 1..Len(txs) : /\ IsSeq(Levels(txs)[r]) /\ Len(Levels(txs)[r]) = 1
                                /\ calculate_merkle_root(txs) = Levels(txs)[r][1]
<1> DEFINE L == Levels(txs)
           n == Len(txs)
           R == {k \in 1..n : Len(L[k]) = 1}
<1>1. /\ n \in Nat \ {0}
      /\ \A k \in 0..n : IsSeq(L[k]) /\ Len(L[k]) >= 1 /\ (Len(L[k]) = 1 \/ Len(L[k]) <= n - k)
  BY LevelFacts
<1>2. calculate_merkle_root(txs) = L[Min(R)][1]
  BY DEF calculate_merkle_root
<1> HIDE DEF L, n
<1>3. n \in R
  <2>1. n \in 1..n /\ n \in 0..n
    BY <1>1
  <2>2. Len(L[n]) >= 1 /\ (Len(L[n]) = 1 \/ Len(L[n]) <= n - n) /\ Len(L[n]) \in Nat
    BY <1>1, <2>1, SeqFacts
  <2> QED
    BY <1>1, <2>1, <2>2
<1>4. Min(R) \in R
  <2>1. R \subseteq Nat /\ R # {}
    BY <1>1, <1>3
  <2> HIDE DEF R
  <2> QED
    BY <2>1, MinIsLeast
<1>5. Min(R) \in 1..n /\ Min(R) \in 0..n /\ Len(L[Min(R)]) = 1
  BY <1>1, <1>4
<1> HIDE DEF R
<1> QED
  BY <1>1, <1>2, <1>5 DEF L, n

\* A Merkle root determines the list of transactions, its length included,
\* for lists of any length, if SHA-256 has no collisions: filling odd levels
\* up with a digest that no transaction has makes the trees of two lists
\* differ.
THEOREM RootDeterminesList ==
  ASSUME NEW a, IsSeq(a), a # <<>>, \A i \in 1..Len(a) : a[i] # <<>>,
         NEW b, IsSeq(b), b # <<>>, \A i \in 1..Len(b) : b[i] # <<>>,
         calculate_merkle_root(a) = calculate_merkle_root(b)
  PROVE  a = b
<1>1. PICK r \in 1..Len(a) : /\ IsSeq(Levels(a)[r]) /\ Len(Levels(a)[r]) = 1
                            /\ calculate_merkle_root(a) = Levels(a)[r][1]
  BY RootLevel
<1>2. PICK s \in 1..Len(b) : /\ IsSeq(Levels(b)[s]) /\ Len(Levels(b)[s]) = 1
                            /\ calculate_merkle_root(b) = Levels(b)[s][1]
  BY RootLevel
<1>3. \A x, y : IsSeq(x) /\ IsSeq(y) /\ Len(x) = 1 /\ Len(y) = 1 /\ x[1] = y[1] => x = y
  <2> TAKE x, y
  <2> HAVE IsSeq(x) /\ IsSeq(y) /\ Len(x) = 1 /\ Len(y) = 1 /\ x[1] = y[1]
  <2>1. x = [i \in 1..1 |-> x[i]] /\ y = [i \in 1..1 |-> y[i]]
    BY SeqFacts
  <2>2. \A i \in 1..1 : x[i] = y[i]
    OBVIOUS
  <2> QED
    BY <2>1, <2>2
<1>4. Levels(a)[r] = Levels(b)[s]
  BY <1>1, <1>2, <1>3
<1>5. Len(a) \in Nat /\ Len(b) \in Nat
  BY SeqFacts
<1>6. CASE r <= s
  BY <1>4, <1>6, SameLevels
<1>7. CASE s <= r
  BY <1>4, <1>7, SameLevels
<1> QED
  BY <1>5, <1>6, <1>7

\* The script and the C program compute the same root.
LEMMA RootsAgree ==
  ASSUME NEW txs, IsSeq(txs), txs # <<>>
  PROVE  merkle_of(txs) = calculate_merkle_root(txs)
<1> DEFINE L == Levels(txs)
           n == Len(txs)
           leaves == [i \in 1..n |-> Sha256Text(txs[i])]
           Solves(g) == g = [k \in 1..n |-> IF k = 1 THEN Half(leaves) ELSE Half(g[k - 1])]
           H == Halves(txs)
           S == {k \in Nat : k + 1 <= n => H[k + 1] = L[k + 1]}
<1>1. /\ n \in Nat \ {0} /\ L[0] = leaves
      /\ \A k \in 1..n : L[k] = Half(L[k - 1])
      /\ \A k \in 0..n : IsSeq(L[k]) /\ Len(L[k]) >= 1
  BY LevelFacts
<1> HIDE DEF L, leaves
<1>2. \E g : Solves(g)
  <2> DEFINE g == [k \in 1..n |-> L[k]]
  <2>1. ASSUME NEW k \in 1..n
        PROVE  g[k] = IF k = 1 THEN Half(leaves) ELSE Half(g[k - 1])
    <3>1. CASE k = 1
      BY <1>1, <3>1
    <3>2. CASE k # 1
      <4>1. k - 1 \in 1..n
        BY <1>1, <3>2
      <4> QED
        BY <1>1, <3>2, <4>1
    <3> QED
      BY <3>1, <3>2
  <2>2. g = [k \in 1..n |-> g[k]]
    OBVIOUS
  <2> HIDE DEF g
  <2>3. Solves(g)
    BY <2>1, <2>2
  <2> QED
    BY <2>3
<1>3. H = CHOOSE g : Solves(g)
  BY DEF Halves, leaves
<1>4. Solves(H)
  BY <1>2, <1>3
<1> HIDE DEF H
<1>5. \A k \in 1..n : H[k] = IF k = 1 THEN Half(leaves) ELSE Half(H[k - 1])
  BY <1>4
<1> HIDE DEF Solves
<1>6. 0 \in S
  BY <1>1, <1>5
<1>7. ASSUME NEW k \in Nat, k \in S
      PROVE  k + 1 \in S
  <2>1. SUFFICES ASSUME k + 2 <= n PROVE H[k + 2] = L[k + 2]
    OBVIOUS
  <2>2. k + 2 \in 1..n /\ k + 1 \in 1..n /\ k + 2 # 1 /\ (k + 2) - 1 = k + 1
    BY <1>1, <2>1
  <2>3. H[k + 2] = Half(H[k + 1]) /\ L[k + 2] = Half(L[k + 1])
    BY <1>1, <1>5, <2>2
  <2>4. H[k + 1] = L[k + 1]
    BY <1>7, <2>2
  <2> QED
    BY <2>3, <2>4
<1> HIDE DEF S
<1>8. \A k \in Nat : k \in S
  BY <1>6, <1>7, Induction
<1>9. ASSUME NEW k \in 1..n
      PROVE  H[k] = L[k]
  <2>1. k - 1 \in S /\ (k - 1) + 1 = k /\ k <= n
    BY <1>1, <1>8
  <2> QED
    BY <2>1 DEF S
<1>10. PICK r \in 1..n : IsSeq(L[r]) /\ Len(L[r]) = 1
  BY RootLevel DEF L
<1> DEFINE R == {k \in 1..n : Len(L[k]) = 1}
<1>11. {k \in 1..n : Len(H[k]) = 1} = R
  BY <1>9
<1>12. merkle_of(txs) = Head(H[Min(R)]) /\ calculate_merkle_root(txs) = L[Min(R)][1]
  BY <1>11 DEF merkle_of, calculate_merkle_root, H, L
<1>13. Min(R) \in R
  <2>1. r \in R
    BY <1>10
  <2>2. R \subseteq 1..n
    OBVIOUS
  <2> HIDE DEF R
  <2>3. R \subseteq Nat /\ R # {}
    BY <2>1, <2>2
  <2> QED
    BY <2>3, MinIsLeast
<1>14. Min(R) \in 1..n /\ IsSeq(L[Min(R)]) /\ Len(L[Min(R)]) = 1
  BY <1>1, <1>13
<1> HIDE DEF R
<1>15. H[Min(R)] = L[Min(R)]
  BY <1>9, <1>14
<1>16. \A s : IsSeq(s) /\ Len(s) = 1 => Head(s) = s[1]
  BY DEF IsSeq
<1> QED
  BY <1>12, <1>14, <1>15, <1>16

-----------------------------------------------------------------------------
(* Splitting a text.                                                       *)

\* Sequences of the same length with the same elements.
Same(s, t) == /\ IsSeq(s) /\ IsSeq(t) /\ Len(s) = Len(t)
              /\ \A i \in 1..Len(s) : s[i] = t[i]

\* They are equal.
LEMMA SameIsEqual ==
  ASSUME NEW s, NEW t, Same(s, t)
  PROVE  s = t
<1>1. s = [i \in 1..Len(s) |-> s[i]] /\ t = [i \in 1..Len(s) |-> t[i]]
  BY SeqFacts DEF Same
<1> QED
  BY <1>1 DEF Same

\* A part of a part.
LEMMA SubSub ==
  ASSUME NEW s, IsSeq(s), NEW p \in Nat, NEW a \in Nat, NEW b \in Nat,
         p >= 1, p <= Len(s) + 1, a >= 1, a <= b + 1, b <= Len(s) - p + 1
  PROVE  SubSeq(SubSeq(s, p, Len(s)), a, b) = SubSeq(s, p + a - 1, p + b - 1)
<1>1. Len(s) \in Nat
  BY SeqFacts
<1> DEFINE t == SubSeq(s, p, Len(s))
<1>2. /\ IsSeq(t) /\ Len(t) = Len(s) - p + 1
      /\ \A i \in 1..(Len(s) - p + 1) : t[i] = s[p + i - 1]
  BY <1>1, SeqSub
<1> HIDE DEF t
<1>3. /\ IsSeq(SubSeq(t, a, b)) /\ Len(SubSeq(t, a, b)) = b - a + 1
      /\ \A i \in 1..(b - a + 1) : SubSeq(t, a, b)[i] = t[a + i - 1]
  BY <1>1, <1>2, SeqSub
<1>4. PICK x \in Nat : x = p + a - 1
  OBVIOUS
<1>5. PICK y \in Nat : y = p + b - 1
  OBVIOUS
<1>6. x >= 1 /\ y <= Len(s) /\ x <= y + 1 /\ y - x + 1 = b - a + 1
  BY <1>1, <1>4, <1>5
<1>7. /\ IsSeq(SubSeq(s, x, y)) /\ Len(SubSeq(s, x, y)) = y - x + 1
      /\ \A i \in 1..(y - x + 1) : SubSeq(s, x, y)[i] = s[x + i - 1]
  BY <1>6, SeqSub
<1>8. ASSUME NEW i \in 1..(b - a + 1)
      PROVE  SubSeq(t, a, b)[i] = SubSeq(s, x, y)[i]
  <2>1. a + i - 1 \in 1..(Len(s) - p + 1) /\ p + (a + i - 1) - 1 = x + i - 1
    BY <1>1, <1>4
  <2> QED
    BY <1>2, <1>3, <1>6, <1>7, <2>1
<1>9. Same(SubSeq(t, a, b), SubSeq(s, x, y))
  <2>1. Len(SubSeq(t, a, b)) = Len(SubSeq(s, x, y))
    BY <1>3, <1>6, <1>7
  <2>2. \A i \in 1..Len(SubSeq(t, a, b)) : SubSeq(t, a, b)[i] = SubSeq(s, x, y)[i]
    BY <1>3, <1>8
  <2> QED
    BY <1>3, <1>7, <2>1, <2>2 DEF Same
<1>10. SubSeq(t, a, b) = SubSeq(s, x, y)
  BY <1>9, SameIsEqual
<1> QED
  BY <1>4, <1>5, <1>10 DEF t

\* strstr finds the first of the separators that are left, or none.
LEMMA NextFacts ==
  ASSUME NEW text, IsSeq(text), NEW p \in Nat, p >= 1
  PROVE  LET found == {i \in p..(Len(text) - 1) : text[i] = ":" /\ text[i + 1] = ":"}
             q == NextSeparator(text, p)
         IN \/ found = {} /\ q = Len(text) + 1
            \/ /\ q \in p..(Len(text) - 1) /\ text[q] = ":" /\ text[q + 1] = ":"
               /\ \A i \in found : q <= i
<1> DEFINE found == {i \in p..(Len(text) - 1) : text[i] = ":" /\ text[i + 1] = ":"}
<1>1. Len(text) \in Nat
  BY SeqFacts
<1>2. NextSeparator(text, p) = IF found = {} THEN Len(text) + 1 ELSE Min(found)
  BY DEF NextSeparator
<1>3. found \subseteq Nat
  BY <1>1
<1>4. CASE found = {}
  BY <1>2, <1>4
<1>5. CASE found # {}
  <2>1. NextSeparator(text, p) \in found /\ \A i \in found : NextSeparator(text, p) <= i
    <3> HIDE DEF found
    <3> QED
      BY <1>2, <1>3, <1>5, MinIsLeast
  <2> QED
    BY <2>1
<1> QED
  BY <1>4, <1>5

\* The positions of the cursor: the definition has a solution.
LEMMA CursorsDef ==
  ASSUME NEW text, IsSeq(text)
  PROVE  LET m == Len(text) \div 2 + 1
             C == Cursors(text)
         IN C = [k \in 1..m |-> IF k = 1 THEN 1 ELSE NextSeparator(text, C[k - 1]) + 2]
<1> DEFINE Solves(g, n) == g = [k \in 1..n |->
                                  IF k = 1 THEN 1 ELSE NextSeparator(text, g[k - 1]) + 2]
           S == {n \in Nat : \E g : Solves(g, n)}
           m == Len(text) \div 2 + 1
<1>1. m \in Nat
  BY SeqFacts
<1>2. 0 \in S
  <2> DEFINE g == [k \in 1..0 |-> 1]
  <2>1. Solves(g, 0)
    OBVIOUS
  <2> HIDE DEF Solves
  <2> QED
    BY <2>1
<1>3. ASSUME NEW n \in Nat, n \in S
      PROVE  n + 1 \in S
  <2>1. PICK g : Solves(g, n)
    BY <1>3
  <2> DEFINE h == [k \in 1..(n + 1) |-> IF k = 1 THEN 1 ELSE NextSeparator(text, g[k - 1]) + 2]
  <2>2. \A k \in 1..n : g[k] = IF k = 1 THEN 1 ELSE NextSeparator(text, g[k - 1]) + 2
    BY <2>1
  <2>3. \A k \in 1..n : h[k] = g[k]
    BY <2>2
  <2>4. ASSUME NEW k \in 1..(n + 1)
        PROVE  h[k] = IF k = 1 THEN 1 ELSE NextSeparator(text, h[k - 1]) + 2
    <3>1. CASE k = 1
      BY <3>1
    <3>2. CASE k # 1
      <4>1. k - 1 \in 1..n
        BY <3>2
      <4>2. h[k] = NextSeparator(text, g[k - 1]) + 2 /\ h[k - 1] = g[k - 1]
        BY <2>3, <3>2, <4>1
      <4> HIDE DEF h
      <4> QED
        BY <3>2, <4>2
    <3> QED
      BY <3>1, <3>2
  <2>5. h = [k \in 1..(n + 1) |-> h[k]]
    OBVIOUS
  <2> HIDE DEF h
  <2>6. Solves(h, n + 1)
    BY <2>4, <2>5
  <2> HIDE DEF Solves
  <2> QED
    BY <2>6
<1> HIDE DEF S
<1>4. m \in S
  BY <1>1, <1>2, <1>3, Induction
<1>5. \E g : Solves(g, m)
  BY <1>4 DEF S
<1>6. Cursors(text) = CHOOSE g : Solves(g, m)
  BY DEF Cursors
<1> QED
  BY <1>5, <1>6

\* The rounds of the loop: every round but the last finds a separator, where
\* the next one starts, and the last one finds none.
LEMMA Loop ==
  ASSUME NEW text, IsSeq(text)
  PROVE  LET C == Cursors(text)
             c == Rounds(text)
             n == Len(text)
             Stop(k) == NextSeparator(text, C[k])
         IN /\ c \in 1..(n + 1)
            /\ C[1] = 1
            /\ \A k \in 1..c : C[k] \in 1..(n + 1)
            /\ \A k \in 1..(c - 1) : /\ Stop(k) \in C[k]..(n - 1)
                                     /\ text[Stop(k)] = ":" /\ text[Stop(k) + 1] = ":"
                                     /\ C[k + 1] = Stop(k) + 2
            /\ Stop(c) = n + 1
<1> DEFINE C == Cursors(text)
           c == Rounds(text)
           n == Len(text)
           m == n \div 2 + 1
           Stop(k) == NextSeparator(text, C[k])
           S == {k \in Nat : k + 1 <= m => C[k + 1] \in Nat /\ C[k + 1] >= 2 * k + 1}
           R == {k \in 1..m : Stop(k) = n + 1}
<1>1. n \in Nat /\ m \in Nat /\ m >= 1 /\ m <= n + 1
  BY SeqFacts
<1>2. C = [k \in 1..m |-> IF k = 1 THEN 1 ELSE NextSeparator(text, C[k - 1]) + 2]
  BY CursorsDef
<1>3. c = Min(R)
  <2>1. DOMAIN C = 1..m
    <3> HIDE DEF C, m
    <3> QED
      BY <1>2
  <2>2. c = Min({k \in DOMAIN C : Stop(k) = n + 1})
    BY DEF Rounds
  <2> HIDE DEF C, m, c, Stop, n
  <2> QED
    BY <2>1, <2>2
<1> HIDE DEF C, c
<1>4. C[1] = 1 /\ \A k \in 2..m : C[k] = Stop(k - 1) + 2
  <2>1. \A k \in 1..m : C[k] = IF k = 1 THEN 1 ELSE NextSeparator(text, C[k - 1]) + 2
    <3> HIDE DEF m
    <3> QED
      BY <1>2
  <2> HIDE DEF m
  <2> QED
    BY <1>1, <2>1
<1>5. ASSUME NEW k, C[k] \in Nat, C[k] >= 1
      PROVE  \/ Stop(k) = n + 1
             \/ Stop(k) \in C[k]..(n - 1) /\ text[Stop(k)] = ":" /\ text[Stop(k) + 1] = ":"
  BY <1>5, NextFacts
<1> HIDE DEF Stop
<1>6. 0 \in S
  BY <1>4
<1>7. ASSUME NEW k \in Nat, k \in S
      PROVE  k + 1 \in S
  <2>1. SUFFICES ASSUME k + 2 <= m PROVE C[k + 2] \in Nat /\ C[k + 2] >= 2 * k + 3
    OBVIOUS
  <2>2. C[k + 1] \in Nat /\ C[k + 1] >= 2 * k + 1
    BY <1>1, <1>7, <2>1
  <2>3. C[k + 2] = Stop(k + 1) + 2
    BY <1>1, <1>4, <2>1
  <2>4. Stop(k + 1) = n + 1 \/ Stop(k + 1) \in C[k + 1]..(n - 1)
    BY <1>5, <2>2
  <2>5. 2 * k + 2 <= n + 1
    BY <1>1, <2>1
  <2> QED
    BY <1>1, <2>2, <2>3, <2>4, <2>5
<1> HIDE DEF S
<1>8. \A k \in Nat : k \in S
  BY <1>6, <1>7, Induction
<1>9. ASSUME NEW k \in 1..m
      PROVE  C[k] \in Nat /\ C[k] >= 2 * k - 1 /\ C[k] >= 1
  <2>1. k - 1 \in Nat /\ k - 1 \in S /\ (k - 1) + 1 = k /\ k <= m /\ 2 * (k - 1) + 1 = 2 * k - 1
    BY <1>1, <1>8
  <2>2. C[k] \in Nat /\ C[k] >= 2 * k - 1
    BY <2>1 DEF S
  <2> QED
    BY <1>1, <2>2
<1>10. m \in R
  <2>1. C[m] \in Nat /\ C[m] >= 1 /\ C[m] >= 2 * m - 1
    BY <1>1, <1>9
  <2>2. 2 * m - 1 >= n
    BY <1>1
  <2>3. ~(Stop(m) \in C[m]..(n - 1))
    BY <1>1, <2>1, <2>2
  <2> QED
    BY <1>1, <1>5, <2>1, <2>3
<1>11. c \in R /\ \A k \in R : c <= k
  <2>1. R \subseteq Nat /\ R # {}
    BY <1>1, <1>10
  <2> HIDE DEF R
  <2> QED
    BY <1>3, <2>1, MinIsLeast
<1>12. c \in 1..m /\ Stop(c) = n + 1
  BY <1>11
<1>13. ASSUME NEW k \in 1..(c - 1)
       PROVE  /\ Stop(k) \in C[k]..(n - 1) /\ text[Stop(k)] = ":" /\ text[Stop(k) + 1] = ":"
              /\ C[k + 1] = Stop(k) + 2
  <2>1. k \in 1..m /\ k + 1 \in 2..m /\ k < c /\ (k + 1) - 1 = k
    BY <1>1, <1>12
  <2>2. Stop(k) # n + 1
    BY <1>1, <1>11, <1>12, <2>1
  <2> QED
    BY <1>4, <1>5, <1>9, <2>1, <2>2
<1>14. ASSUME NEW k \in 1..c
       PROVE  C[k] \in 1..(n + 1)
  <2>1. CASE k = 1
    BY <1>1, <1>4, <2>1
  <2>2. CASE k # 1
    <3>1. k - 1 \in 1..(c - 1) /\ (k - 1) + 1 = k /\ k \in 1..m
      BY <1>1, <1>12, <2>2
    <3>2. Stop(k - 1) \in C[k - 1]..(n - 1) /\ C[k] = Stop(k - 1) + 2
      BY <1>13, <3>1
    <3>3. C[k] \in Nat /\ C[k] >= 1
      BY <1>9, <3>1
    <3> QED
      BY <1>1, <3>2, <3>3
  <2> QED
    BY <2>1, <2>2
<1>15. c \in 1..(n + 1)
  BY <1>1, <1>12
<1> QED
  BY <1>4, <1>12, <1>13, <1>14, <1>15 DEF C, c, Stop

\* A text is what comes before a separator, the separator, and the rest.
LEMMA Splice ==
  ASSUME NEW text, IsSeq(text), NEW s \in Nat, NEW t \in Nat, s >= 1, s + 2 <= t,
         t <= Len(text) + 1, text[s] = ":", text[s + 1] = ":"
  PROVE  SubSeq(text, 1, t - 1) =
           SubSeq(text, 1, s - 1) \o <<":", ":">> \o SubSeq(text, s + 2, t - 1)
<1> DEFINE n == Len(text)
           whole == SubSeq(text, 1, t - 1)
           left == SubSeq(text, 1, s - 1)
           sep == <<":", ":">>
           right == SubSeq(text, s + 2, t - 1)
<1>1. n \in Nat /\ s - 1 \in Nat /\ t - 1 \in Nat /\ s + 2 \in Nat
  BY SeqFacts
<1>2. /\ IsSeq(whole) /\ Len(whole) = t - 1
      /\ \A i \in 1..(t - 1) : whole[i] = text[i]
  <2>1. /\ IsSeq(whole) /\ Len(whole) = (t - 1) - 1 + 1
        /\ \A i \in 1..((t - 1) - 1 + 1) : whole[i] = text[1 + i - 1]
    BY <1>1, SeqSub
  <2>2. (t - 1) - 1 + 1 = t - 1 /\ \A i \in 1..(t - 1) : 1 + i - 1 = i
    BY <1>1
  <2> QED
    BY <2>1, <2>2
<1>3. /\ IsSeq(left) /\ Len(left) = s - 1
      /\ \A i \in 1..(s - 1) : left[i] = text[i]
  <2>1. /\ IsSeq(left) /\ Len(left) = (s - 1) - 1 + 1
        /\ \A i \in 1..((s - 1) - 1 + 1) : left[i] = text[1 + i - 1]
    BY <1>1, SeqSub
  <2>2. (s - 1) - 1 + 1 = s - 1 /\ \A i \in 1..(s - 1) : 1 + i - 1 = i
    BY <1>1
  <2> QED
    BY <2>1, <2>2
<1>4. /\ IsSeq(right) /\ Len(right) = t - s - 2
      /\ \A i \in 1..(t - s - 2) : right[i] = text[s + 1 + i]
  <2>1. /\ IsSeq(right) /\ Len(right) = (t - 1) - (s + 2) + 1
        /\ \A i \in 1..((t - 1) - (s + 2) + 1) : right[i] = text[(s + 2) + i - 1]
    BY <1>1, SeqSub
  <2>2. (t - 1) - (s + 2) + 1 = t - s - 2 /\ \A i \in 1..(t - s - 2) : (s + 2) + i - 1 = s + 1 + i
    BY <1>1
  <2> QED
    BY <2>1, <2>2
<1>5. IsSeq(sep) /\ Len(sep) = 2 /\ sep[1] = ":" /\ sep[2] = ":"
  <2>1. sep \in Seq({":"})
    OBVIOUS
  <2> QED
    BY <2>1, OwnElements
<1> HIDE DEF whole, left, sep, right
<1>6. PICK front : front = left \o sep
  OBVIOUS
<1>7. /\ IsSeq(front) /\ Len(front) = s + 1
      /\ \A i \in 1..(s + 1) : front[i] = text[i]
  <2>1. /\ IsSeq(front) /\ Len(front) = Len(left) + Len(sep)
        /\ \A i \in 1..Len(left) : front[i] = left[i]
    BY ONLY <1>3, <1>5, <1>6, SeqConcat, Zenon
  <2>2. \A i \in 1..Len(sep) : front[Len(left) + i] = sep[i]
    <3>1. IsSeq(left) /\ IsSeq(sep)
      BY <1>3, <1>5
    <3> QED
      BY ONLY <1>6, <3>1, SeqConcat, SMT
  <2>3. Len(front) = s + 1
    BY <1>1, <1>3, <1>5, <2>1
  <2>4. ASSUME NEW i \in 1..(s + 1)
        PROVE  front[i] = text[i]
    <3>1. CASE i <= s - 1
      <4>1. i \in 1..(s - 1) /\ i \in 1..Len(left)
        BY <1>1, <1>3, <3>1
      <4>2. front[i] = left[i]
        BY ONLY <2>1, <4>1
      <4> QED
        BY ONLY <1>3, <4>1, <4>2
    <3>2. CASE i = s
      <4>1. 1 \in 1..Len(sep) /\ Len(left) + 1 = s
        BY <1>1, <1>3, <1>5
      <4>2. front[Len(left) + 1] = sep[1]
        BY ONLY <2>2, <4>1
      <4> QED
        BY <1>5, <3>2, <4>1, <4>2
    <3>3. CASE i = s + 1
      <4>1. 2 \in 1..Len(sep) /\ Len(left) + 2 = s + 1
        BY <1>1, <1>3, <1>5
      <4>2. front[Len(left) + 2] = sep[2]
        BY ONLY <2>2, <4>1
      <4> QED
        BY <1>5, <3>3, <4>1, <4>2
    <3> QED
      BY <1>1, <3>1, <3>2, <3>3
  <2> QED
    BY <2>1, <2>3, <2>4
<1>8. PICK all : all = front \o right
  OBVIOUS
<1>9. /\ IsSeq(all) /\ Len(all) = Len(front) + Len(right)
      /\ \A i \in 1..Len(front) : all[i] = front[i]
  BY ONLY <1>4, <1>7, <1>8, SeqConcat, Zenon
<1>10. \A i \in 1..Len(right) : all[Len(front) + i] = right[i]
  BY ONLY <1>4, <1>7, <1>8, SeqConcat, SMT
<1>11. Len(all) = t - 1
  BY <1>1, <1>4, <1>7, <1>9
<1>12. \A i \in 1..Len(whole) : whole[i] = all[i]
  <2> TAKE i \in 1..Len(whole)
  <2>1. i \in 1..(t - 1) /\ whole[i] = text[i]
    BY <1>2
  <2>2. CASE i <= s + 1
    <3>1. i \in 1..Len(front) /\ i \in 1..(s + 1)
      BY <1>1, <1>7, <2>1, <2>2
    <3> QED
      BY <1>7, <1>9, <2>1, <3>1
  <2>3. CASE i > s + 1
    <3>1. PICK j \in 1..(t - s - 2) : i = s + 1 + j
      <4>1. i - (s + 1) \in 1..(t - s - 2) /\ i = s + 1 + (i - (s + 1))
        BY <1>1, <2>1, <2>3
      <4> QED
        BY <4>1
    <3>2. j \in 1..Len(right) /\ Len(front) + j = i
      BY <1>1, <1>4, <1>7, <3>1
    <3>3. all[i] = right[j] /\ right[j] = text[i]
      BY <1>4, <1>10, <3>1, <3>2
    <3> QED
      BY <2>1, <3>3
  <2> QED
    BY <1>1, <2>1, <2>2, <2>3
<1>13. Same(whole, all)
  <2>1. Len(whole) = Len(all)
    BY ONLY <1>2, <1>11
  <2> QED
    BY ONLY <1>2, <1>9, <1>12, <2>1 DEF Same
<1>14. whole = all
  BY <1>13, SameIsEqual
<1> QED
  BY <1>6, <1>8, <1>14 DEF whole, left, sep, right

\* The whole of a sequence.
LEMMA SubWhole ==
  ASSUME NEW s, IsSeq(s)
  PROVE  SubSeq(s, 1, Len(s)) = s
<1>1. Len(s) \in Nat
  BY SeqFacts
<1>2. /\ IsSeq(SubSeq(s, 1, Len(s))) /\ Len(SubSeq(s, 1, Len(s))) = Len(s) - 1 + 1
      /\ \A i \in 1..(Len(s) - 1 + 1) : SubSeq(s, 1, Len(s))[i] = s[1 + i - 1]
  BY <1>1, SeqSub
<1>3. Len(s) - 1 + 1 = Len(s) /\ \A i \in 1..Len(s) : 1 + i - 1 = i
  BY <1>1
<1>4. Same(SubSeq(s, 1, Len(s)), s)
  BY <1>2, <1>3 DEF Same
<1> QED
  BY <1>4, SameIsEqual

\* The texts between the separators, joined again, are the text: nothing is
\* lost or added, whatever colons it has.
LEMMA JoinSplit ==
  ASSUME NEW text \in Seq(Char)
  PROVE  LET txs == SplitTransactions[text]
         IN IsSeq(txs) /\ Len(txs) = Rounds(text) /\ txs # <<>> /\ Join(txs) = text
<1> DEFINE n == Len(text)
           C == Cursors(text)
           c == Rounds(text)
           Stop(k) == NextSeparator(text, C[k])
           txs == SplitTransactions[text]
           h == [k \in 1..c |-> SubSeq(text, 1, Stop(k) - 1)]
           Solves(g) == g = [k \in 1..Len(txs) |->
                               IF k = 1 THEN txs[1] ELSE g[k - 1] \o <<":", ":">> \o txs[k]]
<1>1. IsSeq(text) /\ n \in Nat
  BY OwnElements
<1>2. /\ c \in 1..(n + 1) /\ C[1] = 1
      /\ \A k \in 1..c : C[k] \in 1..(n + 1)
      /\ \A k \in 1..(c - 1) : /\ Stop(k) \in C[k]..(n - 1)
                               /\ text[Stop(k)] = ":" /\ text[Stop(k) + 1] = ":"
                               /\ C[k + 1] = Stop(k) + 2
      /\ Stop(c) = n + 1
  BY <1>1, Loop
<1>3. txs = [k \in 1..c |-> SubSeq(text, C[k], Stop(k) - 1)]
  BY DEF SplitTransactions
<1> HIDE DEF C, c, Stop, txs
<1>4. \A k \in 1..c : txs[k] = SubSeq(text, C[k], Stop(k) - 1)
  BY <1>3
<1>5. IsSeq(txs) /\ Len(txs) = c /\ txs # <<>>
  <2>1. c \in Nat /\ c # 0
    BY <1>1, <1>2
  <2>2. txs = [k \in 1..c |-> txs[k]]
    BY ONLY <1>3
  <2> QED
    BY <2>1, <2>2, SeqOfFunction, SeqEmpty
<1>6. ASSUME NEW k \in 1..c
      PROVE  Stop(k) \in Nat /\ C[k] <= Stop(k) /\ Stop(k) <= n + 1 /\ Stop(k) >= 1
  <2>1. C[k] \in Nat /\ C[k] >= 1 /\ C[k] <= n + 1
    BY <1>1, <1>2
  <2>2. CASE k = c
    BY <1>1, <1>2, <2>1, <2>2
  <2>3. CASE k # c
    <3>1. k \in 1..(c - 1)
      BY <1>1, <1>2, <2>3
    <3>2. Stop(k) \in C[k]..(n - 1)
      BY <1>2, <3>1
    <3> QED
      BY <1>1, <2>1, <3>2
  <2> QED
    BY <2>2, <2>3
<1>7. \A k \in 1..c : h[k] = SubSeq(text, 1, Stop(k) - 1)
  OBVIOUS
<1>8. ASSUME NEW k \in 1..c
      PROVE  h[k] = IF k = 1 THEN txs[1] ELSE h[k - 1] \o <<":", ":">> \o txs[k]
  <2> HIDE DEF h
  <2>1. CASE k = 1
    BY <1>2, <1>4, <1>7, <2>1
  <2>2. CASE k # 1
    <3>1. PICK j \in 1..(c - 1) : j = k - 1 /\ j + 1 = k /\ j \in 1..c
      <4>1. k - 1 \in 1..(c - 1) /\ (k - 1) + 1 = k /\ k - 1 \in 1..c
        BY <1>1, <1>2, <2>2
      <4> QED
        BY <4>1
    <3>2. /\ text[Stop(j)] = ":" /\ text[Stop(j) + 1] = ":" /\ C[k] = Stop(j) + 2
      BY <1>2, <3>1
    <3>3. Stop(j) \in Nat /\ Stop(j) >= 1 /\ Stop(k) \in Nat /\ Stop(k) <= n + 1 /\ C[k] <= Stop(k)
      BY <1>6, <3>1
    <3>4. PICK s \in Nat : s = Stop(j)
      BY <3>3
    <3>5. PICK t \in Nat : t = Stop(k)
      BY <3>3
    <3>6. s >= 1 /\ s + 2 <= t /\ t <= Len(text) + 1 /\ text[s] = ":" /\ text[s + 1] = ":"
      BY <3>2, <3>3, <3>4, <3>5
    <3>7. SubSeq(text, 1, t - 1) =
            SubSeq(text, 1, s - 1) \o <<":", ":">> \o SubSeq(text, s + 2, t - 1)
      BY <1>1, <3>6, Splice
    <3>8. /\ h[k] = SubSeq(text, 1, t - 1) /\ h[k - 1] = SubSeq(text, 1, s - 1)
          /\ txs[k] = SubSeq(text, s + 2, t - 1)
      BY <1>4, <1>7, <3>1, <3>2, <3>4, <3>5
    <3> QED
      BY <2>2, <3>7, <3>8
  <2> QED
    BY <2>1, <2>2
<1>9. Solves(h)
  <2>1. h = [k \in 1..c |-> h[k]]
    OBVIOUS
  <2> HIDE DEF h
  <2> QED
    BY <1>5, <1>8, <2>1
<1>10. Joined(txs) = CHOOSE g : Solves(g)
  BY DEF Joined
<1>11. PICK J : J = Joined(txs)
  OBVIOUS
<1>12. Solves(J)
  BY <1>9, <1>10, <1>11
<1>13. \A k \in 1..c : J[k] = IF k = 1 THEN txs[1] ELSE J[k - 1] \o <<":", ":">> \o txs[k]
  BY <1>5, <1>12
<1> DEFINE S == {k \in Nat : k + 1 <= c => J[k + 1] = h[k + 1]}
<1> HIDE DEF h, Solves
<1>14. 0 \in S
  BY <1>2, <1>8, <1>13
<1>15. ASSUME NEW k \in Nat, k \in S
       PROVE  k + 1 \in S
  <2>1. SUFFICES ASSUME (k + 1) + 1 <= c PROVE J[(k + 1) + 1] = h[(k + 1) + 1]
    OBVIOUS
  <2>2. PICK j \in 1..c : j = (k + 1) + 1 /\ j # 1 /\ j - 1 = k + 1
    BY <1>1, <1>2, <2>1
  <2>3. J[j - 1] = h[j - 1]
    BY <1>1, <1>2, <1>15, <2>1, <2>2
  <2> QED
    BY <1>8, <1>13, <2>2, <2>3
<1> HIDE DEF S
<1>16. \A k \in Nat : k \in S
  BY <1>14, <1>15, Induction
<1>17. c - 1 \in Nat /\ (c - 1) + 1 = c /\ c <= c /\ c \in 1..c
  BY <1>1, <1>2
<1>18. J[c] = h[c]
  BY <1>16, <1>17 DEF S
<1>19. h[c] = text
  <2>1. Stop(c) - 1 = n
    BY <1>1, <1>2
  <2> QED
    BY <1>1, <1>7, <1>17, <2>1, SubWhole
<1>20. Join(txs) = J[c]
  BY <1>5, <1>11 DEF Join
<1> QED
  BY <1>5, <1>18, <1>19, <1>20 DEF c, txs

\* A set of numbers has one least element.
LEMMA LeastIsMin ==
  ASSUME NEW T, T \subseteq Nat, NEW x \in T, \A y \in T : x <= y
  PROVE  Min(T) = x
<1>1. Min(T) \in T /\ Min(T) <= x /\ x <= Min(T) /\ x \in Nat /\ Min(T) \in Nat
  BY MinIsLeast
<1> QED
  BY <1>1

\* What the script cuts from the rest of a text is what the C program cuts
\* from the text at its cursor.
LEMMA Shift ==
  ASSUME NEW text, IsSeq(text), NEW p \in Nat, p >= 1, p <= Len(text) + 1
  PROVE  LET n == Len(text)
             t == SubSeq(text, p, n)
             q == NextSeparator(text, p)
         IN /\ q = n + 1 <=> Separators(t) = {}
            /\ UpToSeparator(t) = SubSeq(text, p, q - 1)
            /\ AfterSeparator(t) = IF q = n + 1 THEN t ELSE SubSeq(text, q + 2, n)
<1> DEFINE n == Len(text)
           t == SubSeq(text, p, n)
           q == NextSeparator(text, p)
           found == {i \in p..(n - 1) : text[i] = ":" /\ text[i + 1] = ":"}
<1>1. n \in Nat
  BY SeqFacts
<1>2. IsSeq(t) /\ Len(t) = n - p + 1 /\ \A i \in 1..(n - p + 1) : t[i] = text[p + i - 1]
  BY <1>1, SeqSub
<1>3. \/ found = {} /\ q = n + 1
      \/ q \in p..(n - 1) /\ text[q] = ":" /\ text[q + 1] = ":" /\ \A i \in found : q <= i
  BY NextFacts
<1>4. SubSeq(t, 1, Len(t)) = t
  BY <1>2, SubWhole
<1> HIDE DEF q, t
<1>5. ASSUME NEW i \in Separators(t)
      PROVE  i \in Nat /\ i >= 1 /\ p + i - 1 \in found
  <2>1. i \in 1..(Len(t) - 1) /\ t[i] = ":" /\ t[i + 1] = ":"
    BY DEF Separators
  <2>2. /\ i \in 1..(n - p + 1) /\ i + 1 \in 1..(n - p + 1)
        /\ p + i - 1 \in p..(n - 1) /\ p + (i + 1) - 1 = (p + i - 1) + 1
    BY <1>1, <1>2, <2>1
  <2>3. text[p + i - 1] = ":" /\ text[(p + i - 1) + 1] = ":"
    BY <1>2, <2>1, <2>2
  <2> QED
    BY <2>1, <2>2, <2>3
<1>6. CASE found = {} /\ q = n + 1
  <2>1. Separators(t) = {}
    BY <1>5, <1>6
  <2>2. q - 1 = n
    BY <1>1, <1>6
  <2> QED
    BY <1>6, <2>1, <2>2 DEF UpToSeparator, AfterSeparator, q, t
<1>7. CASE q \in p..(n - 1) /\ text[q] = ":" /\ text[q + 1] = ":" /\ \A i \in found : q <= i
  <2>1. PICK a \in Nat : a = q - p + 1
    BY <1>1, <1>7
  <2>2. /\ a \in 1..(Len(t) - 1) /\ a \in 1..(n - p + 1) /\ a + 1 \in 1..(n - p + 1)
        /\ p + a - 1 = q /\ p + (a + 1) - 1 = q + 1
    BY <1>1, <1>2, <1>7, <2>1
  <2>3. a \in Separators(t)
    BY <1>2, <1>7, <2>2 DEF Separators
  <2>4. ASSUME NEW i \in Separators(t)
        PROVE  a <= i
    <3>1. q <= p + i - 1 /\ i \in Nat
      BY <1>5, <1>7
    <3> QED
      BY <1>1, <1>7, <2>1, <3>1
  <2>5. Separators(t) \subseteq Nat
    BY <1>5
  <2>6. Min(Separators(t)) = a
    BY <2>3, <2>4, <2>5, LeastIsMin
  <2>7. PICK b \in Nat : b = a - 1
    BY <2>2
  <2>8. SubSeq(t, 1, b) = SubSeq(text, p + 1 - 1, p + b - 1)
    <3>1. b <= n - p + 1 /\ 1 <= b + 1
      BY <1>1, <2>2, <2>7
    <3> QED
      BY <1>1, <3>1, SubSub DEF t
  <2>9. p + 1 - 1 = p /\ p + b - 1 = q - 1
    BY <1>1, <1>7, <2>1, <2>7
  <2>10. UpToSeparator(t) = SubSeq(text, p, q - 1)
    BY <2>3, <2>6, <2>7, <2>8, <2>9 DEF UpToSeparator
  <2>11. PICK d \in Nat : d = n - p + 1
    BY <1>1
  <2>12. SubSeq(t, a + 2, d) = SubSeq(text, p + (a + 2) - 1, p + d - 1)
    <3>1. a + 2 \in Nat /\ a + 2 >= 1 /\ a + 2 <= d + 1 /\ d <= n - p + 1
      BY <1>1, <2>2, <2>11
    <3> QED
      BY <1>1, <3>1, SubSub DEF t
  <2>13. p + (a + 2) - 1 = q + 2 /\ p + d - 1 = n
    BY <1>1, <1>7, <2>1, <2>11
  <2>14. AfterSeparator(t) = SubSeq(text, q + 2, n)
    BY <1>2, <2>3, <2>6, <2>11, <2>12, <2>13 DEF AfterSeparator
  <2>15. q # n + 1
    BY <1>1, <1>7
  <2> QED
    BY <2>3, <2>10, <2>14, <2>15 DEF q, t
<1> QED
  BY <1>3, <1>6, <1>7

\* The script splits a text as the C program does.
LEMMA SplitsAgree ==
  ASSUME NEW text \in Seq(Char)
  PROVE  split_transactions(text) = SplitTransactions[text]
<1> DEFINE n == Len(text)
           C == Cursors(text)
           c == Rounds(text)
           Stop(k) == NextSeparator(text, C[k])
           At(k) == IF k <= c THEN C[k] ELSE C[c]
           h == [k \in 1..(n + 1) |-> SubSeq(text, At(k), n)]
           Solves(g) == g = [k \in 1..(n + 1) |-> IF k = 1 THEN text ELSE AfterSeparator(g[k - 1])]
<1>1. IsSeq(text) /\ n \in Nat
  BY OwnElements
<1>2. /\ c \in 1..(n + 1) /\ C[1] = 1
      /\ \A k \in 1..c : C[k] \in 1..(n + 1)
      /\ \A k \in 1..(c - 1) : Stop(k) \in C[k]..(n - 1) /\ C[k + 1] = Stop(k) + 2
      /\ Stop(c) = n + 1
  BY <1>1, Loop
<1>3. SplitTransactions[text] = [k \in 1..c |-> SubSeq(text, C[k], Stop(k) - 1)]
  BY DEF SplitTransactions
<1> HIDE DEF C, c
<1>4. ASSUME NEW k \in 1..c
      PROVE  LET t == SubSeq(text, C[k], n)
             IN /\ Stop(k) = n + 1 <=> Separators(t) = {}
                /\ UpToSeparator(t) = SubSeq(text, C[k], Stop(k) - 1)
                /\ AfterSeparator(t) = IF Stop(k) = n + 1 THEN t ELSE SubSeq(text, Stop(k) + 2, n)
  <2>1. C[k] \in Nat /\ C[k] >= 1 /\ C[k] <= n + 1
    BY <1>1, <1>2
  <2> QED
    BY <1>1, <2>1, Shift
<1> HIDE DEF Stop
<1>5. \A k \in 1..(n + 1) : h[k] = SubSeq(text, At(k), n)
  OBVIOUS
<1>6. \A k \in 1..c : At(k) = C[k]
  BY <1>1, <1>2
<1>7. \A k \in (c + 1)..(n + 1) : At(k) = C[c]
  BY <1>1, <1>2
<1> HIDE DEF At
<1>8. ASSUME NEW k \in 1..(n + 1)
      PROVE  h[k] = IF k = 1 THEN text ELSE AfterSeparator(h[k - 1])
  <2> HIDE DEF h
  <2>1. CASE k = 1
    <3>1. k \in 1..c
      BY <1>1, <1>2, <2>1
    <3>2. h[k] = SubSeq(text, 1, n)
      BY <1>2, <1>5, <1>6, <2>1, <3>1
    <3> QED
      BY <1>1, <2>1, <3>2, SubWhole
  <2>2. CASE k # 1 /\ k <= c
    <3>1. PICK j \in 1..(c - 1) : j = k - 1 /\ j + 1 = k /\ j \in 1..c /\ j \in 1..(n + 1)
      <4>1. /\ k - 1 \in 1..(c - 1) /\ (k - 1) + 1 = k /\ k - 1 \in 1..c
            /\ k - 1 \in 1..(n + 1)
        BY <1>1, <1>2, <2>2
      <4> QED
        BY <4>1
    <3>2. Stop(j) \in C[j]..(n - 1) /\ C[k] = Stop(j) + 2 /\ C[j] \in 1..(n + 1)
      BY <1>2, <3>1
    <3>3. Stop(j) # n + 1
      BY <1>1, <3>2
    <3>4. k \in 1..c
      BY <1>1, <1>2, <2>2
    <3>5. h[k] = SubSeq(text, C[k], n) /\ h[j] = SubSeq(text, C[j], n)
      BY <1>5, <1>6, <3>1, <3>4
    <3>6. AfterSeparator(h[j]) = SubSeq(text, Stop(j) + 2, n)
      BY <1>4, <3>1, <3>3, <3>5
    <3> QED
      BY <2>2, <3>1, <3>2, <3>5, <3>6
  <2>3. CASE k > c
    <3>1. PICK j \in 1..(n + 1) : j = k - 1 /\ (j = c \/ j \in (c + 1)..(n + 1))
      <4>1. k - 1 \in 1..(n + 1) /\ (k - 1 = c \/ k - 1 \in (c + 1)..(n + 1))
        BY <1>1, <1>2, <2>3
      <4> QED
        BY <4>1
    <3>2. c \in 1..c /\ k \in (c + 1)..(n + 1) /\ k # 1
      BY <1>1, <1>2, <2>3
    <3>3. h[k] = SubSeq(text, C[c], n) /\ h[j] = SubSeq(text, C[c], n)
      BY <1>5, <1>6, <1>7, <3>1, <3>2
    <3>4. AfterSeparator(h[j]) = h[j]
      BY <1>2, <1>4, <3>2, <3>3
    <3> QED
      BY <3>1, <3>2, <3>3, <3>4
  <2> QED
    BY <1>1, <1>2, <2>1, <2>2, <2>3
<1>9. Solves(h)
  <2>1. h = [k \in 1..(n + 1) |-> h[k]]
    OBVIOUS
  <2> HIDE DEF h
  <2> QED
    BY <1>8, <2>1
<1>10. Remaining(text) = CHOOSE g : Solves(g)
  BY DEF Remaining
<1>11. PICK R : R = Remaining(text)
  OBVIOUS
<1>12. Solves(R)
  BY <1>9, <1>10, <1>11
<1>13. \A k \in 1..(n + 1) : R[k] = IF k = 1 THEN text ELSE AfterSeparator(R[k - 1])
  BY <1>12
<1> DEFINE S == {k \in Nat : k <= n => R[k + 1] = h[k + 1]}
<1> HIDE DEF h, Solves
<1>14. 0 \in S
  BY <1>1, <1>8, <1>13
<1>15. ASSUME NEW k \in Nat, k \in S
       PROVE  k + 1 \in S
  <2>1. SUFFICES ASSUME k + 1 <= n PROVE R[(k + 1) + 1] = h[(k + 1) + 1]
    OBVIOUS
  <2>2. PICK j \in 1..(n + 1) : j = (k + 1) + 1 /\ j # 1 /\ j - 1 = k + 1
    BY <1>1, <2>1
  <2>3. R[j - 1] = h[j - 1]
    BY <1>1, <1>15, <2>1, <2>2
  <2> QED
    BY <1>8, <1>13, <2>2, <2>3
<1> HIDE DEF S
<1>16. \A k \in Nat : k \in S
  BY <1>14, <1>15, Induction
<1>17. ASSUME NEW k \in 1..c
       PROVE  k \in 1..(n + 1) /\ R[k] = SubSeq(text, C[k], n)
  <2>1. k \in 1..(n + 1) /\ k - 1 \in Nat /\ k - 1 <= n /\ (k - 1) + 1 = k
    BY <1>1, <1>2
  <2>2. R[k] = h[k]
    BY <1>16, <2>1 DEF S
  <2> QED
    BY <1>5, <1>6, <2>1, <2>2
<1> DEFINE T == {k \in 1..(n + 1) : Separators(R[k]) = {}}
<1>18. Min(T) = c
  <2>1. T \subseteq Nat
    BY <1>1
  <2>2. c \in T
    <3>1. c \in 1..c
      BY <1>1, <1>2
    <3> QED
      BY <1>2, <1>4, <1>17, <3>1
  <2>3. ASSUME NEW k \in T
        PROVE  c <= k
    <3>1. SUFFICES ASSUME k < c PROVE FALSE
      BY <1>1, <1>2
    <3>2. k \in 1..(c - 1) /\ k \in 1..c
      BY <1>1, <1>2, <3>1
    <3>3. Separators(SubSeq(text, C[k], n)) = {}
      BY <1>17, <3>2
    <3>4. Stop(k) = n + 1
      BY <1>4, <3>2, <3>3
    <3>5. Stop(k) \in C[k]..(n - 1) /\ C[k] \in 1..(n + 1)
      BY <1>2, <3>2
    <3> QED
      BY <1>1, <3>4, <3>5
  <2> HIDE DEF T
  <2> QED
    BY <2>1, <2>2, <2>3, LeastIsMin
<1>19. split_transactions(text) = [k \in 1..c |-> UpToSeparator(R[k])]
  BY <1>11, <1>18 DEF split_transactions
<1>20. \A k \in 1..c : UpToSeparator(R[k]) = SubSeq(text, C[k], Stop(k) - 1)
  BY <1>4, <1>17
<1> QED
  BY <1>3, <1>19, <1>20

-----------------------------------------------------------------------------
(* Lines.                                                                  *)

\* What block_from_csv has tested when it succeeds, and the block it makes.
LEMMA LineParsed ==
  ASSUME NEW line, line.transactions \in Seq(Char), block_from_csv(line).ok
  PROVE  LET raw == line.transactions
             text == SubSeq(raw, 2, Len(raw) - 1)
             txs == SplitTransactions[text]
             b == block_from_csv(line).block
         IN /\ Len(raw) \in Nat /\ Len(raw) >= 2 /\ raw[1] = Quote /\ raw[Len(raw)] = Quote
            /\ text \in Seq(Char)
            /\ Len(txs) <= MAX_TRANSACTIONS_PER_BLOCK
            /\ \A k \in 1..Len(txs) : LegalLength(txs[k])
            /\ b = [index |-> line.index.value, timestamp |-> line.timestamp.value,
                    previous_hash |-> line.previous_hash, nonce |-> line.nonce.value,
                    merkle_root |-> line.merkle_root, transactions |-> txs]
            /\ block_from_csv(line) = [ok |-> TRUE, block |-> b]
<1>1. PICK raw \in Seq(Char) : raw = line.transactions
  OBVIOUS
<1>2. PICK text : text = SubSeq(raw, 2, Len(raw) - 1)
  OBVIOUS
<1>3. PICK txs : txs = SplitTransactions[text]
  OBVIOUS
<1>4. PICK b : b = [index |-> line.index.value, timestamp |-> line.timestamp.value,
                    previous_hash |-> line.previous_hash, nonce |-> line.nonce.value,
                    merkle_root |-> line.merkle_root, transactions |-> txs]
  OBVIOUS
<1> DEFINE Good == /\ Len(raw) >= 2 /\ raw[1] = Quote /\ raw[Len(raw)] = Quote
                   /\ Len(txs) <= MAX_TRANSACTIONS_PER_BLOCK
                   /\ \A k \in 1..Len(txs) : LegalLength(txs[k])
<1>5. block_from_csv(line) = IF Good THEN [ok |-> TRUE, block |-> b] ELSE Failed
  BY <1>1, <1>2, <1>3, <1>4 DEF block_from_csv
<1>6. Good
  <2>1. SUFFICES ASSUME ~Good PROVE FALSE
    OBVIOUS
  <2>2. block_from_csv(line) = Failed
    BY <1>5, <2>1
  <2> QED
    BY <2>2 DEF Failed
<1>7. block_from_csv(line) = [ok |-> TRUE, block |-> b] /\ block_from_csv(line).block = b
  BY <1>5, <1>6
<1>8. Len(raw) \in Nat
  OBVIOUS
<1>9. text \in Seq(Char)
  <2>1. \A i \in 2..(Len(raw) - 1) : raw[i] \in Char
    BY <1>8
  <2>2. Len(raw) - 1 \in Nat
    BY <1>6, <1>8
  <2> QED
    BY <1>2, <2>1, <2>2, SubSeqProperties
<1> HIDE DEF Quote
<1> QED
  BY <1>1, <1>2, <1>3, <1>4, <1>6, <1>7, <1>8, <1>9

\* A block that is made of a line is a block as block_from_csv makes it.
LEMMA LineGivesParsed ==
  ASSUME NEW line, line.transactions \in Seq(Char), block_from_csv(line).ok
  PROVE  IsParsed(block_from_csv(line).block)
<1>1. PICK text \in Seq(Char) : text = SubSeq(line.transactions, 2, Len(line.transactions) - 1)
  BY LineParsed
<1>2. PICK txs : txs = SplitTransactions[text]
  OBVIOUS
<1>3. PICK b : b = block_from_csv(line).block
  OBVIOUS
<1>4. /\ Len(txs) <= MAX_TRANSACTIONS_PER_BLOCK
      /\ \A k \in 1..Len(txs) : LegalLength(txs[k])
      /\ b = [index |-> line.index.value, timestamp |-> line.timestamp.value,
              previous_hash |-> line.previous_hash, nonce |-> line.nonce.value,
              merkle_root |-> line.merkle_root, transactions |-> txs]
  BY <1>1, <1>2, <1>3, LineParsed
<1>5. Join(txs) = text
  BY <1>2, JoinSplit
<1>6. b.transactions = txs
      /\ b = [index |-> b.index, timestamp |-> b.timestamp, previous_hash |-> b.previous_hash,
              nonce |-> b.nonce, merkle_root |-> b.merkle_root, transactions |-> b.transactions]
  BY <1>4
<1> QED
  BY <1>1, <1>2, <1>3, <1>4, <1>5, <1>6 DEF IsParsed

\* A block that is written and read again is the same block: quotes around
\* its text and separators in it are found where they were put.
LEMMA RoundTrip ==
  ASSUME NEW b, IsParsed(b), Serialisable(b)
  PROVE  /\ block_to_csv(b).line.transactions \in Seq(Char)
         /\ block_from_csv(block_to_csv(b).line) = [ok |-> TRUE, block |-> b]
<1>1. PICK txs : txs = b.transactions
  OBVIOUS
<1>2. PICK text \in Seq(Char) : text = Join(txs) /\ txs = SplitTransactions[text]
  BY <1>1 DEF IsParsed
<1>3. PICK quote : quote = <<Quote>>
  OBVIOUS
<1>4. quote \in Seq(Char) /\ Len(quote) = 1 /\ quote[1] = Quote
  <2>1. Quote \in Char
    BY CharAssumption DEF Quote
  <2> QED
    BY <1>3, <2>1
<1>5. PICK raw : raw = quote \o text \o quote
  OBVIOUS
<1>6. PICK line : line = [index |-> Number(b.index), timestamp |-> Number(b.timestamp),
                    previous_hash |-> b.previous_hash, merkle_root |-> b.merkle_root,
                    nonce |-> Number(b.nonce), transactions |-> raw]
  OBVIOUS
<1>7. block_to_csv(b).line = line
  BY <1>1, <1>2, <1>3, <1>5, <1>6 DEF block_to_csv
<1> HIDE DEF Quote
<1>8. PICK front : front = quote \o text
  OBVIOUS
<1>9. raw = front \o quote
  BY <1>5, <1>8
<1>10. /\ front \in Seq(Char) /\ Len(front) = Len(text) + 1 /\ Len(text) \in Nat
       /\ front[1] = Quote /\ \A i \in 1..Len(text) : front[i + 1] = text[i]
  <2>1. /\ front \in Seq(Char) /\ Len(front) = Len(quote) + Len(text)
        /\ \A i \in 1..(Len(quote) + Len(text)) :
             front[i] = IF i <= Len(quote) THEN quote[i] ELSE text[i - Len(quote)]
    BY <1>4, <1>8, ConcatProperties
  <2>2. Len(text) \in Nat
    OBVIOUS
  <2>3. ASSUME NEW i \in 1..Len(text)
        PROVE  front[i + 1] = text[i]
    <3>1. i + 1 \in 1..(1 + Len(text)) /\ ~(i + 1 <= 1) /\ (i + 1) - 1 = i
      BY <2>2
    <3> QED
      BY <1>4, <2>1, <3>1
  <2> QED
    BY <1>4, <2>1, <2>2, <2>3
<1>11. /\ raw \in Seq(Char) /\ Len(raw) = Len(text) + 2
       /\ raw[1] = Quote /\ raw[Len(raw)] = Quote /\ \A i \in 1..Len(text) : raw[i + 1] = text[i]
  <2>1. /\ raw \in Seq(Char) /\ Len(raw) = Len(front) + Len(quote)
        /\ \A i \in 1..(Len(front) + Len(quote)) :
             raw[i] = IF i <= Len(front) THEN front[i] ELSE quote[i - Len(front)]
    BY <1>4, <1>9, <1>10, ConcatProperties
  <2>2. Len(raw) = Len(text) + 2 /\ 1 <= Len(front) /\ 1 \in 1..(Len(front) + Len(quote))
    BY <1>4, <1>10, <2>1
  <2>3. raw[1] = Quote
    BY <1>10, <2>1, <2>2
  <2>4. raw[Len(raw)] = Quote
    <3>1. /\ Len(raw) \in 1..(Len(front) + Len(quote)) /\ ~(Len(raw) <= Len(front))
          /\ Len(raw) - Len(front) = 1
      BY <1>4, <1>10, <2>1
    <3> QED
      BY <1>4, <2>1, <3>1
  <2>5. ASSUME NEW i \in 1..Len(text)
        PROVE  raw[i + 1] = text[i]
    <3>1. i + 1 \in 1..(Len(front) + Len(quote)) /\ i + 1 <= Len(front)
      BY <1>4, <1>10
    <3> QED
      BY <1>10, <2>1, <3>1
  <2> QED
    BY <2>1, <2>2, <2>3, <2>4, <2>5
<1>12. SubSeq(raw, 2, Len(raw) - 1) = text
  <2>1. PICK e \in Nat : e = Len(raw) - 1 /\ e = Len(text) + 1 /\ e <= Len(raw)
    BY <1>10, <1>11
  <2>2. /\ IsSeq(SubSeq(raw, 2, e)) /\ Len(SubSeq(raw, 2, e)) = e - 2 + 1
        /\ \A i \in 1..(e - 2 + 1) : SubSeq(raw, 2, e)[i] = raw[2 + i - 1]
    <3>1. IsSeq(raw) /\ 2 <= e + 1 /\ 2 \in Nat /\ 2 >= 1
      BY <1>10, <1>11, <2>1, OwnElements
    <3> QED
      BY <2>1, <3>1, SeqSub
  <2>3. e - 2 + 1 = Len(text) /\ \A i \in 1..Len(text) : 2 + i - 1 = i + 1
    BY <1>10, <2>1
  <2>4. Same(SubSeq(raw, 2, e), text)
    BY <1>11, <2>2, <2>3, OwnElements DEF Same
  <2> QED
    BY <2>1, <2>4, SameIsEqual
<1>13. /\ Len(txs) <= MAX_TRANSACTIONS_PER_BLOCK
       /\ \A k \in 1..Len(txs) : LegalLength(txs[k])
  BY <1>1 DEF IsParsed
<1>14. line.transactions = raw /\ Len(raw) >= 2
  BY <1>6, <1>10, <1>11
<1>15. block_from_csv(line) =
         [ok |-> TRUE,
          block |-> [index |-> line.index.value, timestamp |-> line.timestamp.value,
                     previous_hash |-> line.previous_hash, nonce |-> line.nonce.value,
                     merkle_root |-> line.merkle_root, transactions |-> txs]]
  BY <1>2, <1>11, <1>12, <1>13, <1>14, Zenon DEF block_from_csv
<1>16. /\ line.index.value = b.index /\ line.timestamp.value = b.timestamp
       /\ line.previous_hash = b.previous_hash /\ line.nonce.value = b.nonce
       /\ line.merkle_root = b.merkle_root
  BY <1>6 DEF Number
<1>17. b = [index |-> b.index, timestamp |-> b.timestamp, previous_hash |-> b.previous_hash,
            nonce |-> b.nonce, merkle_root |-> b.merkle_root, transactions |-> txs]
  BY <1>1 DEF IsParsed
<1> QED
  BY <1>7, <1>11, <1>14, <1>15, <1>16, <1>17

-----------------------------------------------------------------------------
(* Files.                                                                  *)

\* A file that loads is one whose lines are all parsed.
LEMMA LoadFacts ==
  ASSUME NEW file, IsSeq(file.lines)
  PROVE  LET n == Len(file.lines)
             all == file.header /\ file.lines # <<>>
                    /\ \A i \in 1..n : block_from_csv(file.lines[i]).ok
         IN /\ all => blockchain_load_csv(file) =
                        [ok |-> TRUE, chain |-> [i \in 1..n |-> block_from_csv(file.lines[i]).block]]
            /\ blockchain_load_csv(file).ok => all
<1>1. PICK lines : lines = file.lines
  OBVIOUS
<1>2. Len(lines) \in Nat /\ IsSeq(lines) /\ (lines # <<>> <=> Len(lines) # 0)
  <2>1. Len(lines) \in Nat /\ IsSeq(lines) /\ lines = [i \in 1..Len(lines) |-> lines[i]]
    BY <1>1, SeqFacts
  <2>2. Len(lines) = 0 => lines = <<>>
    <3>1. SUFFICES ASSUME Len(lines) = 0 PROVE Same(lines, <<>>)
      BY SameIsEqual
    <3> QED
      BY <2>1, <3>1, SeqEmpty DEF Same
  <2> QED
    BY <2>1, <2>2, SeqEmpty
<1>3. PICK P : P = [i \in 1..Len(lines) |-> block_from_csv(lines[i])]
  OBVIOUS
<1>4. P = ParsedLines(file)
  BY <1>1, <1>3 DEF ParsedLines
<1>5. P = [i \in 1..Len(lines) |-> P[i]] /\ \A i \in 1..Len(lines) : P[i] = block_from_csv(lines[i])
  BY <1>3
<1>6. IsSeq(P) /\ Len(P) = Len(lines)
  BY <1>2, <1>5, SeqOfFunction
<1>7. P # <<>> <=> lines # <<>>
  <2>1. Len(P) = 0 => P = <<>>
    <3>1. SUFFICES ASSUME Len(P) = 0 PROVE Same(P, <<>>)
      BY SameIsEqual
    <3> QED
      BY <1>6, <3>1, SeqEmpty DEF Same
  <2> QED
    BY <1>2, <1>6, <2>1, SeqEmpty
<1> DEFINE all == file.header /\ lines # <<>> /\ \A i \in 1..Len(lines) : block_from_csv(lines[i]).ok
<1>8. PICK blocks : blocks = [i \in 1..Len(lines) |-> block_from_csv(lines[i]).block]
  OBVIOUS
<1>9. [i \in 1..Len(P) |-> P[i].block] = blocks
  BY <1>5, <1>6, <1>8
<1>10. (file.header /\ P # <<>> /\ \A i \in 1..Len(P) : P[i].ok) <=> all
  BY <1>5, <1>6, <1>7
<1>11. blockchain_load_csv(file) =
         IF file.header /\ P # <<>> /\ \A i \in 1..Len(P) : P[i].ok
           THEN [ok |-> TRUE, chain |-> blocks] ELSE Failed
  BY <1>4, <1>9, Zenon DEF blockchain_load_csv
<1>12. all => blockchain_load_csv(file) = [ok |-> TRUE, chain |-> blocks]
  BY <1>10, <1>11, Zenon
<1>13. ~all => blockchain_load_csv(file) = Failed
  BY <1>10, <1>11, Zenon
<1>14. blockchain_load_csv(file).ok => all
  BY ONLY <1>13 DEF Failed
<1> QED
  BY <1>1, <1>8, <1>12, <1>14

\* A file that is saved holds the first blocks, each of them in a line.
LEMMA SaveFacts ==
  ASSUME NEW c, IsSeq(c)
  PROVE  LET file == blockchain_save_csv(c)
         IN /\ file.header = TRUE /\ IsSeq(file.lines) /\ Len(file.lines) \in 0..Len(c)
            /\ \A i \in 1..Len(file.lines) :
                 Serialisable(c[i]) /\ file.lines[i] = block_to_csv(c[i]).line
<1> DEFINE bad == {i \in 1..Len(c) : ~Serialisable(c[i])}
<1>1. Len(c) \in Nat
  BY SeqFacts
<1>2. PICK count : count = IF bad = {} THEN Len(c) ELSE Min(bad) - 1
  OBVIOUS
<1>3. count \in 0..Len(c) /\ \A i \in 1..count : Serialisable(c[i])
  <2>1. CASE bad = {}
    <3>1. \A i \in 1..Len(c) : Serialisable(c[i])
      BY <2>1
    <3> QED
      BY <1>1, <1>2, <2>1, <3>1
  <2>2. CASE bad # {}
    <3>1. bad \subseteq Nat
      BY <1>1
    <3>2. Min(bad) \in bad /\ \A i \in bad : Min(bad) <= i
      <4> HIDE DEF bad
      <4> QED
        BY <2>2, <3>1, MinIsLeast
    <3>3. Min(bad) \in 1..Len(c) /\ count = Min(bad) - 1
      BY <1>2, <2>2, <3>2
    <3>4. ASSUME NEW i \in 1..count, ~Serialisable(c[i])
          PROVE  FALSE
      <4>1. i \in bad /\ i < Min(bad)
        BY <1>1, <3>3, <3>4
      <4>2. Min(bad) <= i
        BY <3>2, <4>1
      <4> QED
        BY <1>1, <3>3, <4>1, <4>2
    <3> QED
      BY <1>1, <3>3, <3>4
  <2> QED
    BY <2>1, <2>2
<1>4. PICK lines : lines = [i \in 1..count |-> block_to_csv(c[i]).line]
  OBVIOUS
<1>5. blockchain_save_csv(c) = [header |-> TRUE, lines |-> lines]
  BY <1>2, <1>4 DEF blockchain_save_csv
<1>6. lines = [i \in 1..count |-> lines[i]] /\ \A i \in 1..count : lines[i] = block_to_csv(c[i]).line
  BY <1>4
<1>7. IsSeq(lines) /\ Len(lines) = count
  BY <1>1, <1>3, <1>6, SeqOfFunction
<1> QED
  BY <1>3, <1>5, <1>6, <1>7

\* A saved chain of parsed blocks is a file that loads, to these blocks.
LEMMA Reloads ==
  ASSUME NEW c, IsSeq(c), \A i \in 1..Len(c) : IsParsed(c[i]),
         NEW m \in Nat, m <= Len(c), NEW file, file = blockchain_save_csv(SubSeq(c, 1, m))
  PROVE  /\ IsSeq(file.lines)
         /\ \A i \in 1..Len(file.lines) : file.lines[i].transactions \in Seq(Char)
         /\ LET count == Len(file.lines)
            IN IF count = 0 THEN ~blockchain_load_csv(file).ok
               ELSE blockchain_load_csv(file) = [ok |-> TRUE, chain |-> SubSeq(c, 1, count)]
<1>1. Len(c) \in Nat
  BY SeqFacts
<1>2. PICK part : part = SubSeq(c, 1, m)
  OBVIOUS
<1>3. IsSeq(part) /\ Len(part) = m /\ \A i \in 1..m : part[i] = c[i]
  <2>1. /\ IsSeq(part) /\ Len(part) = m - 1 + 1
        /\ \A i \in 1..(m - 1 + 1) : part[i] = c[1 + i - 1]
    BY <1>1, <1>2, SeqSub
  <2>2. m - 1 + 1 = m /\ \A i \in 1..m : 1 + i - 1 = i
    OBVIOUS
  <2> QED
    BY <2>1, <2>2
<1>4. PICK lines : lines = file.lines
  OBVIOUS
<1>5. /\ file.header = TRUE /\ IsSeq(lines) /\ Len(lines) \in 0..m
      /\ \A i \in 1..Len(lines) : Serialisable(part[i]) /\ lines[i] = block_to_csv(part[i]).line
  BY <1>2, <1>3, <1>4, SaveFacts
<1>6. ASSUME NEW i \in 1..Len(lines)
      PROVE  /\ lines[i].transactions \in Seq(Char)
             /\ block_from_csv(lines[i]).ok /\ block_from_csv(lines[i]).block = c[i]
  <2>1. i \in 1..m /\ i \in 1..Len(c)
    BY <1>1, <1>5
  <2>2. IsParsed(c[i]) /\ Serialisable(c[i]) /\ lines[i] = block_to_csv(c[i]).line
    BY <1>3, <1>5, <2>1
  <2>3. /\ lines[i].transactions \in Seq(Char)
        /\ block_from_csv(lines[i]) = [ok |-> TRUE, block |-> c[i]]
    BY <2>2, RoundTrip
  <2> QED
    BY <2>3
<1>7. CASE Len(lines) = 0
  <2>1. lines = <<>>
    <3>1. Same(lines, <<>>)
      BY <1>5, <1>7, SeqEmpty DEF Same
    <3> QED
      BY <3>1, SameIsEqual
  <2>2. ~blockchain_load_csv(file).ok
    BY <1>4, <1>5, <2>1, LoadFacts
  <2> QED
    BY <1>4, <1>5, <1>6, <1>7, <2>2
<1>8. CASE Len(lines) # 0
  <2>1. PICK blocks : blocks = [i \in 1..Len(lines) |-> block_from_csv(lines[i]).block]
    OBVIOUS
  <2>2. lines # <<>>
    BY <1>8, SeqEmpty
  <2>3. blockchain_load_csv(file) = [ok |-> TRUE, chain |-> blocks]
    <3>1. /\ IsSeq(file.lines) /\ file.header /\ file.lines # <<>>
          /\ \A i \in 1..Len(file.lines) : block_from_csv(file.lines[i]).ok
      BY <1>4, <1>5, <1>6, <2>2
    <3>2. blockchain_load_csv(file) =
            [ok |-> TRUE,
             chain |-> [i \in 1..Len(file.lines) |-> block_from_csv(file.lines[i]).block]]
      BY ONLY <3>1, LoadFacts, Zenon
    <3> QED
      BY ONLY <1>4, <2>1, <3>2
  <2>4. /\ blocks = [i \in 1..Len(lines) |-> blocks[i]]
        /\ \A i \in 1..Len(lines) : blocks[i] = c[i]
    BY <1>6, <2>1
  <2>5. PICK k \in Nat : k = Len(lines) /\ k <= Len(c)
    BY <1>1, <1>5
  <2>6. IsSeq(blocks) /\ Len(blocks) = k
    BY <2>4, <2>5, SeqOfFunction
  <2>7. /\ IsSeq(SubSeq(c, 1, k)) /\ Len(SubSeq(c, 1, k)) = k - 1 + 1
        /\ \A i \in 1..(k - 1 + 1) : SubSeq(c, 1, k)[i] = c[1 + i - 1]
    BY <1>1, <2>5, SeqSub
  <2>8. k - 1 + 1 = k /\ \A i \in 1..k : 1 + i - 1 = i
    OBVIOUS
  <2>9. Same(blocks, SubSeq(c, 1, k))
    BY <2>4, <2>5, <2>6, <2>7, <2>8 DEF Same
  <2>10. blocks = SubSeq(c, 1, Len(lines))
    BY <2>5, <2>9, SameIsEqual
  <2> QED
    BY <1>4, <1>5, <1>6, <1>8, <2>3, <2>10
<1> QED
  BY <1>7, <1>8

-----------------------------------------------------------------------------
(* The two implementations.                                                *)

\* The separator of fields is no quote.
LEMMA CommaNotQuote == Comma # Quote
  BY Zenon DEF Comma, Quote

\* The script refuses a field with a comma: what follows the comma ends with
\* the closing quote.
LEMMA CommaRefused ==
  ASSUME NEW raw \in Seq(Char), Len(raw) >= 2, raw[Len(raw)] = Quote, Comma \in Range(raw)
  PROVE  ~NoExtra(raw)
<1> DEFINE commas == {i \in 1..Len(raw) : raw[i] = Comma}
<1>1. Len(raw) \in Nat /\ DOMAIN raw = 1..Len(raw) /\ IsSeq(raw)
  BY OwnElements
<1>2. commas # {}
  BY <1>1 DEF Range
<1>3. Min(commas) \in commas
  <2>1. commas \subseteq Nat
    BY <1>1
  <2> HIDE DEF commas
  <2> QED
    BY <1>2, <2>1, MinIsLeast
<1>4. PICK m \in 1..Len(raw) : m = Min(commas) /\ raw[m] = Comma
  BY <1>3
<1>5. m # Len(raw)
  BY <1>4, CommaNotQuote
<1>6. PICK k \in Nat : k = m - 1 /\ k + 2 = m + 1 /\ k <= Len(raw) /\ m + 1 <= Len(raw)
  <2>1. /\ m - 1 \in Nat /\ (m - 1) + 2 = m + 1 /\ m - 1 <= Len(raw) /\ m + 1 <= Len(raw)
    <3>1. Len(raw) \in Nat /\ m \in 1..Len(raw)
      BY <1>1
    <3> QED
      BY ONLY <1>5, <3>1
  <2> QED
    BY <2>1
<1>7. UpToComma(raw) = SubSeq(raw, 1, k)
  BY <1>2, <1>4, <1>6 DEF UpToComma
<1>8. Len(UpToComma(raw)) = k
  <2>1. Len(SubSeq(raw, 1, k)) = k - 1 + 1
    BY <1>1, <1>6, SeqSub
  <2> QED
    BY <1>7, <2>1
<1>9. PICK extra : extra = SubSeq(raw, m + 1, Len(raw))
  OBVIOUS
<1>10. PICK x \in Nat : x = Len(raw) - (m + 1) + 1 /\ x >= 1 /\ (m + 1) + x - 1 = Len(raw)
  <2>1. /\ Len(raw) - (m + 1) + 1 \in Nat /\ Len(raw) - (m + 1) + 1 >= 1
        /\ (m + 1) + (Len(raw) - (m + 1) + 1) - 1 = Len(raw)
    BY <1>1, <1>6
  <2> QED
    BY <2>1
<1>11. IsSeq(extra) /\ Len(extra) = x /\ extra[x] = Quote
  <2>1. m + 1 \in Nat /\ m + 1 >= 1 /\ m + 1 <= Len(raw) + 1
    BY <1>1, <1>6
  <2>2. /\ IsSeq(extra) /\ Len(extra) = Len(raw) - (m + 1) + 1
        /\ \A i \in 1..(Len(raw) - (m + 1) + 1) : extra[i] = raw[(m + 1) + i - 1]
    <3>1. PICK a \in Nat : a = m + 1 /\ a >= 1 /\ a <= Len(raw) + 1
      BY <2>1
    <3>2. /\ IsSeq(SubSeq(raw, a, Len(raw))) /\ Len(SubSeq(raw, a, Len(raw))) = Len(raw) - a + 1
          /\ \A i \in 1..(Len(raw) - a + 1) : SubSeq(raw, a, Len(raw))[i] = raw[a + i - 1]
      <4>1. IsSeq(raw) /\ Len(raw) \in Nat /\ Len(raw) <= Len(raw)
        BY <1>1
      <4> QED
        BY ONLY <3>1, <4>1, SeqSub
    <3> QED
      BY <1>9, <3>1, <3>2
  <2>3. x \in 1..(Len(raw) - (m + 1) + 1)
    BY <1>10
  <2>4. extra[x] = raw[(m + 1) + x - 1]
    BY <2>2, <2>3
  <2> QED
    BY <1>10, <2>2, <2>4
<1>12. extra # <<>> /\ extra # <<Comma>>
  <2>1. extra # <<>>
    BY <1>10, <1>11, SeqEmpty
  <2>2. ASSUME extra = <<Comma>>
        PROVE  FALSE
    <3>1. x = 1 /\ extra[1] = Comma
      BY <1>11, <2>2, SeqOne
    <3> QED
      BY <1>11, <3>1, CommaNotQuote
  <2> QED
    BY <2>1, <2>2
<1>13. NoExtra(raw) <=> extra \in {<<>>, <<Comma>>}
  BY <1>6, <1>8, <1>9 DEF NoExtra
<1> QED
  BY <1>12, <1>13

\* Without a comma read leaves the field as it is.
LEMMA CommaFree ==
  ASSUME NEW raw \in Seq(Char), Comma \notin Range(raw)
  PROVE  UpToComma(raw) = raw /\ NoExtra(raw)
<1>1. Len(raw) \in Nat /\ DOMAIN raw = 1..Len(raw)
  OBVIOUS
<1>2. {i \in 1..Len(raw) : raw[i] = Comma} = {}
  BY <1>1 DEF Range
<1>3. UpToComma(raw) = raw
  BY <1>2 DEF UpToComma
<1>4. SubSeq(raw, Len(raw) + 2, Len(raw)) = <<>>
  <2>1. PICK e : e = SubSeq(raw, Len(raw) + 2, Len(raw))
    OBVIOUS
  <2>2. \A i \in (Len(raw) + 2)..Len(raw) : raw[i] \in Char
    BY <1>1
  <2>3. e \in Seq(Char) /\ Len(e) = IF Len(raw) + 2 <= Len(raw) THEN Len(raw) - (Len(raw) + 2) + 1 ELSE 0
    BY <1>1, <2>1, <2>2, SubSeqProperties
  <2>4. Len(e) = 0
    BY <1>1, <2>3
  <2>5. Same(e, <<>>)
    BY <2>3, <2>4, OwnElements, SeqEmpty DEF Same
  <2> QED
    BY <2>1, <2>5, SameIsEqual
<1> QED
  BY <1>3, <1>4 DEF NoExtra

\* The transactions of a block that was parsed: texts within the limits.
LEMMA ParsedFacts ==
  ASSUME NEW b, IsParsed(b)
  PROVE  LET txs == b.transactions
         IN /\ IsSeq(txs) /\ txs # <<>> /\ Len(txs) \in 1..MAX_TRANSACTIONS_PER_BLOCK
            /\ \A k \in 1..Len(txs) : txs[k] # <<>> /\ txs[k] \in ShortText
<1>1. PICK txs : txs = b.transactions
  OBVIOUS
<1>2. PICK text \in Seq(Char) : text = Join(txs) /\ txs = SplitTransactions[text]
  BY <1>1 DEF IsParsed
<1>3. IsSeq(txs) /\ txs # <<>> /\ Len(txs) = Rounds(text)
  BY <1>2, JoinSplit
<1> DEFINE n == Len(text)
           C == Cursors(text)
           c == Rounds(text)
           Stop(k) == NextSeparator(text, C[k])
<1>4. IsSeq(text) /\ n \in Nat
  BY OwnElements
<1>5. /\ c \in 1..(n + 1)
      /\ \A k \in 1..c : C[k] \in 1..(n + 1)
      /\ \A k \in 1..(c - 1) : Stop(k) \in C[k]..(n - 1)
      /\ Stop(c) = n + 1
  BY <1>4, Loop
<1>6. txs = [k \in 1..c |-> SubSeq(text, C[k], Stop(k) - 1)]
  BY <1>2 DEF SplitTransactions
<1> HIDE DEF C, c, Stop
<1>7. Len(txs) = c
  BY <1>3 DEF c
<1>8. /\ Len(txs) <= MAX_TRANSACTIONS_PER_BLOCK
      /\ \A k \in 1..Len(txs) : LegalLength(txs[k])
  BY <1>1 DEF IsParsed
<1>9. ASSUME NEW k \in 1..Len(txs)
      PROVE  txs[k] # <<>> /\ txs[k] \in ShortText
  <2>1. k \in 1..c /\ c \in Nat
    BY <1>4, <1>5, <1>7
  <2>2. PICK p \in Nat : p = C[k] /\ p >= 1 /\ p <= n + 1
    BY <1>4, <1>5, <2>1
  <2>3. PICK q \in Nat : q = Stop(k) - 1 /\ q <= n
    <3>1. CASE k = c
      BY <1>4, <1>5, <3>1
    <3>2. CASE k # c
      <4>1. k \in 1..(c - 1)
        BY <2>1, <3>2
      <4>2. Stop(k) \in C[k]..(n - 1)
        BY <1>5, <4>1
      <4> QED
        BY <1>4, <2>2, <4>2
    <3> QED
      BY <3>1, <3>2
  <2>4. txs[k] = SubSeq(text, p, q)
    BY <1>6, <2>1, <2>2, <2>3
  <2>5. \A i \in p..q : text[i] \in Char
    BY <1>4, <2>2, <2>3
  <2>6. txs[k] \in Seq(Char)
    BY <2>4, <2>5, SubSeqProperties
  <2>7. Len(txs[k]) # 0
    BY <1>8 DEF LegalLength
  <2> QED
    BY <1>8, <2>6, <2>7, SeqEmpty DEF ShortText
<1>10. Len(txs) \in 1..MAX_TRANSACTIONS_PER_BLOCK
  BY <1>4, <1>5, <1>7, <1>8, LimitAssumption
<1> QED
  BY <1>1, <1>3, <1>9, <1>10

\* What the script reads from a line is what the C program reads.
LEMMA LineAgrees ==
  ASSUME NEW line, line.transactions \in Seq(Char), block_from_csv(line).ok
  PROVE  LET b == block_from_csv(line).block
             raw == line.transactions
         IN /\ (NoExtra(raw) /\ Quoted(UpToComma(raw))) <=> Comma \notin Range(raw)
            /\ Comma \notin Range(raw) =>
                 /\ split_transactions(Transactions(line)) = b.transactions
                 /\ hash_block_fields(line) = calculate_block_hash(b)
            /\ merkle_of(b.transactions) = calculate_merkle_root(b.transactions)
            /\ b.index = line.index.value /\ b.merkle_root = line.merkle_root
            /\ b.previous_hash = line.previous_hash
<1>1. PICK raw \in Seq(Char) : raw = line.transactions
  OBVIOUS
<1>2. PICK text \in Seq(Char) : text = SubSeq(raw, 2, Len(raw) - 1)
  BY <1>1, LineParsed
<1>3. PICK txs : txs = SplitTransactions[text]
  OBVIOUS
<1>4. PICK b : b = block_from_csv(line).block
  OBVIOUS
<1>5. /\ Len(raw) \in Nat /\ Len(raw) >= 2 /\ raw[1] = Quote /\ raw[Len(raw)] = Quote
      /\ b = [index |-> line.index.value, timestamp |-> line.timestamp.value,
              previous_hash |-> line.previous_hash, nonce |-> line.nonce.value,
              merkle_root |-> line.merkle_root, transactions |-> txs]
  BY <1>1, <1>2, <1>3, <1>4, LineParsed
<1>6. /\ b.index = line.index.value /\ b.timestamp = line.timestamp.value
      /\ b.previous_hash = line.previous_hash /\ b.nonce = line.nonce.value
      /\ b.merkle_root = line.merkle_root /\ b.transactions = txs
  BY <1>5
<1>7. IsSeq(txs) /\ txs # <<>> /\ Join(txs) = text
  BY <1>3, JoinSplit
<1>8. merkle_of(txs) = calculate_merkle_root(txs)
  BY <1>7, RootsAgree
<1>9. CASE Comma \in Range(raw)
  BY <1>1, <1>4, <1>5, <1>6, <1>8, <1>9, CommaRefused
<1>10. CASE Comma \notin Range(raw)
  <2>1. UpToComma(raw) = raw /\ NoExtra(raw)
    BY <1>10, CommaFree
  <2>2. Quoted(raw)
    BY <1>5, Zenon DEF Quoted, Quote
  <2>3. Transactions(line) = text
    BY <1>1, <1>2, <2>1 DEF Transactions
  <2>4. split_transactions(Transactions(line)) = txs
    BY <1>3, <2>3, SplitsAgree
  <2>5. hash_block_fields(line) = calculate_block_hash(b)
    BY <1>6, <1>7, <2>3 DEF hash_block_fields, calculate_block_hash, build_block_hash_input
  <2> QED
    BY <1>1, <1>4, <1>6, <1>8, <1>10, <2>1, <2>2, <2>4, <2>5
<1> QED
  BY <1>9, <1>10

\* What the script tests of a line, in terms of the block b in it.
Accepted(lines, i, b) ==
  /\ Readable(lines[i])
  /\ b.index = i - 1
  /\ i > 1 => \A k \in 1..Len(b.transactions) : b.transactions[k] \in ValidTx
  /\ calculate_merkle_root(b.transactions) = b.merkle_root
  /\ i > 1 => b.previous_hash = hash_block_fields(lines[i - 1])

\* One line: the script accepts it for what the C program reads from it.
LEMMA VerifyLine ==
  ASSUME NEW lines, NEW i, lines[i].transactions \in Seq(Char), block_from_csv(lines[i]).ok,
         NEW b, b = block_from_csv(lines[i]).block
  PROVE  verify_line(lines, i) <=> Accepted(lines, i, b)
<1>1. PICK line : line = lines[i]
  OBVIOUS
<1>2. PICK raw : raw = line.transactions
  OBVIOUS
<1>3. PICK txs : txs = b.transactions
  OBVIOUS
<1>4. /\ (NoExtra(raw) /\ Quoted(UpToComma(raw))) <=> Comma \notin Range(raw)
      /\ Comma \notin Range(raw) => split_transactions(Transactions(line)) = txs
      /\ merkle_of(txs) = calculate_merkle_root(txs)
      /\ b.index = line.index.value /\ b.merkle_root = line.merkle_root
      /\ b.previous_hash = line.previous_hash
  BY <1>1, <1>2, <1>3, LineAgrees
<1>5. \A k \in 1..Len(txs) : txs[k] # <<>>
  BY <1>3, LineGivesParsed, ParsedFacts
<1>6. PICK split : split = split_transactions(Transactions(line))
  OBVIOUS
<1>7. verify_line(lines, i) <=>
        /\ NoExtra(raw) /\ Quoted(UpToComma(raw))
        /\ line.index.canonical /\ line.timestamp.canonical /\ line.nonce.canonical
        /\ line.index.value = i - 1
        /\ \A k \in 1..Len(split) : split[k] # <<>>
        /\ i > 1 => \A k \in 1..Len(split) : split[k] \in ValidTx
        /\ merkle_of(split) = line.merkle_root
        /\ i > 1 => line.previous_hash = hash_block_fields(lines[i - 1])
  BY <1>1, <1>2, <1>6, Zenon DEF verify_line, is_u64_hex, is_valid_transaction
<1>8. CASE Comma \in Range(raw)
  BY <1>1, <1>2, <1>4, <1>7, <1>8 DEF Accepted, Readable
<1>9. CASE Comma \notin Range(raw)
  <2>1. split = txs
    BY <1>4, <1>6, <1>9
  <2> QED
    BY <1>1, <1>2, <1>3, <1>4, <1>5, <1>7, <1>9, <2>1 DEF Accepted, Readable
<1> QED
  BY <1>8, <1>9

\* What validate_block_merkle_root tests of a block that was parsed.
LEMMA ValidParsed ==
  ASSUME NEW b, IsParsed(b)
  PROVE  V!validate_block_merkle_root(b) <=>
           /\ b.index # 0 => \A k \in 1..Len(b.transactions) : b.transactions[k] \in ValidTx
           /\ calculate_merkle_root(b.transactions) = b.merkle_root
<1>1. PICK txs : txs = b.transactions
  OBVIOUS
<1>2. /\ Len(txs) \in 1..MAX_TRANSACTIONS_PER_BLOCK
      /\ \A k \in 1..Len(txs) : txs[k] \in ShortText
  BY <1>1, ParsedFacts
<1>3. V!validate_block_structure(b) <=>
        (b.index # 0 => \A k \in 1..Len(txs) : txs[k] \in ValidTx)
  BY <1>1, <1>2 DEF V!validate_block_structure, V!validate_transaction
<1> QED
  BY <1>1, <1>3 DEF V!validate_block_merkle_root

\* The script and the C program agree on every file that loads: by the cut of
\* its texts (SplitsAgree), the root (RootsAgree) and the hash (JoinSplit).
THEOREM Agreement ==
  ASSUME NEW file, IsSeq(file.lines),
         \A i \in 1..Len(file.lines) : file.lines[i].transactions \in Seq(Char)
  PROVE  AgreeOn(file)
<1>1. SUFFICES ASSUME blockchain_load_csv(file).ok
               PROVE  verify_blockchain(file) <=>
                        /\ ValidButForTime(blockchain_load_csv(file).chain)
                        /\ \A i \in 1..Len(file.lines) : Readable(file.lines[i])
  BY DEF AgreeOn
<1>2. PICK lines : lines = file.lines
  OBVIOUS
<1>3. PICK n : n = Len(lines)
  OBVIOUS
<1>4. n \in Nat
  BY <1>2, <1>3, SeqFacts
<1>5. /\ file.header /\ lines # <<>> /\ \A i \in 1..n : block_from_csv(lines[i]).ok
  BY <1>1, <1>2, <1>3, LoadFacts
<1>6. PICK c : c = [i \in 1..n |-> block_from_csv(lines[i]).block]
  OBVIOUS
<1>7. blockchain_load_csv(file).chain = c
  <2>1. blockchain_load_csv(file) =
          [ok |-> TRUE,
           chain |-> [i \in 1..Len(file.lines) |-> block_from_csv(file.lines[i]).block]]
    BY <1>1, LoadFacts
  <2> QED
    BY <1>2, <1>3, <1>6, <2>1
<1>8. Len(c) = n
  <2>1. c = [i \in 1..n |-> c[i]]
    BY <1>6
  <2> QED
    BY <1>4, <2>1, SeqOfFunction
<1>9. n >= 1
  <2>1. SUFFICES ASSUME n = 0 PROVE Same(lines, <<>>)
    BY <1>4, <1>5, SameIsEqual
  <2> QED
    BY <1>2, <1>3, <2>1, SeqEmpty DEF Same
<1>10. ASSUME NEW i \in 1..n
       PROVE  /\ lines[i].transactions \in Seq(Char) /\ block_from_csv(lines[i]).ok
              /\ c[i] = block_from_csv(lines[i]).block /\ IsParsed(c[i])
  <2>1. /\ lines[i].transactions \in Seq(Char) /\ block_from_csv(lines[i]).ok
        /\ c[i] = block_from_csv(lines[i]).block
    BY <1>2, <1>3, <1>5, <1>6
  <2> QED
    BY <2>1, LineGivesParsed
<1> DEFINE Valid(i) == \A k \in 1..Len(c[i].transactions) : c[i].transactions[k] \in ValidTx
           Root(i) == calculate_merkle_root(c[i].transactions) = c[i].merkle_root
<1>11. \A i \in 1..n : verify_line(lines, i) <=> Accepted(lines, i, c[i])
  BY <1>10, VerifyLine
<1>12. \A i \in 1..n : V!validate_block_merkle_root(c[i]) <=> (c[i].index # 0 => Valid(i)) /\ Root(i)
  BY <1>10, ValidParsed
<1>13. \A i \in 1..n : Readable(lines[i]) => hash_block_fields(lines[i]) = calculate_block_hash(c[i])
  <2> TAKE i \in 1..n
  <2>1. /\ lines[i].transactions \in Seq(Char) /\ block_from_csv(lines[i]).ok
        /\ c[i] = block_from_csv(lines[i]).block
    BY <1>10
  <2> QED
    BY ONLY <2>1, LineAgrees, Zenon DEF Readable
<1>14. verify_blockchain(file) <=> \A i \in 1..n : Accepted(lines, i, c[i])
  <2>1. verify_blockchain(file) <=>
          file.header /\ lines # <<>> /\ \A i \in 1..n : verify_line(lines, i)
    BY <1>2, <1>3, Zenon DEF verify_blockchain
  <2> QED
    BY <1>5, <1>11, <2>1
<1>15. ValidButForTime(c) <=>
         /\ c[1].index = 0
         /\ \A i \in 1..n : V!validate_block_merkle_root(c[i])
         /\ \A i \in 2..n : /\ c[i].index = c[i - 1].index + 1
                            /\ c[i].previous_hash = calculate_block_hash(c[i - 1])
  BY <1>8 DEF ValidButForTime
<1>16. \A i \in 1..n : Accepted(lines, i, c[i]) <=>
         /\ Readable(lines[i]) /\ c[i].index = i - 1 /\ (i > 1 => Valid(i)) /\ Root(i)
         /\ i > 1 => c[i].previous_hash = hash_block_fields(lines[i - 1])
  BY Zenon DEF Accepted
<1> HIDE DEF Valid, Root
<1>17. ASSUME \A i \in 1..n : Accepted(lines, i, c[i])
       PROVE  ValidButForTime(c) /\ \A i \in 1..n : Readable(lines[i])
  <2>1. c[1].index = 0
    <3>1. 1 \in 1..n
      BY <1>4, <1>9
    <3> QED
      BY <1>16, <1>17, <3>1
  <2>2. ASSUME NEW i \in 1..n
        PROVE  V!validate_block_merkle_root(c[i])
    <3>1. c[i].index = i - 1 /\ (i > 1 => Valid(i)) /\ Root(i)
      BY <1>16, <1>17
    <3>2. c[i].index # 0 => i > 1
      BY <1>4, <3>1
    <3> QED
      BY <1>12, <3>1, <3>2
  <2>3. ASSUME NEW i \in 2..n
        PROVE  /\ c[i].index = c[i - 1].index + 1
               /\ c[i].previous_hash = calculate_block_hash(c[i - 1])
    <3>1. PICK j \in 1..n : j = i - 1 /\ i \in 1..n /\ i > 1
      BY <1>4
    <3>2. c[i].index = i - 1 /\ c[j].index = j - 1
      BY <1>16, <1>17, <3>1
    <3>3. c[i].previous_hash = hash_block_fields(lines[j]) /\ Readable(lines[j])
      BY <1>16, <1>17, <3>1
    <3> QED
      BY <1>4, <1>13, <3>1, <3>2, <3>3
  <2>4. \A i \in 1..n : Readable(lines[i])
    BY <1>16, <1>17
  <2> QED
    BY <1>15, <2>1, <2>2, <2>3, <2>4
<1>18. ASSUME ValidButForTime(c), \A i \in 1..n : Readable(lines[i])
       PROVE  \A i \in 1..n : Accepted(lines, i, c[i])
  <2>1. /\ c[1].index = 0
        /\ \A i \in 1..n : V!validate_block_merkle_root(c[i])
        /\ \A i \in 2..n : /\ c[i].index = c[i - 1].index + 1
                           /\ c[i].previous_hash = calculate_block_hash(c[i - 1])
    BY <1>15, <1>18
  <2> DEFINE S == {k \in Nat : k + 1 <= n => c[k + 1].index = k}
  <2>2. 0 \in S
    BY <2>1
  <2>3. ASSUME NEW k \in Nat, k \in S
        PROVE  k + 1 \in S
    <3>1. SUFFICES ASSUME (k + 1) + 1 <= n PROVE c[(k + 1) + 1].index = k + 1
      OBVIOUS
    <3>2. PICK j \in 2..n : j = (k + 1) + 1 /\ j - 1 = k + 1
      BY <1>4, <3>1
    <3>3. c[j].index = c[j - 1].index + 1
      BY <2>1
    <3>4. c[k + 1].index = k
      BY <1>4, <2>3, <3>1
    <3> QED
      BY <3>2, <3>3, <3>4
  <2> HIDE DEF S
  <2>4. \A k \in Nat : k \in S
    BY <2>2, <2>3, Induction
  <2>5. ASSUME NEW i \in 1..n
        PROVE  Accepted(lines, i, c[i])
    <3>1. c[i].index = i - 1
      <4>1. i - 1 \in Nat /\ (i - 1) + 1 = i /\ i <= n
        BY <1>4
      <4> QED
        BY <2>4, <4>1 DEF S
    <3>2. (c[i].index # 0 => Valid(i)) /\ Root(i)
      BY <1>12, <2>1
    <3>3. i > 1 => Valid(i)
      BY <1>4, <3>1, <3>2
    <3>4. ASSUME i > 1
          PROVE  c[i].previous_hash = hash_block_fields(lines[i - 1])
      <4>1. i \in 2..n /\ i - 1 \in 1..n
        BY <1>4, <3>4
      <4> QED
        BY <1>13, <1>18, <2>1, <4>1
    <3> QED
      BY <1>16, <1>18, <3>1, <3>2, <3>3, <3>4
  <2> QED
    BY <2>5
<1> QED
  BY <1>2, <1>3, <1>7, <1>14, <1>17, <1>18

-----------------------------------------------------------------------------
(* The invariant of files, step by step.                                   *)

\* A step that appends nothing and answers nothing.
LEMMA FileFrame ==
  ASSUME FileInv, response'.message = response.message, UNCHANGED <<chain, boot, result>>
  PROVE  FileInv'
  BY DEF FileInv, Answered

\* Cells move, an end is closed, or the bootstrap is killed.
LEMMA MovesKeepFiles ==
  ASSUME IInv, FileInv,
         \/ ReceiveRequest \/ SendResponse \/ CloseConnection
         \/ SendRequest \/ ReceiveResponse \/ BootstrapKilled \/ KillNode
  PROVE  FileInv'
<1>0. WireInv(response)
  BY DEF IInv
<1>1. CASE ReceiveRequest \/ SendRequest
  BY <1>1, FileFrame DEF ReceiveRequest, SendRequest
<1>2. CASE SendResponse
  <2>1. Writes(response, response') /\ UNCHANGED <<chain, boot, result>>
    BY <1>2, ResponseSteps DEF SendResponse
  <2> QED
    BY <1>0, <2>1, WriteStep, FileFrame
<1>3. CASE CloseConnection
  <2>1. response' = Req!CloseSender(response) /\ UNCHANGED <<chain, boot, result>>
    BY <1>3 DEF CloseConnection, Resp!CloseSender, Req!CloseSender
  <2> QED
    BY <1>0, <2>1, CloseStep, FileFrame
<1>4. CASE ReceiveResponse
  <2>1. UNCHANGED <<chain, boot, result>>
    BY <1>4 DEF ReceiveResponse
  <2>2. \/ Reads(response, response')
        \/ response.receiver = "reading" /\ response' = [response EXCEPT !.receiver = "failed"]
    BY <1>4, ResponseSteps DEF ReceiveResponse
  <2>3. response'.message = response.message
    BY <1>0, <2>2, ReadStep, CloseStep
  <2> QED
    BY <2>1, <2>3, FileFrame
<1>5. CASE BootstrapKilled
  <2>1. boot' = [pc |-> "killed"] /\ UNCHANGED <<chain, result>>
    BY <1>5 DEF BootstrapKilled
  <2>2. boot'.pc # "request"
    BY <2>1
  <2> QED
    BY <2>1, <2>2 DEF FileInv, Answered
<1>6. CASE KillNode
  <2>1. NodeEnds /\ UNCHANGED <<chain, boot, result>>
    BY <1>6 DEF KillNode
  <2> QED
    BY <2>1, NodeEndsStep, FileFrame
<1> QED
  BY <1>1, <1>2, <1>3, <1>4, <1>5, <1>6

\* The blocks of the file that is loaded were parsed.
LEMMA NodeInitKeepsFiles ==
  ASSUME IInv, FileInv, NodeInit
  PROVE  FileInv'
<1>1. UNCHANGED <<boot, result>>
  BY DEF NodeInit
<1>2. CASE NodeEnds /\ UNCHANGED chain
  BY <1>1, <1>2, NodeEndsStep, FileFrame
<1>3. CASE (\A i \in 1..Len(chain') : IsParsed(chain'[i])) /\ UNCHANGED response
  BY <1>1, <1>3 DEF FileInv, Answered
<1>4. CASE disk = NoFile
  <2>1. chain' = <<>> /\ UNCHANGED response
    BY <1>4 DEF NodeInit
  <2> QED
    BY <1>3, <2>1, SeqEmpty
<1>5. CASE disk # NoFile /\ ~blockchain_load_csv(disk).ok
  BY <1>2, <1>5 DEF NodeInit
<1>6. CASE disk # NoFile /\ blockchain_load_csv(disk).ok
  <2>1. PICK lines : lines = disk.lines
    OBVIOUS
  <2>2. /\ IsSeq(lines) /\ Len(lines) \in Nat
        /\ \A i \in 1..Len(lines) : lines[i].transactions \in Seq(Char)
    BY <1>6, <2>1, FileAssumption, SeqFacts DEF IInv
  <2>3. \A i \in 1..Len(lines) : block_from_csv(lines[i]).ok
    BY <1>6, <2>1, <2>2, LoadFacts
  <2>4. PICK f : f = [i \in 1..Len(lines) |-> block_from_csv(lines[i]).block]
    OBVIOUS
  <2>5. blockchain_load_csv(disk).chain = f
    <3>1. blockchain_load_csv(disk) =
            [ok |-> TRUE,
             chain |-> [i \in 1..Len(disk.lines) |-> block_from_csv(disk.lines[i]).block]]
      BY <1>6, <2>1, <2>2, LoadFacts
    <3> QED
      BY <2>1, <2>4, <3>1
  <2>6. chain' = f /\ UNCHANGED response
    BY <1>6, <2>5 DEF NodeInit
  <2>7. Len(f) = Len(lines) /\ \A i \in 1..Len(lines) : f[i] = block_from_csv(lines[i]).block
    <3>1. f = [i \in 1..Len(lines) |-> f[i]]
      BY <2>4
    <3> QED
      BY <2>2, <2>4, <3>1, SeqOfFunction
  <2>8. \A i \in 1..Len(f) : IsParsed(f[i])
    BY <2>2, <2>3, <2>7, LineGivesParsed
  <2> QED
    BY <1>3, <2>6, <2>8
<1> QED
  BY <1>4, <1>5, <1>6

\* The block that is appended was parsed.
LEMMA AppendKeepsFiles ==
  ASSUME IInv, FileInv, AppendBlock
  PROVE  FileInv'
<1>1. UNCHANGED <<boot, result, response>>
  BY DEF AppendBlock
<1>2. PICK line \in ProposedLines :
        block_from_csv(line).ok /\ chain' = Append(chain, block_from_csv(line).block)
  BY DEF AppendBlock, blockchain_append
<1>3. line.transactions \in Seq(Char)
  BY ArchiveAssumption DEF ProposedLines
<1>4. PICK b : b = block_from_csv(line).block
  OBVIOUS
<1>5. IsParsed(b)
  BY <1>2, <1>3, <1>4, LineGivesParsed
<1>6. /\ Len(chain') = Len(chain) + 1 /\ chain'[Len(chain) + 1] = b
      /\ \A i \in 1..Len(chain) : chain'[i] = chain[i]
  BY <1>2, <1>4, SeqAppend DEF IInv
<1>7. ASSUME NEW i \in 1..Len(chain')
      PROVE  IsParsed(chain'[i])
  <2>1. Len(chain) \in Nat
    BY SeqFacts DEF IInv
  <2>2. i \in 1..Len(chain) \/ i = Len(chain) + 1
    BY <1>6, <2>1
  <2> QED
    BY <1>5, <1>6, <2>2 DEF FileInv
<1> QED
  BY <1>1, <1>7 DEF FileInv, Answered

\* An error is a text without lines.
LEMMA QueryKeepsFiles ==
  ASSUME IInv, FileInv, HandleQuery
  PROVE  FileInv'
<1>0. WireInv(request) /\ WireInv(response) /\ IsSeq(chain)
  BY DEF IInv
<1>1. UNCHANGED <<chain, boot, result>> /\ response.message = NoResult
  BY DEF HandleQuery
<1>2. PICK q, a : /\ a = handle_query_chain(q) \/ a = handle_query_block(q)
                  /\ LET sent == Resp!ipc_send(response, a)
                     IN response' = IF sent = response THEN Resp!CloseSender(response) ELSE sent
  BY DEF HandleQuery
<1>3. /\ a = Req!Message(a.type, a.payload) /\ IsSeq(a.payload)
  BY <1>0, <1>2, ChainAnswer, BlockAnswer
<1>4. ErrorIsText(a.type, a.payload)
  <2>1. a = Req!Message("ERR", ErrorText) \/ \E p : a = Req!Message("OK", p)
    BY <1>2 DEF handle_query_chain, handle_query_block, Answer, Resp!Message, Req!Message
  <2>2. CASE a = Req!Message("ERR", ErrorText)
    BY <2>2 DEF Req!Message, ErrorIsText
  <2>3. CASE \E p : a = Req!Message("OK", p)
    BY <2>3 DEF Req!Message, ErrorIsText
  <2> QED
    BY <2>1, <2>2, <2>3
<1>5. PICK v : v = Req!ipc_send(response, a)
  OBVIOUS
<1>6. response' = IF v = response THEN Req!CloseSender(response) ELSE v
  BY <1>2, <1>5 DEF Resp!ipc_send, Req!ipc_send, Resp!Header, Req!Header,
                    Resp!CloseSender, Req!CloseSender
<1>7. v = response \/ (v # response /\ v.message = a)
  BY <1>0, <1>1, <1>3, <1>5, SendStep
<1>8. CASE v = response
  BY <1>0, <1>1, <1>6, <1>8, CloseStep, FileFrame
<1>9. CASE v # response
  <2>1. response'.message = a
    BY <1>6, <1>7, <1>9
  <2> QED
    BY <1>1, <1>4, <2>1 DEF FileInv, Answered
<1> QED
  BY <1>8, <1>9

\* The answer is the response to the command.
LEMMA FinishKeepsFiles ==
  ASSUME IInv, FileInv, Finish
  PROVE  FileInv'
<1>1. /\ boot.pc = "request" /\ boot'.pc # "request" /\ UNCHANGED chain
  BY DEF Finish, Prompt
<1>2. \/ result'.state \in {"no response", "not written"}
      \/ /\ response.receiver = "done"
         /\ result' = [state |-> "answered", command |-> boot.command, height |-> boot.height,
                       type |-> Value(response).type, payload |-> Value(response).payload]
  <2>1. CASE response.receiver = "failed" /\ result' = [state |-> "no response"]
    BY <2>1
  <2>2. CASE result' = [state |-> "not written"]
    BY <2>2
  <2>3. CASE /\ response.receiver = "done"
             /\ result' = [state |-> "answered", command |-> boot.command, height |-> boot.height,
                           type |-> Resp!Received.type, payload |-> Resp!Received.payload]
    BY <2>3, ResponseSteps
  <2> QED
    BY <2>1, <2>2, <2>3, Zenon DEF Finish
<1>3. CASE result'.state \in {"no response", "not written"}
  <2>1. ~Answered'
    BY <1>3 DEF Answered
  <2> QED
    BY <1>1, <2>1 DEF FileInv
<1>4. CASE /\ response.receiver = "done"
           /\ result' = [state |-> "answered", command |-> boot.command, height |-> boot.height,
                         type |-> Value(response).type, payload |-> Value(response).payload]
  <2>1. Value(response) = response.message /\ response.message # NoResult
    BY <1>4, ReceivedIsSent DEF IInv
  <2>2. /\ result'.command = boot.command
        /\ result'.type = response.message.type /\ result'.payload = response.message.payload
    BY <1>4, <2>1
  <2>3. SavesAll(boot.command) /\ ErrorIsText(response.message.type, response.message.payload)
    BY <1>1, <2>1 DEF FileInv
  <2> QED
    BY <1>1, <2>2, <2>3 DEF FileInv
<1> QED
  BY <1>2, <1>3, <1>4

\* The command that saves asks for the whole chain.
LEMMA TypeKeepsFiles ==
  ASSUME IInv, FileInv, TypeCommand
  PROVE  FileInv'
<1>1. UNCHANGED chain
  BY DEF TypeCommand
<1>2. CASE node = "dead"
  <2>1. result' = [state |-> "unreachable"] /\ UNCHANGED <<boot, response>>
    BY <1>2 DEF TypeCommand
  <2>2. ~Answered'
    BY <2>1 DEF Answered
  <2> QED
    BY <1>1, <2>1, <2>2 DEF FileInv
<1>3. CASE node # "dead"
  <2>1. PICK c \in CommandSet :
          /\ boot' = [pc |-> "request", command |-> c, height |-> Len(chain)]
          /\ result' = NoResult /\ response' = Req!NewWire
    BY <1>3, NewWireFacts DEF TypeCommand
  <2>2. SavesAll(c)
    BY DEF CommandSet, SavesAll
  <2>3. response'.message = NoResult /\ boot'.command = c
    BY <2>1, NewWireFacts
  <2>4. ~Answered'
    BY <2>1 DEF Answered, NoResult
  <2> QED
    BY <1>1, <2>2, <2>3, <2>4 DEF FileInv
<1> QED
  BY <1>2, <1>3

\* Every step keeps the invariant of files, next to that of commands.
LEMMA FileStep ==
  ASSUME IInv, FileInv, [Next]_vars
  PROVE  FileInv'
<1>1. CASE UNCHANGED vars
  BY <1>1, FileFrame DEF vars
<1>2. CASE NodeStep
  BY <1>2, NodeInitKeepsFiles, MovesKeepFiles, QueryKeepsFiles DEF NodeStep
<1>3. CASE BootStep
  BY <1>3, MovesKeepFiles, FinishKeepsFiles DEF BootStep
<1>4. CASE AppendBlock
  BY <1>4, AppendKeepsFiles
<1>5. CASE KillNode
  BY <1>5, MovesKeepFiles
<1>6. CASE TypeCommand
  BY <1>6, TypeKeepsFiles
<1> QED
  BY <1>1, <1>2, <1>3, <1>4, <1>5, <1>6 DEF Next

\* At the start there is no chain and no command.
LEMMA FileBegins == Init => FileInv
<1> SUFFICES ASSUME Init PROVE FileInv
  OBVIOUS
<1>1. ~Answered /\ boot.pc # "request" /\ Len(chain) = 0
  BY SeqEmpty DEF Init, Answered, NoResult, Prompt
<1> QED
  BY <1>1 DEF FileInv

\* A file that `save blockchain` wrote is the beginning of the chain, saved.
LEMMA SavedIsPrefix ==
  ASSUME IInv, FileInv, Answered, result.command.name = "save", result.type # "ERR"
  PROVE  \E m \in Nat : /\ m <= Len(chain)
                        /\ SavedFile(result.payload) = blockchain_save_csv(SubSeq(chain, 1, m))
<1>1. PICK c : c = result.command
  OBVIOUS
<1>2. PICK h : h = result.height
  OBVIOUS
<1>3. PICK t : t = result.type
  OBVIOUS
<1>4. PICK p : p = result.payload
  OBVIOUS
<1>5. c.type = "QUERY_CHAIN" /\ c.query = [by |-> "all"]
  BY <1>1 DEF FileInv, SavesAll
<1>6. IsSnapshot(c, h, t, p) /\ h \in 0..Len(chain)
  BY <1>1, <1>2, <1>3, <1>4 DEF IInv, CommandInv, AnswerIsSnapshot
<1>7. t # "ERR" /\ c.type # "QUERY_BLOCK"
  BY <1>3, <1>5
<1>8. \E i \in Starts(c.query), n \in h..Len(chain) :
        SavedFile(p) = blockchain_save_csv(SubSeq(chain, i, n))
  BY <1>6, <1>7, SnapshotCases
<1>9. Starts(c.query) = {1}
  BY <1>5 DEF Starts
<1>10. PICK n \in h..Len(chain) : SavedFile(p) = blockchain_save_csv(SubSeq(chain, 1, n))
  BY <1>8, <1>9
<1>11. n \in Nat /\ n <= Len(chain)
  <2>1. Len(chain) \in Nat
    BY SeqFacts DEF IInv
  <2> QED
    BY <1>6, <2>1
<1> QED
  BY <1>4, <1>10, <1>11

\* An error that `save blockchain` wrote is no file with a header.
LEMMA SavedErrorHasNoHeader ==
  ASSUME FileInv, Answered, result.type = "ERR"
  PROVE  SavedFile(result.payload) = [header |-> FALSE, lines |-> <<>>]
<1>1. result.payload = ErrorText
  BY DEF FileInv, ErrorIsText
<1>2. ErrorText[1] # CsvHeader
  BY DEF ErrorText, CsvHeader
<1> QED
  BY <1>1, <1>2 DEF SavedFile

-----------------------------------------------------------------------------
(* Theorems.                                                               *)

\* Every block of node 0's chain has the transactions that block_from_csv
\* found in a text, and a file is saved from the whole chain.
THEOREM FileInvariance == Spec => [](IInv /\ FileInv)
<1>1. IInv /\ FileInv /\ [Next]_vars => FileInv'
  BY FileStep
<1> QED
  BY <1>1, FileBegins, Invariance, PTL DEF Spec

\* What `save blockchain` writes, blockchain_load_csv reads again, to the
\* very blocks of the chain: for every chain, every text and every limit.
THEOREM SavedFilesReload == Spec => []SavedFileReloads
<1>1. ASSUME IInv, FileInv
      PROVE  SavedFileReloads
  <2>1. SUFFICES ASSUME Answered, result.command.name = "save", result.type = "OK"
                 PROVE  LET file == SavedFile(result.payload)
                            count == Len(file.lines)
                        IN IF count = 0 THEN ~blockchain_load_csv(file).ok
                           ELSE blockchain_load_csv(file) =
                                  [ok |-> TRUE, chain |-> SubSeq(chain, 1, count)]
    BY DEF SavedFileReloads
  <2>2. PICK file : file = SavedFile(result.payload)
    OBVIOUS
  <2>3. PICK m \in Nat : m <= Len(chain) /\ file = blockchain_save_csv(SubSeq(chain, 1, m))
    BY <1>1, <2>1, <2>2, SavedIsPrefix
  <2>4. IsSeq(chain) /\ \A i \in 1..Len(chain) : IsParsed(chain[i])
    BY <1>1 DEF IInv, FileInv
  <2> QED
    BY <2>2, <2>3, <2>4, Reloads
<1> QED
  BY <1>1, FileInvariance, PTL

\* blockchain.sh --verify accepts an initial state that loads, or a saved
\* file, exactly if the rules of validation.c do, but for timestamps, commas
\* and the spelling of numbers: for every number of lines and every text.
THEOREM ImplementationsAgree == Spec => []VerifierAgrees
<1>1. ASSUME IInv, FileInv
      PROVE  VerifierAgrees
  <2>1. ASSUME disk # NoFile
        PROVE  AgreeOn(disk)
    <3>1. /\ IsSeq(disk.lines)
          /\ \A i \in 1..Len(disk.lines) : disk.lines[i].transactions \in Seq(Char)
      BY <1>1, <2>1, FileAssumption DEF IInv
    <3> QED
      BY <3>1, Agreement
  <2>2. ASSUME Answered, result.command.name = "save"
        PROVE  AgreeOn(SavedFile(result.payload))
    <3>1. PICK file : file = SavedFile(result.payload)
      OBVIOUS
    <3>2. CASE result.type = "ERR"
      <4>1. file = [header |-> FALSE, lines |-> <<>>]
        BY <1>1, <2>2, <3>1, <3>2, SavedErrorHasNoHeader
      <4>2. IsSeq(file.lines) /\ \A i \in 1..Len(file.lines) : file.lines[i].transactions \in Seq(Char)
        BY <4>1, SeqEmpty
      <4> QED
        BY <3>1, <4>2, Agreement
    <3>3. CASE result.type # "ERR"
      <4>1. PICK m \in Nat : m <= Len(chain) /\ file = blockchain_save_csv(SubSeq(chain, 1, m))
        BY <1>1, <2>2, <3>1, <3>3, SavedIsPrefix
      <4>2. IsSeq(chain) /\ \A i \in 1..Len(chain) : IsParsed(chain[i])
        BY <1>1 DEF IInv, FileInv
      <4>3. IsSeq(file.lines) /\ \A i \in 1..Len(file.lines) : file.lines[i].transactions \in Seq(Char)
        BY <4>1, <4>2, Reloads
      <4> QED
        BY <3>1, <4>3, Agreement
    <3> QED
      BY <3>2, <3>3
  <2> QED
    BY <2>1, <2>2 DEF VerifierAgrees
<1> QED
  BY <1>1, FileInvariance, PTL

\* calculate_merkle_root gives no other list of transactions the root of a
\* block in the chain, whatever their number, before and after any command.
THEOREM RootsBind == Spec => [](RootsBound /\ RootBindsTransactions)
<1>1. ASSUME IInv, FileInv
      PROVE  RootsBound /\ RootBindsTransactions
  <2>1. SUFFICES ASSUME NEW i \in 1..Len(chain), V!validate_block_merkle_root(chain[i]),
                        NEW other \in Batches,
                        calculate_merkle_root(other) = chain[i].merkle_root
                 PROVE  other = chain[i].transactions
    BY DEF RootsBound, RootBindsTransactions
  <2>2. PICK b : b = chain[i]
    OBVIOUS
  <2>3. PICK txs : txs = b.transactions
    OBVIOUS
  <2>4. IsParsed(b)
    BY <1>1, <2>2 DEF FileInv
  <2>5. IsSeq(txs) /\ txs # <<>> /\ \A k \in 1..Len(txs) : txs[k] # <<>>
    BY <2>3, <2>4, ParsedFacts
  <2>6. calculate_merkle_root(txs) = calculate_merkle_root(other)
    BY <2>1, <2>2, <2>3, <2>4, ValidParsed
  <2>7. IsSeq(other) /\ other # <<>> /\ \A k \in 1..Len(other) : other[k] # <<>>
    BY BatchAssumption
  <2>8. other = txs
    BY <2>5, <2>6, <2>7, RootDeterminesList
  <2> QED
    BY <2>2, <2>3, <2>8
<1> QED
  BY <1>1, FileInvariance, PTL
=============================================================================
