--------------------------- MODULE CommandsProofs ---------------------------
(* Proofs about Commands: whatever a command of a script does, it leaves   *)
(* an interpreter behind or throws one of the two exceptions.              *)
(*                                                                         *)
(* What the folds and the recursive functions of the modules below compute *)
(* is found by well-founded minima: the first two sections say that they   *)
(* have values and that these have the type of each step.                  *)
EXTENDS Commands, FiniteSetTheorems, SequenceTheorems, WellFoundedInduction, TLAPS

----------------------------------------------------------------------------
(* Numbers.                                                                *)

\* A set of natural numbers has a least one.
LEMMA LeastExists ==
  ASSUME NEW S, S \subseteq Nat, S # {}
  PROVE  \E x \in S : \A y \in S : x <= y
<1>1. PICK x \in S : \A y \in S : ~(<<y, x>> \in OpToRel(<, Nat))
  BY NatLessThanWellFounded, WFMin, Zenon
<1>2. ASSUME NEW y \in S PROVE x <= y
  <2>1. ~(y < x)
    BY <1>1 DEF OpToRel
  <2> QED
    BY <2>1
<1> QED
  BY <1>2

LEMMA MinFacts ==
  ASSUME NEW S, S \subseteq Nat, S # {}
  PROVE  Min(S) \in S /\ \A y \in S : Min(S) <= y
BY LeastExists DEF Min

LEMMA MaxFacts ==
  ASSUME NEW n \in Nat, NEW S, S \subseteq 0..n, S # {}
  PROVE  Max(S) \in S /\ \A y \in S : Max(S) >= y
<1> DEFINE Below == {n - i : i \in S}
<1>1. Below \subseteq Nat /\ Below # {}
  <2>1. ASSUME NEW j \in S PROVE n - j \in Nat /\ n - j \in Below
    OBVIOUS
  <2> QED
    BY <2>1
<1>2. PICK d \in Below : \A e \in Below : d <= e
  BY <1>1, LeastExists
<1>3. PICK i \in S : d = n - i
  OBVIOUS
<1>4. ASSUME NEW j \in S PROVE i >= j
  <2>1. n - j \in Below
    OBVIOUS
  <2>2. n - i <= n - j
    BY <1>2, <1>3, <2>1
  <2>3. i \in 0..n /\ j \in 0..n
    OBVIOUS
  <2> HIDE DEF Below
  <2> QED
    BY <2>2, <2>3
<1> QED
  BY <1>4 DEF Max

\* Counting up to n.
LEMMA CountUp ==
  ASSUME NEW n \in Nat, NEW Q, 0 \in Q, \A i \in 0..n : i \in Q /\ i < n => i + 1 \in Q
  PROVE  n \in Q
<1> DEFINE Left == {i \in 0..n : i \notin Q}
<1> SUFFICES ASSUME Left # {} PROVE FALSE
  OBVIOUS
<1>1. PICK i \in Left : \A j \in Left : i <= j
  <2>1. Left \subseteq Nat
    OBVIOUS
  <2> HIDE DEF Left
  <2> QED
    BY <2>1, LeastExists
<1>2. i # 0 /\ i - 1 \in 0..n /\ i - 1 < n
  OBVIOUS
<1>3. i - 1 \in Q
  BY <1>1, <1>2
<1>4. (i - 1) + 1 \in Q
  BY <1>2, <1>3
<1> QED
  BY <1>4

----------------------------------------------------------------------------
(* Recursive definitions and folds.                                        *)

\* Recursion along a well-founded relation R on S: the value at x is base[x], or
\* comes from that at next[x].
Recursion(S, R, T, B, base, next, G) ==
    /\ IsWellFoundedOn(R, S)
    /\ base \in [S -> T]
    /\ next \in [S -> S]
    /\ G \in [S \X T -> T]
    /\ \A x \in S : x \notin B => <<next[x], x>> \in R

\* A function on a part of the domain that satisfies the equation.
Solves(C, h, T, B, base, next, G) ==
    /\ h \in [C -> T]
    /\ \A x \in C : IF x \in B THEN h[x] = base[x]
                    ELSE next[x] \in C /\ h[x] = G[<<x, h[next[x]]>>]

\* Two of them agree.
LEMMA SolutionsAgree ==
  ASSUME NEW S, NEW R, IsWellFoundedOn(R, S), NEW T, NEW B, NEW base, NEW next, NEW G,
         \A x \in S : x \notin B => <<next[x], x>> \in R,
         NEW C \in SUBSET S, NEW h, Solves(C, h, T, B, base, next, G),
         NEW D \in SUBSET S, NEW k, Solves(D, k, T, B, base, next, G)
  PROVE  \A x \in C \cap D : h[x] = k[x]
<1> DEFINE Differ == {x \in C \cap D : h[x] # k[x]}
<1> SUFFICES ASSUME Differ # {} PROVE FALSE
  OBVIOUS
<1>1. PICK x \in Differ : \A y \in Differ : <<y, x>> \notin R
  BY WFMin, Differ \subseteq S
<1>2. x \notin B
  BY DEF Solves
<1>3. next[x] \in C \cap D /\ h[next[x]] = k[next[x]]
  BY <1>1, <1>2 DEF Solves
<1> QED
  BY <1>2, <1>3 DEF Solves

\* There is one on the whole domain.
LEMMA RecursionExists ==
  ASSUME NEW S, NEW R, NEW T, NEW B, NEW base, NEW next, NEW G,
         Recursion(S, R, T, B, base, next, G)
  PROVE  \E f : Solves(S, f, T, B, base, next, G)
<1> USE DEF Recursion
<1> DEFINE Sol(C, h) == Solves(C, h, T, B, base, next, G)
           Good(x) == \E C \in SUBSET S : \E h : Sol(C, h) /\ x \in C
<1>1. \A x \in S : Good(x)
  <2> DEFINE Bad == {x \in S : ~Good(x)}
  <2> SUFFICES ASSUME Bad # {} PROVE FALSE
    OBVIOUS
  <2>1. PICK x \in Bad : \A y \in Bad : <<y, x>> \notin R
    <3>1. Bad \subseteq S
      OBVIOUS
    <3> HIDE DEF Bad
    <3> QED
      BY <3>1, WFMin
  <2>2. CASE x \in B
    <3> DEFINE h == [y \in {x} |-> base[x]]
    <3>1. Solves({x}, h, T, B, base, next, G)
      BY <2>2 DEF Solves
    <3>2. {x} \in SUBSET S /\ x \in {x}
      OBVIOUS
    <3> QED
      BY <3>1, <3>2
  <2>3. CASE x \notin B
    <3>1. Good(next[x])
      BY <2>1, <2>3
    <3>2. PICK C, h : C \in SUBSET S /\ Sol(C, h) /\ next[x] \in C
      BY <3>1
    <3> DEFINE k == [y \in C \cup {x} |-> IF y \in C THEN h[y] ELSE G[<<x, h[next[x]]>>]]
    <3>3. h \in [C -> T] /\ h[next[x]] \in T
      BY <3>2 DEF Solves
    <3>4. k \in [C \cup {x} -> T]
      BY <3>3
    <3>5. \A y \in C : k[y] = h[y]
      OBVIOUS
    <3>6. x \notin C
      BY <3>2
    <3>7. k[x] = G[<<x, k[next[x]]>>]
      BY <3>2, <3>5, <3>6
    <3> HIDE DEF k
    <3>8. ASSUME NEW y \in C \cup {x}
          PROVE  IF y \in B THEN k[y] = base[y]
                 ELSE next[y] \in C \cup {x} /\ k[y] = G[<<y, k[next[y]]>>]
      <4>1. CASE y \in C
        BY <3>2, <3>5, <4>1 DEF Solves
      <4>2. CASE y = x
        BY <2>3, <3>2, <3>7, <4>2
      <4> QED
        BY <4>1, <4>2
    <3>9. Sol(C \cup {x}, k)
      BY <3>4, <3>8 DEF Solves
    <3>10. C \cup {x} \in SUBSET S /\ x \in C \cup {x} /\ ~Good(x)
      BY <3>2
    <3> HIDE DEF Sol
    <3> QED
      BY <3>9, <3>10
  <2> QED
    BY <2>2, <2>3
<1> DEFINE f == [x \in S |-> CHOOSE v : \E C \in SUBSET S : \E h : Sol(C, h) /\ x \in C /\ v = h[x]]
<1>2. ASSUME NEW C \in SUBSET S, NEW h, Sol(C, h), NEW x \in C PROVE f[x] = h[x]
  <2>1. \E v : \E D \in SUBSET S : \E k : Sol(D, k) /\ x \in D /\ v = k[x]
    BY <1>2
  <2>2. PICK D, k : D \in SUBSET S /\ Sol(D, k) /\ x \in D /\ f[x] = k[x]
    BY <2>1
  <2> HIDE DEF f
  <2>3. h[x] = k[x]
    <3>1. Solves(C, h, T, B, base, next, G) /\ Solves(D, k, T, B, base, next, G)
      BY <1>2, <2>2
    <3>2. \A y \in C \cap D : h[y] = k[y]
      BY <2>2, <3>1, SolutionsAgree
    <3> QED
      BY <2>2, <3>2
  <2> QED
    BY <2>2, <2>3
<1>3. ASSUME NEW x \in S
      PROVE  /\ f[x] \in T
             /\ f[x] = IF x \in B THEN base[x] ELSE G[<<x, f[next[x]]>>]
  <2>1. PICK C, h : C \in SUBSET S /\ Sol(C, h) /\ x \in C
    BY <1>1
  <2>2. f[x] = h[x] /\ (x \notin B => f[next[x]] = h[next[x]])
    <3>1. x \notin B => next[x] \in C
      BY <2>1 DEF Solves
    <3> HIDE DEF f
    <3> QED
      BY <1>2, <2>1, <3>1
  <2> HIDE DEF f
  <2> QED
    BY <2>1, <2>2 DEF Solves
<1> QED
  <2>1. f \in [S -> T]
    <3>1. DOMAIN f = S /\ f = [x \in S |-> f[x]]
      OBVIOUS
    <3> HIDE DEF f
    <3> QED
      BY <1>3, <3>1
  <2> HIDE DEF f
  <2>2. Solves(S, f, T, B, base, next, G)
    BY <1>3, <2>1 DEF Solves
  <2> QED
    BY <2>2

LEMMA PrefixFacts ==
  ASSUME NEW n \in Nat, NEW i \in 1..n
  PROVE  /\ 1..i \in SUBSET (1..n) /\ 1..i # {}
         /\ Max(1..i) = i
         /\ (1..i) \ {i} = 1..(i - 1)
<1>1. 1..i \subseteq 0..n /\ i \in 1..i
  OBVIOUS
<1>2. Max(1..i) \in 1..i /\ Max(1..i) >= i
  BY <1>1, MaxFacts
<1> QED
  BY <1>1, <1>2

\* The function iter of MapThenFoldSet (module Folds), for n steps G from base.
Folds(f, n, T, base, G) ==
    /\ f \in [SUBSET (1..n) -> T]
    /\ \A s \in SUBSET (1..n) :
          IF s = {} THEN f[s] = base
          ELSE /\ Max(s) \in 1..n
               /\ s \ {Max(s)} \in SUBSET (1..n)
               /\ f[s] = G[<<f[s \ {Max(s)}], Max(s)>>]

\* It exists.
LEMMA FoldExists ==
  ASSUME NEW n \in Nat, NEW T, NEW base \in T, NEW G \in [T \X (1..n) -> T]
  PROVE  \E f : Folds(f, n, T, base, G)
<1> DEFINE S     == SUBSET (1..n)
           bases == [s \in S |-> base]
           next  == [s \in S |-> s \ {Max(s)}]
           H     == [p \in S \X T |-> IF p[1] = {} THEN base ELSE G[<<p[2], Max(p[1])>>]]
<1>1. \A s \in S : s # {} => Max(s) \in s
  <2>1. \A s \in S : s \subseteq 0..n
    OBVIOUS
  <2> QED
    BY <2>1, MaxFacts
<1>2. bases \in [S -> T] /\ next \in [S -> S]
  OBVIOUS
<1>3. H \in [S \X T -> T]
  <2>1. \A s \in S : s # {} => Max(s) \in 1..n
    BY <1>1
  <2>2. \A p \in S \X T : p[1] # {} => <<p[2], Max(p[1])>> \in T \X (1..n)
    BY <2>1
  <2>3. \A p \in S \X T : (IF p[1] = {} THEN base ELSE G[<<p[2], Max(p[1])>>]) \in T
    BY <2>2
  <2> QED
    BY <2>3
<1>4. \A s \in S : s \notin {{}} => <<next[s], s>> \in StrictSubsetOrdering(1..n)
  BY <1>1 DEF StrictSubsetOrdering
<1>5. \A s \in S : next[s] = s \ {Max(s)} /\ bases[s] = base
  OBVIOUS
<1>6. \A s \in S : \A t \in T : s # {} => H[<<s, t>>] = G[<<t, Max(s)>>]
  OBVIOUS
<1>7. IsWellFoundedOn(StrictSubsetOrdering(1..n), S)
  <2>1. IsFiniteSet(1..n)
    BY FS_Interval
  <2>2. FiniteSubsetsOf(1..n) = S
    BY <2>1, FS_FiniteSubsetsOfFinite
  <2>3. IsWellFoundedOn(StrictSubsetOrdering(1..n), FiniteSubsetsOf(1..n))
    BY FS_StrictSubsetOrderingWellFounded
  <2> QED
    BY <2>2, <2>3
<1> DEFINE R == StrictSubsetOrdering(1..n)
           B == {{}}
<1> HIDE DEF S, bases, next, H, R, B
<1>8. PICK f \in [S -> T] :
         \A s \in S : f[s] = IF s \in {{}} THEN bases[s] ELSE H[<<s, f[next[s]]>>]
  <2>1. Recursion(S, R, T, B, bases, next, H)
    BY <1>2, <1>3, <1>4, <1>7 DEF R, B, Recursion
  <2>2. PICK f : Solves(S, f, T, B, bases, next, H)
    BY <2>1, RecursionExists
  <2> QED
    BY <2>2 DEF Solves, B
<1>9. ASSUME NEW s \in S
      PROVE  f[s] = IF s = {} THEN base ELSE G[<<f[s \ {Max(s)}], Max(s)>>]
  <2>1. next[s] \in S /\ f[next[s]] \in T
    BY <1>2, <1>8
  <2>2. f[s] = IF s = {} THEN base ELSE H[<<s, f[next[s]]>>]
    BY <1>5, <1>8
  <2>3. s # {} => H[<<s, f[next[s]]>>] = G[<<f[next[s]], Max(s)>>]
    BY <1>6, <2>1
  <2> QED
    BY <1>5, <2>2, <2>3
<1> QED
  BY <1>1, <1>8, <1>9 DEF S, Folds

\* What it is for the prefixes of the sequence.
Accumulates(iter, n, T, base, G) ==
    /\ base \in T
    /\ G \in [T \X (1..n) -> T]
    /\ iter[{}] = base
    /\ \A i \in 1..n : iter[1..(i - 1)] \in T => iter[1..i] = G[<<iter[1..(i - 1)], i>>]

LEMMA FoldPrefixes ==
  ASSUME NEW n \in Nat, NEW T, NEW base, NEW G, NEW iter, Accumulates(iter, n, T, base, G)
  PROVE  \E acc \in [0..n -> T] :
            /\ acc[0] = base
            /\ \A i \in 1..n : acc[i] = G[<<acc[i - 1], i>>]
            /\ acc[n] = iter[1..n]
<1> USE DEF Accumulates
<1> DEFINE Q == {i \in 0..n : iter[1..i] \in T}
           acc == [i \in 0..n |-> iter[1..i]]
<1>1. 1..0 = {}
  OBVIOUS
<1>2. 0 \in Q
  BY <1>1
<1>3. ASSUME NEW i \in 0..n, i \in Q, i < n PROVE i + 1 \in Q
  <2>1. i + 1 \in 1..n /\ (i + 1) - 1 = i
    BY <1>3
  <2>2. iter[1..i] \in T /\ <<iter[1..i], i + 1>> \in T \X (1..n)
    BY <1>3, <2>1
  <2>3. iter[1..(i + 1)] = G[<<iter[1..i], i + 1>>]
    BY <2>1, <2>2
  <2>4. iter[1..(i + 1)] \in T
    BY <2>2, <2>3
  <2> QED
    BY <2>1, <2>4
<1>4. ASSUME NEW m \in 0..n PROVE m \in Q
  <2>1. m \in Nat /\ \A i \in 0..m : i \in 0..n /\ (i < m => i < n)
    OBVIOUS
  <2> HIDE DEF Q
  <2>2. \A i \in 0..m : i \in Q /\ i < m => i + 1 \in Q
    BY <1>3, <2>1
  <2> QED
    BY <1>2, <2>1, <2>2, CountUp
<1>5. \A i \in 0..n : iter[1..i] \in T /\ acc[i] = iter[1..i]
  BY <1>4
<1>6. acc \in [0..n -> T] /\ acc[0] = base /\ acc[n] = iter[1..n]
  BY <1>1, <1>5
<1>7. ASSUME NEW i \in 1..n PROVE acc[i] = G[<<acc[i - 1], i>>]
  <2>1. i - 1 \in 0..n /\ i \in 0..n
    OBVIOUS
  <2> QED
    BY <1>5, <2>1
<1> QED
  BY <1>6, <1>7

\* Going on to a later position, until behind the end.
Descends(h, n, T, base, next, G) ==
    /\ h \in [1..(n + 1) -> T]
    /\ h[n + 1] = base
    /\ \A i \in 1..n : next[i] \in 1..(n + 1) /\ h[i] = G[<<i, h[next[i]]>>]

LEMMA LaterIsWellFounded ==
  ASSUME NEW n \in Nat
  PROVE  IsWellFoundedOn({p \in (1..n) \X (1..n) : p[1] > p[2]}, 1..n)
<1> DEFINE R == {p \in (1..n) \X (1..n) : p[1] > p[2]}
<1>1. ASSUME NEW U \in SUBSET (1..n), U # {}
      PROVE  \E x \in U : \A y \in U : <<y, x>> \notin R
  <2>1. U \subseteq 0..n
    OBVIOUS
  <2>2. Max(U) \in U /\ \A y \in U : Max(U) >= y
    BY <1>1, <2>1, MaxFacts
  <2>3. ASSUME NEW y \in U PROVE <<y, Max(U)>> \notin R
    <3>1. \A m \in U : m >= y => ~(y > m)
      BY <2>1
    <3>2. ~(y > Max(U))
      BY <2>2, <3>1, Zenon
    <3> QED
      BY <3>2
  <2> QED
    BY <2>2, <2>3
<1> HIDE DEF R
<1>2. IsWellFoundedOn(R, 1..n)
  BY <1>1, MinWF
<1> QED
  BY <1>2 DEF R

LEMMA DescentExists ==
  ASSUME NEW n \in Nat, NEW T, NEW base \in T, NEW next, NEW G,
         \A i \in 1..n : next[i] \in 1..(n + 1) /\ next[i] > i,
         G \in [(1..n) \X T -> T]
  PROVE  \E h : Descends(h, n, T, base, next, G)
<1> DEFINE S     == 1..(n + 1)
           R     == {p \in S \X S : p[1] > p[2]}
           B     == {n + 1}
           bases == [i \in S |-> base]
           Go    == [i \in S |-> IF i \in 1..n THEN next[i] ELSE i]
           H     == [p \in S \X T |-> IF p[1] \in 1..n THEN G[<<p[1], p[2]>>] ELSE base]
<1>1. IsWellFoundedOn(R, S)
  BY LaterIsWellFounded, n + 1 \in Nat
<1>2. bases \in [S -> T] /\ Go \in [S -> S]
  OBVIOUS
<1>3. H \in [S \X T -> T]
  <2>1. \A p \in S \X T : p[1] \in 1..n => <<p[1], p[2]>> \in (1..n) \X T
    OBVIOUS
  <2>2. \A p \in S \X T : (IF p[1] \in 1..n THEN G[<<p[1], p[2]>>] ELSE base) \in T
    BY <2>1
  <2> QED
    BY <2>2
<1>4. \A i \in S : i \notin B => i \in 1..n /\ <<Go[i], i>> \in R
  OBVIOUS
<1>5. \A i \in S : bases[i] = base /\ (i \in 1..n => Go[i] = next[i])
  OBVIOUS
<1>6. \A i \in 1..n : \A t \in T : H[<<i, t>>] = G[<<i, t>>]
  OBVIOUS
<1>7. 1..n \subseteq S /\ n + 1 \in S /\ n + 1 \in B /\ \A i \in 1..n : i \notin B
  OBVIOUS
<1> HIDE DEF S, R, B, bases, Go, H
<1>8. Recursion(S, R, T, B, bases, Go, H)
  BY <1>1, <1>2, <1>3, <1>4 DEF Recursion
<1>9. PICK h : Solves(S, h, T, B, bases, Go, H)
  BY <1>8, RecursionExists
<1>10. h \in [S -> T] /\ h[n + 1] = base
  BY <1>5, <1>7, <1>9 DEF Solves
<1>11. ASSUME NEW i \in 1..n PROVE next[i] \in S /\ h[i] = G[<<i, h[next[i]]>>]
  <2>1. Go[i] = next[i] /\ next[i] \in S /\ h[i] = H[<<i, h[Go[i]]>>]
    BY <1>5, <1>7, <1>9 DEF Solves
  <2>2. h[next[i]] \in T
    BY <1>10, <2>1
  <2> QED
    BY <1>6, <2>1, <2>2
<1> QED
  BY <1>10, <1>11 DEF Descends, S

\* A function that satisfies the equation is this one.
LEMMA DescentAgrees ==
  ASSUME NEW n \in Nat, NEW f, NEW h, NEW next,
         \A i \in 1..n : next[i] \in 1..(n + 1) /\ next[i] > i,
         f[n + 1] = h[n + 1],
         \A i \in 1..n : f[next[i]] = h[next[i]] => f[i] = h[i]
  PROVE  \A i \in 1..(n + 1) : f[i] = h[i]
<1> DEFINE Differ == {i \in 1..(n + 1) : f[i] # h[i]}
<1> SUFFICES ASSUME Differ # {} PROVE FALSE
  OBVIOUS
<1>1. Max(Differ) \in Differ /\ \A i \in Differ : Max(Differ) >= i
  <2>1. Differ \subseteq 0..(n + 1) /\ n + 1 \in Nat
    OBVIOUS
  <2> HIDE DEF Differ
  <2> QED
    BY <2>1, MaxFacts
<1>2. PICK i \in Differ : \A k \in Differ : i >= k
  BY <1>1
<1>3. i \in 1..n /\ next[i] \in 1..(n + 1) /\ next[i] > i
  OBVIOUS
<1>4. next[i] \notin Differ
  <2>1. ~(i >= next[i])
    BY <1>3
  <2> QED
    BY <1>2, <2>1
<1> QED
  BY <1>3, <1>4

----------------------------------------------------------------------------
(* Words.                                                                  *)

LEMMA WordFacts ==
  /\ Words = Seq(Nat)
  /\ Empty \in Words
  /\ \A v, w \in Words : v \o w \in Words
  /\ \A v \in Words : \A i \in DOMAIN v : v[i] \in Nat /\ <<v[i]>> \in Words
  /\ \A c \in Nat : <<c>> \in Words
BY WordsAreCodes

\* Part of a list that lies within it, or is empty.
LEMMA SubSeqType ==
  ASSUME NEW S, NEW s \in Seq(S), NEW m \in Nat \ {0}, NEW n \in Int, n <= Len(s)
  PROVE  SubSeq(s, m, n) \in Seq(S)
<1>1. \A i \in m..n : s[i] \in S
  OBVIOUS
<1> QED
  BY <1>1, SubSeqProperties

\* join: the words so far, and one more.
JoinStep(words, delim, all, k) ==
    (IF k = 1 THEN all ELSE all \o delim) \o words[k]

JoinFold(words, delim, keys, iter) ==
    iter = [s \in SUBSET (DOMAIN keys) |->
              IF s = {} THEN Empty
              ELSE JoinStep(words, delim, iter[s \ {Max(s)}], keys[Max(s)])]

LEMMA JoinUnfolds ==
  ASSUME NEW words \in Seq(Words), NEW delim \in Words
  PROVE  /\ join(words, delim) \in Words
         /\ \E acc \in [0..Len(words) -> Words] :
               /\ acc[0] = Empty
               /\ \A i \in 1..Len(words) : acc[i] = JoinStep(words, delim, acc[i - 1], i)
               /\ acc[Len(words)] = join(words, delim)
<1> DEFINE n == Len(words)
           T == Words
           base == Empty
           keys == [k \in DOMAIN words |-> k]
           Step(all, k) == JoinStep(words, delim, all, k)
           G == [p \in T \X (1..n) |-> Step(p[1], p[2])]
           iter == CHOOSE f : JoinFold(words, delim, keys, f)
<1>1. join(words, delim) = iter[DOMAIN keys]
  BY DEF join, FoldLeft, MapThenFoldSet, JoinFold, JoinStep
<1>2. n \in Nat /\ DOMAIN keys = 1..n /\ \A k \in 1..n : keys[k] = k
  OBVIOUS
<1>3. \A all \in T : \A k \in 1..n : Step(all, k) \in T
  BY WordFacts DEF JoinStep
<1>4. base \in T
  BY WordFacts
<1>5. G \in [T \X (1..n) -> T]
  BY <1>3
<1>6. \A all \in T : \A k \in 1..n : G[<<all, k>>] = Step(all, k)
  OBVIOUS
<1> HIDE DEF n, T, keys, G
<1>7. JoinFold(words, delim, keys, iter)
  <2>1. PICK f : Folds(f, n, T, base, G)
    BY <1>2, <1>4, <1>5, FoldExists
  <2>2. ASSUME NEW s \in SUBSET (1..n)
        PROVE  f[s] = IF s = {} THEN Empty
                      ELSE JoinStep(words, delim, f[s \ {Max(s)}], keys[Max(s)])
    <3>1. CASE s = {}
      BY <2>1, <3>1 DEF Folds
    <3>2. CASE s # {}
      <4>1. /\ Max(s) \in 1..n /\ f[s \ {Max(s)}] \in T
            /\ f[s] = G[<<f[s \ {Max(s)}], Max(s)>>]
        BY <2>1, <3>2 DEF Folds
      <4>2. f[s] = Step(f[s \ {Max(s)}], Max(s))
        BY <1>6, <4>1
      <4> QED
        BY <1>2, <3>2, <4>1, <4>2
    <3> QED
      BY <3>1, <3>2
  <2>3. f = [s \in SUBSET (1..n) |-> f[s]]
    BY <2>1 DEF Folds
  <2> HIDE DEF Step
  <2>4. f = [s \in SUBSET (DOMAIN keys) |->
               IF s = {} THEN Empty
               ELSE JoinStep(words, delim, f[s \ {Max(s)}], keys[Max(s)])]
    BY <1>2, <2>2, <2>3
  <2> QED
    BY <2>4 DEF JoinFold
<1> HIDE DEF iter
<1>8. iter = [s \in SUBSET (1..n) |->
                IF s = {} THEN Empty
                ELSE JoinStep(words, delim, iter[s \ {Max(s)}], keys[Max(s)])]
  BY <1>2, <1>7 DEF JoinFold
<1>9. ASSUME NEW i \in 1..n, iter[1..(i - 1)] \in T
      PROVE  iter[1..i] = G[<<iter[1..(i - 1)], i>>]
  <2>1. /\ 1..i \in SUBSET (1..n) /\ 1..i # {}
        /\ Max(1..i) = i /\ (1..i) \ {i} = 1..(i - 1)
    BY <1>2, PrefixFacts
  <2>2. iter[1..i] = JoinStep(words, delim, iter[(1..i) \ {Max(1..i)}], keys[Max(1..i)])
    BY <1>8, <2>1
  <2>3. iter[1..i] = Step(iter[1..(i - 1)], i)
    BY <1>2, <2>1, <2>2
  <2> QED
    BY <1>6, <1>9, <2>3
<1>10. iter[{}] = base
  BY <1>8
<1>11. PICK acc \in [0..n -> T] :
          /\ acc[0] = base
          /\ \A i \in 1..n : acc[i] = G[<<acc[i - 1], i>>]
          /\ acc[n] = iter[1..n]
  <2>1. Accumulates(iter, n, T, base, G)
    BY <1>4, <1>5, <1>9, <1>10 DEF Accumulates
  <2> HIDE DEF base, Step
  <2> QED
    BY <1>2, <2>1, FoldPrefixes
<1>12. ASSUME NEW i \in 1..n PROVE acc[i] = JoinStep(words, delim, acc[i - 1], i)
  <2>1. i - 1 \in 0..n
    BY <1>2
  <2>2. acc[i] = Step(acc[i - 1], i)
    BY <1>6, <1>11, <2>1
  <2> QED
    BY <2>2
<1>13. iter[1..n] \in T
  BY <1>2, <1>11
<1> QED
  BY <1>1, <1>2, <1>11, <1>12, <1>13 DEF n, T

LEMMA JoinType ==
  ASSUME NEW words \in Seq(Words), NEW delim \in Words
  PROVE  join(words, delim) \in Words
BY JoinUnfolds

LEMMA AppendType ==
  ASSUME NEW S, NEW s \in Seq(S), NEW e \in S
  PROVE  Append(s, e) \in Seq(S) /\ Append(s, e) # <<>> /\ Len(Append(s, e)) = Len(s) + 1
<1>1. Append(s, e) \in Seq(S) /\ Len(Append(s, e)) = Len(s) + 1
  OBVIOUS
<1>2. Len(s) \in Nat
  OBVIOUS
<1>3. Len(Append(s, e)) # 0
  BY <1>1, <1>2
<1>4. Len(<<>>) = 0
  OBVIOUS
<1> QED
  BY <1>1, <1>3, <1>4

LEMMA FrontLast ==
  ASSUME NEW S, NEW s \in Seq(S), s # <<>>
  PROVE  /\ Front(s) \in Seq(S)
         /\ Len(Front(s)) = Len(s) - 1
         /\ Last(s) \in S
<1>1. Len(s) \in Nat /\ Len(s) >= 1
  OBVIOUS
<1>2. \A i \in 1..(Len(s) - 1) : s[i] \in S
  BY <1>1
<1>3. /\ SubSeq(s, 1, Len(s) - 1) \in Seq(S)
      /\ Len(SubSeq(s, 1, Len(s) - 1))
           = IF 1 <= Len(s) - 1 THEN (Len(s) - 1) - 1 + 1 ELSE 0
  BY <1>1, <1>2, SubSeqProperties
<1>4. \A l \in Nat : l >= 1 => l - 1 = IF 1 <= l - 1 THEN (l - 1) - 1 + 1 ELSE 0
  OBVIOUS
<1>5. s[Len(s)] \in S
  BY <1>1
<1>6. Front(s) = SubSeq(s, 1, Len(s) - 1) /\ Last(s) = s[Len(s)]
  BY Zenon DEF Front, Last
<1> QED
  BY <1>1, <1>3, <1>4, <1>5, <1>6, Zenon

\* split: a character goes to the last word, a separator begins a new one.
SplitStep(word, chars, compress, all, k) ==
    IF word[k] \notin chars THEN Append(Front(all), Append(Last(all), word[k]))
    ELSE IF compress /\ k > 1 /\ word[k - 1] \in chars THEN all
    ELSE Append(all, Empty)

SplitFold(word, chars, compress, keys, iter) ==
    iter = [s \in SUBSET (DOMAIN keys) |->
              IF s = {} THEN <<Empty>>
              ELSE SplitStep(word, chars, compress, iter[s \ {Max(s)}], keys[Max(s)])]

LEMMA SplitUnfolds ==
  ASSUME NEW word \in Words, NEW chars, NEW compress \in BOOLEAN
  PROVE  /\ split(word, chars, compress) \in Seq(Words) \ {<<>>}
         /\ \E acc \in [0..Len(word) -> Seq(Words) \ {<<>>}] :
               /\ acc[0] = <<Empty>>
               /\ \A i \in 1..Len(word) : acc[i] = SplitStep(word, chars, compress, acc[i - 1], i)
               /\ acc[Len(word)] = split(word, chars, compress)
<1> DEFINE n == Len(word)
           T == Seq(Words) \ {<<>>}
           base == <<Empty>>
           keys == [k \in DOMAIN word |-> k]
           Step(all, k) == SplitStep(word, chars, compress, all, k)
           G == [p \in T \X (1..n) |-> Step(p[1], p[2])]
           iter == CHOOSE f : SplitFold(word, chars, compress, keys, f)
<1>1. split(word, chars, compress) = iter[DOMAIN keys]
  BY DEF split, FoldLeft, MapThenFoldSet, SplitFold, SplitStep
<1>2. n \in Nat /\ DOMAIN keys = 1..n /\ \A k \in 1..n : keys[k] = k
  BY WordFacts
<1>3. \A all \in T : \A k \in 1..n : Step(all, k) \in T
  <2> SUFFICES ASSUME NEW all \in T, NEW k \in 1..n
               PROVE  Step(all, k) \in T
    OBVIOUS
  <2>1. word[k] \in Nat
    BY WordFacts
  <2>2. /\ Front(all) \in Seq(Words)
        /\ Last(all) \in Words
    BY FrontLast
  <2>3. Append(Last(all), word[k]) \in Words
    BY <2>1, <2>2, WordFacts
  <2>4. Append(Front(all), Append(Last(all), word[k])) \in T
    BY <2>2, <2>3, AppendType
  <2>5. Append(all, Empty) \in T
    BY WordFacts, AppendType
  <2> QED
    BY <2>4, <2>5 DEF SplitStep
<1>4. base \in T
  BY WordFacts
<1>5. G \in [T \X (1..n) -> T]
  BY <1>3
<1>6. \A all \in T : \A k \in 1..n : G[<<all, k>>] = Step(all, k)
  OBVIOUS
<1> HIDE DEF n, T, keys, G
<1>7. SplitFold(word, chars, compress, keys, iter)
  <2>1. PICK f : Folds(f, n, T, base, G)
    BY <1>2, <1>4, <1>5, FoldExists
  <2>2. ASSUME NEW s \in SUBSET (1..n)
        PROVE  f[s] = IF s = {} THEN <<Empty>>
                      ELSE SplitStep(word, chars, compress, f[s \ {Max(s)}], keys[Max(s)])
    <3>1. CASE s = {}
      BY <2>1, <3>1 DEF Folds
    <3>2. CASE s # {}
      <4>1. /\ Max(s) \in 1..n /\ f[s \ {Max(s)}] \in T
            /\ f[s] = G[<<f[s \ {Max(s)}], Max(s)>>]
        BY <2>1, <3>2 DEF Folds
      <4>2. f[s] = Step(f[s \ {Max(s)}], Max(s))
        BY <1>6, <4>1
      <4> QED
        BY <1>2, <3>2, <4>1, <4>2
    <3> QED
      BY <3>1, <3>2
  <2>3. f = [s \in SUBSET (1..n) |-> f[s]]
    BY <2>1 DEF Folds
  <2> HIDE DEF Step
  <2>4. f = [s \in SUBSET (DOMAIN keys) |->
               IF s = {} THEN <<Empty>>
               ELSE SplitStep(word, chars, compress, f[s \ {Max(s)}], keys[Max(s)])]
    BY <1>2, <2>2, <2>3
  <2> QED
    BY <2>4 DEF SplitFold
<1> HIDE DEF iter
<1>8. iter = [s \in SUBSET (1..n) |->
                IF s = {} THEN <<Empty>>
                ELSE SplitStep(word, chars, compress, iter[s \ {Max(s)}], keys[Max(s)])]
  BY <1>2, <1>7 DEF SplitFold
<1>9. ASSUME NEW i \in 1..n, iter[1..(i - 1)] \in T
      PROVE  iter[1..i] = G[<<iter[1..(i - 1)], i>>]
  <2>1. /\ 1..i \in SUBSET (1..n) /\ 1..i # {}
        /\ Max(1..i) = i /\ (1..i) \ {i} = 1..(i - 1)
    BY <1>2, PrefixFacts
  <2>2. iter[1..i] = SplitStep(word, chars, compress, iter[(1..i) \ {Max(1..i)}], keys[Max(1..i)])
    BY <1>8, <2>1
  <2>3. iter[1..i] = Step(iter[1..(i - 1)], i)
    BY <1>2, <2>1, <2>2
  <2> QED
    BY <1>6, <1>9, <2>3
<1>10. iter[{}] = base
  BY <1>8
<1>11. PICK acc \in [0..n -> T] :
          /\ acc[0] = base
          /\ \A i \in 1..n : acc[i] = G[<<acc[i - 1], i>>]
          /\ acc[n] = iter[1..n]
  <2>1. Accumulates(iter, n, T, base, G)
    BY <1>4, <1>5, <1>9, <1>10 DEF Accumulates
  <2> HIDE DEF base, Step
  <2> QED
    BY <1>2, <2>1, FoldPrefixes
<1>12. ASSUME NEW i \in 1..n PROVE acc[i] = SplitStep(word, chars, compress, acc[i - 1], i)
  <2>1. i - 1 \in 0..n
    BY <1>2
  <2>2. acc[i] = Step(acc[i - 1], i)
    BY <1>6, <1>11, <2>1
  <2> QED
    BY <2>2
<1>13. iter[1..n] \in T
  BY <1>2, <1>11
<1> QED
  BY <1>1, <1>2, <1>11, <1>12, <1>13 DEF n, T

LEMMA SplitType ==
  ASSUME NEW word \in Words, NEW chars, NEW compress \in BOOLEAN
  PROVE  split(word, chars, compress) \in Seq(Words) \ {<<>>}
<1>1. Len(word) \in Nat
  BY WordFacts
<1> QED
  BY <1>1, SplitUnfolds

----------------------------------------------------------------------------
(* Replacements.                                                           *)

LEMMA MatchesFacts ==
  ASSUME NEW value \in Words, NEW i \in 1..Len(value), NEW pattern \in SUBSET Words,
         NEW from_start \in BOOLEAN, NEW to_end \in BOOLEAN, NEW greedy \in BOOLEAN,
         MatchesAt(value, i, pattern, from_start, to_end) # {}
  PROVE  Chosen(MatchesAt(value, i, pattern, from_start, to_end), greedy)
            \in 1..(Len(value) - i + 1)
<1> DEFINE M == MatchesAt(value, i, pattern, from_start, to_end)
           m == Len(value) - i + 1
<1>1. Len(value) \in Nat
  BY WordFacts
<1>2. m \in Nat
  BY <1>1
<1>3. M \subseteq 1..m /\ M \subseteq 0..m /\ M \subseteq Nat
  BY DEF MatchesAt
<1> HIDE DEF M, m
<1>4. Max(M) \in M /\ Min(M) \in M
  BY <1>2, <1>3, MinFacts, MaxFacts DEF M
<1>5. Chosen(M, greedy) \in M
  BY <1>4 DEF Chosen
<1> QED
  BY <1>3, <1>5 DEF M, m

\* replace_all: a match is replaced and the search goes on behind it.
ReplaceNext(value, pattern, greedy, from_start, to_end, replacement, i) ==
    IF MatchesAt(value, i, pattern, from_start, to_end) = {} THEN i + 1
    ELSE i + Chosen(MatchesAt(value, i, pattern, from_start, to_end), greedy)

ReplacePiece(value, pattern, greedy, from_start, to_end, replacement, i, t) ==
    (IF MatchesAt(value, i, pattern, from_start, to_end) = {} THEN <<value[i]>> ELSE replacement)
    \o t

ReplaceRest(value, pattern, greedy, from_start, to_end, replacement, f) ==
    f = [i \in 1..(Len(value) + 1) |->
           IF i > Len(value) THEN Empty
           ELSE IF MatchesAt(value, i, pattern, from_start, to_end) = {}
                THEN <<value[i]>> \o f[i + 1]
           ELSE replacement
                  \o f[i + Chosen(MatchesAt(value, i, pattern, from_start, to_end), greedy)]]

ReplaceComputes(value, pattern, greedy, from_start, to_end, replacement, f) ==
    /\ f \in [1..(Len(value) + 1) -> Words]
    /\ f[Len(value) + 1] = Empty
    /\ \A i \in 1..Len(value) :
          /\ ReplaceNext(value, pattern, greedy, from_start, to_end, replacement, i) \in 1..(Len(value) + 1)
          /\ ReplaceNext(value, pattern, greedy, from_start, to_end, replacement, i) > i
          /\ f[i] = ReplacePiece(value, pattern, greedy, from_start, to_end, replacement, i, f[ReplaceNext(value, pattern, greedy, from_start, to_end, replacement, i)])
    /\ replace_all(value, pattern, greedy, from_start, to_end, replacement) = f[1]
    /\ f[1] \in Words

LEMMA ReplaceUnfolds ==
  ASSUME NEW value \in Words, NEW pattern \in SUBSET Words, NEW greedy \in BOOLEAN,
         NEW from_start \in BOOLEAN, NEW to_end \in BOOLEAN,
         NEW replacement \in Words
  PROVE  \E f : ReplaceComputes(value, pattern, greedy, from_start, to_end, replacement, f)
<1> DEFINE n == Len(value)
           T == Words
           base == Empty
           Next(i) == ReplaceNext(value, pattern, greedy, from_start, to_end, replacement, i)
           Piece(i, t) == ReplacePiece(value, pattern, greedy, from_start, to_end, replacement, i, t)
           next == [i \in 1..n |-> Next(i)]
           G == [p \in (1..n) \X T |-> Piece(p[1], p[2])]
           f == CHOOSE f : ReplaceRest(value, pattern, greedy, from_start, to_end, replacement, f)
<1>1. replace_all(value, pattern, greedy, from_start, to_end, replacement) = f[1]
  BY DEF replace_all, ReplaceRest
<1>2. n \in Nat
  BY WordFacts
<1>3. \A i \in 1..n : Next(i) \in 1..(n + 1) /\ Next(i) > i
  BY <1>2, MatchesFacts DEF ReplaceNext
<1>4. \A i \in 1..n : \A t \in T : Piece(i, t) \in T
  BY WordFacts DEF ReplacePiece
<1>5. base \in T
  BY WordFacts
<1>6. ASSUME NEW f0, ReplaceRest(value, pattern, greedy, from_start, to_end, replacement, f0)
      PROVE  f0[n + 1] = base /\ \A i \in 1..n : f0[i] = Piece(i, f0[Next(i)])
  <2>1. n + 1 \in 1..(n + 1) /\ n + 1 > n /\ \A i \in 1..n : i \in 1..(n + 1) /\ ~(i > n)
    BY <1>2
  <2>2. \A i \in 1..(n + 1) :
           f0[i] = IF i > n THEN base ELSE (IF MatchesAt(value, i, pattern, from_start, to_end) = {}
                THEN <<value[i]>> \o f0[i + 1]
           ELSE replacement
                  \o f0[i + Chosen(MatchesAt(value, i, pattern, from_start, to_end), greedy)])
    BY <1>6 DEF ReplaceRest
  <2>3. f0[n + 1] = base
    BY <2>1, <2>2
  <2>4. ASSUME NEW i \in 1..n PROVE f0[i] = Piece(i, f0[Next(i)])
    <3>1. f0[i] = IF MatchesAt(value, i, pattern, from_start, to_end) = {}
                THEN <<value[i]>> \o f0[i + 1]
           ELSE replacement
                  \o f0[i + Chosen(MatchesAt(value, i, pattern, from_start, to_end), greedy)]
      BY <2>1, <2>2
    <3>2. CASE MatchesAt(value, i, pattern, from_start, to_end) = {}
      BY <3>1, <3>2 DEF ReplaceNext, ReplacePiece
    <3>3. CASE ~(MatchesAt(value, i, pattern, from_start, to_end) = {})
      BY <3>1, <3>3 DEF ReplaceNext, ReplacePiece
    <3> QED
      BY <3>2, <3>3
  <2> QED
    BY <2>3, <2>4
<1>7. ASSUME NEW f0, DOMAIN f0 = 1..(n + 1), f0 = [i \in DOMAIN f0 |-> f0[i]],
             f0[n + 1] = base, \A i \in 1..n : f0[i] = Piece(i, f0[Next(i)])
      PROVE  ReplaceRest(value, pattern, greedy, from_start, to_end, replacement, f0)
  <2>1. \A i \in 1..(n + 1) : IF i > n THEN i = n + 1 ELSE i \in 1..n
    BY <1>2
  <2>2. ASSUME NEW i \in 1..(n + 1)
        PROVE  f0[i] = IF i > n THEN base ELSE (IF MatchesAt(value, i, pattern, from_start, to_end) = {}
                THEN <<value[i]>> \o f0[i + 1]
           ELSE replacement
                  \o f0[i + Chosen(MatchesAt(value, i, pattern, from_start, to_end), greedy)])
    <3>1. CASE i > n
      BY <1>7, <2>1, <3>1
    <3>2. CASE ~(i > n)
      <4>1. f0[i] = Piece(i, f0[Next(i)])
        BY <1>7, <2>1, <3>2
      <4>2. CASE MatchesAt(value, i, pattern, from_start, to_end) = {}
        BY <3>2, <4>1, <4>2 DEF ReplaceNext, ReplacePiece
      <4>3. CASE ~(MatchesAt(value, i, pattern, from_start, to_end) = {})
        BY <3>2, <4>1, <4>3 DEF ReplaceNext, ReplacePiece
      <4> QED
        BY <4>2, <4>3
    <3> QED
      BY <3>1, <3>2
  <2>3. f0 = [i \in 1..(n + 1) |-> f0[i]]
    BY <1>7
  <2> QED
    BY <2>2, <2>3 DEF ReplaceRest
<1>8. G \in [(1..n) \X T -> T] /\ \A i \in 1..n : \A t \in T : G[<<i, t>>] = Piece(i, t)
  BY <1>4
<1>9. \A i \in 1..n : next[i] = Next(i)
  OBVIOUS
<1> HIDE DEF n, T, base, Next, Piece, next, G
<1>10. PICK h : Descends(h, n, T, base, next, G)
  BY <1>2, <1>3, <1>5, <1>8, <1>9, DescentExists
<1>11. h \in [1..(n + 1) -> T]
  BY <1>10 DEF Descends
<1>12. \A i \in 1..n : h[i] = Piece(i, h[Next(i)])
  BY <1>3, <1>8, <1>9, <1>10, <1>11 DEF Descends
<1>13. ReplaceRest(value, pattern, greedy, from_start, to_end, replacement, h)
  BY <1>7, <1>10, <1>11, <1>12 DEF Descends
<1>14. ReplaceRest(value, pattern, greedy, from_start, to_end, replacement, f)
  BY <1>13
<1> HIDE DEF f
<1>15. f[n + 1] = base /\ \A i \in 1..n : f[i] = Piece(i, f[Next(i)])
  BY <1>6, <1>14
<1>16. DOMAIN f = 1..(n + 1) /\ f = [i \in DOMAIN f |-> f[i]]
  BY <1>14 DEF ReplaceRest, n
<1>17. \A i \in 1..(n + 1) : f[i] = h[i]
  <2>1. f[n + 1] = h[n + 1]
    BY <1>10, <1>15 DEF Descends
  <2>2. \A i \in 1..n : f[next[i]] = h[next[i]] => f[i] = h[i]
    BY <1>9, <1>12, <1>15
  <2>3. \A i \in 1..n : next[i] \in 1..(n + 1) /\ next[i] > i
    BY <1>3, <1>9
  <2> QED
    BY <1>2, <2>1, <2>2, <2>3, DescentAgrees
<1>18. f \in [1..(n + 1) -> T]
  BY <1>11, <1>16, <1>17
<1>19. f[1] \in T
  BY <1>2, <1>18
<1> QED
  BY <1>1, <1>3, <1>15, <1>18, <1>19 DEF n, T, base, Next, Piece, ReplaceComputes

LEMMA ReplaceAllType ==
  ASSUME NEW value \in Words, NEW pattern \in SUBSET Words, NEW greedy \in BOOLEAN,
         NEW from_start \in BOOLEAN, NEW to_end \in BOOLEAN,
         NEW replacement \in Words
  PROVE  replace_all(value, pattern, greedy, from_start, to_end, replacement) \in Words
<1>1. PICK f : ReplaceComputes(value, pattern, greedy, from_start, to_end, replacement, f)
  BY ReplaceUnfolds
<1> QED
  BY <1>1 DEF ReplaceComputes

LEMMA WordSubSeq ==
  ASSUME NEW word \in Words, NEW m \in Nat \ {0}, NEW n \in Int, n <= Len(word)
  PROVE  SubSeq(word, m, n) \in Words
BY WordFacts, SubSeqType

LEMMA ReplaceFirstType ==
  ASSUME NEW value \in Words, NEW pattern \in SUBSET Words, NEW replacement \in Words
  PROVE  replace_first(value, pattern, replacement) \in Words
<1> DEFINE At(i) == MatchesAt(value, i, pattern, FALSE, FALSE)
           starts == {i \in DOMAIN value : At(i) # {}}
           first == Min(starts)
           next == first + Chosen(At(first), TRUE)
<1> SUFFICES ASSUME starts # {}
             PROVE  SubSeq(value, 1, first - 1) \o replacement
                      \o SubSeq(value, next, Len(value)) \in Words
  BY DEF replace_first
<1>1. Len(value) \in Nat /\ DOMAIN value = 1..Len(value)
  BY WordFacts
<1>2. first \in starts
  <2> HIDE DEF At
  <2>1. starts \subseteq DOMAIN value /\ DOMAIN value \subseteq Nat
    BY <1>1
  <2> HIDE DEF starts
  <2> QED
    BY <2>1, MinFacts
<1>3. first \in 1..Len(value) /\ At(first) # {}
  BY <1>1, <1>2
<1>4. Chosen(At(first), TRUE) \in 1..(Len(value) - first + 1)
  BY <1>3, MatchesFacts
<1> DEFINE length == Chosen(At(first), TRUE)
<1>5. next = first + length /\ length \in 1..(Len(value) - first + 1)
  BY <1>4
<1> HIDE DEF first, length, next
<1>8. next \in Nat \ {0} /\ first - 1 \in Int /\ first - 1 <= Len(value)
  BY <1>1, <1>3, <1>5
<1>6. SubSeq(value, 1, first - 1) \in Words
  BY <1>8, WordSubSeq
<1>7. SubSeq(value, next, Len(value)) \in Words
  BY <1>1, <1>8, WordSubSeq
<1> QED
  BY <1>6, <1>7, WordFacts

LEMMA LazyRemoveAtEndType ==
  ASSUME NEW value \in Words, NEW pattern \in SUBSET Words
  PROVE  lazy_remove_at_end(value, pattern) \in Words
<1> DEFINE kept == {k \in 0..Len(value) : SubSeq(value, k + 1, Len(value)) \in pattern}
<1> SUFFICES ASSUME kept # {} PROVE SubSeq(value, 1, Max(kept)) \in Words
  BY DEF lazy_remove_at_end
<1>1. Len(value) \in Nat
  BY WordFacts
<1>2. kept \subseteq 0..Len(value)
  OBVIOUS
<1> HIDE DEF kept
<1>3. Max(kept) \in 0..Len(value)
  BY <1>1, <1>2, MaxFacts
<1> HIDE DEF kept
<1>4. Max(kept) \in Int /\ Max(kept) <= Len(value)
  BY <1>1, <1>3
<1> QED
  BY <1>4, WordSubSeq

Operators == {"REPLACE_ALL", "REPLACE_FIRST", "REPLACE_AT_START", "REPLACE_AT_END",
              "LAZY_REMOVE_AT_START", "LAZY_REMOVE_AT_END"}

LEMMA ReplacerType ==
  ASSUME NEW operator \in Operators, NEW value \in Words, NEW pattern \in SUBSET Words,
         NEW word \in Words
  PROVE  replacer(operator, value, pattern, word) \in Words
BY ReplaceAllType, ReplaceFirstType, LazyRemoveAtEndType, Zenon DEF replacer, Operators


----------------------------------------------------------------------------
(* Variables.                                                              *)

LEMMA MinOfTwo ==
  ASSUME NEW i \in Nat, NEW j \in Nat
  PROVE  Min({i, j}) \in Nat /\ Min({i, j}) <= i /\ Min({i, j}) <= j
<1>1. Min({i, j}) \in {i, j} /\ \A y \in {i, j} : Min({i, j}) <= y
  BY MinFacts
<1> QED
  BY <1>1

LEMMA FirstOfType ==
  ASSUME NEW word \in Words
  PROVE  FirstOf(word) \in Words
<1> DEFINE n == Min({1, Len(word)})
<1>1. Len(word) \in Nat
  BY WordFacts
<1>2. n \in Int /\ n <= Len(word)
  BY <1>1, MinOfTwo
<1> HIDE DEF n
<1>3. SubSeq(word, 1, n) \in Words
  BY <1>2, WordSubSeq
<1> QED
  BY <1>3 DEF FirstOf, n

\* A finite set of numbers has a k-th element.
LEMMA AscendingType ==
  ASSUME NEW n \in Nat, NEW S \in SUBSET (0..n)
  PROVE  /\ Cardinality(S) \in Nat
         /\ Ascending(S) \in [1..Cardinality(S) -> S]
         /\ \A k \in 1..Cardinality(S) : Cardinality({j \in S : j <= Ascending(S)[k]}) = k
<1>0. \A j \in S : j \in Nat /\ j \in Int /\ j \in 0..n
  OBVIOUS
<1>1. IsFiniteSet(0..n)
  BY FS_Interval
<1>2. IsFiniteSet(S) /\ Cardinality(S) \in Nat
  BY <1>1, FS_Subset, FS_CardinalityType
<1> DEFINE Upto(i) == {j \in S : j <= i}
           size == Cardinality(S)
<1>3. \A i \in S : /\ Upto(i) \in SUBSET S /\ IsFiniteSet(Upto(i))
                   /\ Cardinality(Upto(i)) \in Nat
  <2>1. \A i \in S : Upto(i) \in SUBSET S
    OBVIOUS
  <2> HIDE DEF Upto
  <2> QED
    BY <1>2, <2>1, FS_Subset, FS_CardinalityType
<1>4. ASSUME NEW k \in 1..size
      PROVE  \E i \in S : Cardinality(Upto(i)) = k
  <2> DEFINE Q == {i \in S : Cardinality(Upto(i)) >= k}
  <2>1. S # {}
    BY <1>2, FS_EmptySet
  <2>2. Max(S) \in S /\ \A j \in S : Max(S) >= j
    BY <2>1, MaxFacts
  <2>3. Upto(Max(S)) = S
    <3> DEFINE m == Max(S)
    <3>1. m \in S /\ \A j \in S : m >= j
      BY <2>2
    <3> HIDE DEF m
    <3>2. \A j \in S : j <= m
      BY <1>0, <3>1
    <3>3. Upto(m) = S
      BY <3>2
    <3> QED
      BY <3>3 DEF m
  <2>4. Q \subseteq Nat /\ Q # {}
    <3>1. Max(S) \in Q
      <4>1. size >= k
        BY <1>2
      <4> QED
        BY <2>2, <2>3, <4>1
    <3>2. Q \subseteq Nat
      BY <1>0
    <3> QED
      BY <3>1, <3>2
  <2> HIDE DEF Q
  <2>5. PICK i \in Q : \A j \in Q : i <= j
    BY <2>4, LeastExists
  <2>6. i \in S /\ i \in Nat /\ Cardinality(Upto(i)) >= k
    BY DEF Q
  <2>7. ASSUME Cardinality(Upto(i)) # k PROVE FALSE
    <3> DEFINE L == Upto(i) \ {i}
    <3>1. i \in Upto(i)
      BY <2>6
    <3>2. IsFiniteSet(L) /\ Cardinality(L) = Cardinality(Upto(i)) - 1
      <4> HIDE DEF Upto
      <4> QED
        BY <1>3, <2>6, <3>1, FS_RemoveElement
    <3>3. Cardinality(L) >= k /\ Cardinality(L) \in Nat
      BY <1>3, <2>6, <2>7, <3>2
    <3>4. L # {}
      BY <3>2, <3>3, FS_EmptySet
    <3>5. L \subseteq S /\ L \subseteq 0..n /\ \A j \in L : j < i
      <4>1. \A j \in L : j \in S /\ j <= i /\ j # i
        OBVIOUS
      <4> HIDE DEF L, Upto
      <4>2. L \subseteq S /\ L \subseteq 0..n
        BY <1>0, <4>1
      <4>3. ASSUME NEW j \in L PROVE j < i
        <5>1. j \in Nat /\ j <= i /\ j # i
          BY <1>0, <4>1
        <5> QED
          BY <2>6, <5>1
      <4> QED
        BY <4>2, <4>3
    <3> HIDE DEF L
    <3> DEFINE p == Max(L)
    <3>6. p \in L /\ \A j \in L : p >= j
      BY <3>4, <3>5, MaxFacts
    <3> HIDE DEF p
    <3>7. p \in S /\ p < i /\ p \in Nat
      BY <3>5, <3>6
    <3>8. Upto(p) = L
      <4>1. \A j \in L : j \in S /\ j \in Nat /\ p >= j
        BY <3>5, <3>6
      <4>2. \A j \in L : j \in Upto(p)
        BY <3>7, <4>1
      <4>3. \A j \in Upto(p) : j \in L
        BY <2>6, <3>7 DEF L
      <4> QED
        BY <4>2, <4>3
    <3>9. p \in Q
      BY <3>3, <3>7, <3>8 DEF Q
    <3> QED
      BY <2>5, <2>6, <3>7, <3>9
  <2> QED
    BY <2>6, <2>7
<1> HIDE DEF size
<1>5. \A k \in 1..size : LET e == CHOOSE i \in S : Cardinality(Upto(i)) = k
                         IN e \in S /\ Cardinality(Upto(e)) = k
  BY <1>4
<1>6. Ascending(S) = [k \in 1..size |-> CHOOSE i \in S : Cardinality(Upto(i)) = k]
  BY DEF Ascending, size
<1>8. \A k \in 1..size : Cardinality(Upto(Ascending(S)[k])) = k
  <2> HIDE DEF Upto
  <2> QED
    BY <1>5, <1>6
<1> HIDE DEF Upto
<1>7. Ascending(S) \in [1..size -> S]
  <2> DEFINE A == Ascending(S)
  <2>1. DOMAIN A = 1..size /\ A = [k \in DOMAIN A |-> A[k]]
    BY <1>6
  <2>2. \A k \in 1..size : A[k] \in S
    BY <1>5, <1>6
  <2> HIDE DEF A
  <2>3. A \in [1..size -> S]
    BY <2>1, <2>2
  <2> QED
    BY <2>3 DEF A
<1> QED
  BY <1>2, <1>7, <1>8 DEF size, Upto

LEMMA ElementsFacts ==
  ASSUME NEW var \in Variable
  PROVE  /\ Elements(var) \in SUBSET (0..MaxIndex)
         /\ \A i \in Elements(var) : var.value[i] \in Words
BY DEF Elements, Variable, ValueMap, Indexes

LEMMA GetValueType ==
  ASSUME NEW var \in Variable, NEW index
  PROVE  get_value(var, index) \in Words
BY ElementsFacts, WordFacts DEF get_value

LEMMA GetAllValuesType ==
  ASSUME NEW var \in Variable
  PROVE  get_array_length(var) \in Nat /\ get_all_values(var) \in Seq(Words)
<1> DEFINE S == Elements(var)
<1>1. S \in SUBSET (0..MaxIndex) /\ MaxIndex \in Nat
  BY ElementsFacts, IndexAssumption
<1> HIDE DEF S
<1>2. Cardinality(S) \in Nat /\ Ascending(S) \in [1..Cardinality(S) -> S]
  BY <1>1, AscendingType
<1>3. \A i \in S : var.value[i] \in Words
  BY ElementsFacts DEF S
<1> DEFINE n == Cardinality(S)
           A == Ascending(S)
<1>4. n \in Nat /\ A \in [1..n -> S]
  BY <1>2
<1>5. get_array_length(var) = n /\ get_all_values(var) = [k \in 1..n |-> var.value[A[k]]]
  BY DEF get_array_length, get_all_values, S
<1> HIDE DEF n, A
<1>6. \A k \in 1..n : var.value[A[k]] \in Words
  BY <1>3, <1>4
<1>7. [k \in 1..n |-> var.value[A[k]]] \in [1..n -> Words]
  BY <1>6
<1> QED
  BY <1>4, <1>5, <1>7

\* What a variable, or none, is for an expansion.
LEMMA ArrayValuesType ==
  ASSUME NEW var \in Variable \cup {None}
  PROVE  ArrayValues(var) \in Seq(Words)
BY GetAllValuesType DEF ArrayValues

LEMMA ResolveType ==
  ASSUME NEW var \in Variable \cup {None}, NEW index, NEW u_ \in BOOLEAN
  PROVE  resolve(var, index, u_) \in Words \cup {InterpreterException}
BY GetValueType, WordFacts DEF resolve


----------------------------------------------------------------------------
(* Parts of words and of lists.                                            *)

LEMMA PartType ==
  ASSUME NEW S, NEW list \in Seq(S), NEW offset \in Int, NEW length \in Int \cup {Whole},
         ~Negative(length)
  PROVE  part(list, offset, length) \in Seq(S)
<1> DEFINE start == real_offset(offset, Len(list))
           last == IF length = Whole THEN Len(list) ELSE Min({start + length, Len(list)})
<1> SUFFICES ASSUME in_range(offset, Len(list))
             PROVE  SubSeq(list, start + 1, last) \in Seq(S)
  <2>1. <<>> \in Seq(S)
    OBVIOUS
  <2> QED
    BY <2>1 DEF part
<1>1. Len(list) \in Nat
  OBVIOUS
<1>2. start \in Nat /\ start + 1 \in Nat \ {0}
  BY <1>1 DEF in_range
<1>3. length # Whole => length \in Nat
  BY DEF Negative
<1> HIDE DEF start
<1>4. last \in Int /\ last <= Len(list)
  <2>1. CASE length = Whole
    BY <1>1, <2>1
  <2>2. CASE length # Whole
    <3>1. start + length \in Nat
      BY <1>2, <1>3, <2>2
    <3>2. /\ Min({start + length, Len(list)}) \in Nat
          /\ Min({start + length, Len(list)}) <= Len(list)
      BY <1>1, <3>1, MinOfTwo
    <3> QED
      BY <2>2, <3>2
  <2> QED
    BY <2>1, <2>2
<1> HIDE DEF last
<1> DEFINE m == start + 1
<1>5. m \in Nat \ {0}
  BY <1>2
<1> HIDE DEF m
<1>6. SubSeq(list, m, last) \in Seq(S)
  BY <1>4, <1>5, SubSeqType
<1> QED
  BY <1>6 DEF m

\* What a word or an exception is.
Read == Words \cup {InterpreterException}

LEMMA SubstringType ==
  ASSUME NEW var \in Variable \cup {None}, NEW offset \in Int, NEW length \in Int \cup {Whole},
         NEW index, NEW u_ \in BOOLEAN
  PROVE  do_substring_expansion(var, offset, length, index, u_) \in Read
<1>1. resolve(var, index, u_) \in Read
  BY ResolveType DEF Read
<1>2. \A value \in Words : ~Negative(length) => part(value, offset, length) \in Words
  BY PartType, WordFacts
<1> QED
  BY <1>1, <1>2 DEF do_substring_expansion, IfRead, Read

LEMMA ConcatType ==
  ASSUME NEW S, NEW s \in Seq(S), NEW e \in S
  PROVE  <<e>> \o s \in Seq(S)
OBVIOUS

LEMMA SubarrayType ==
  ASSUME NEW var \in Variable \cup {None}, NEW zero \in Read, NEW delim \in Read,
         NEW starred \in BOOLEAN, NEW offset \in Int, NEW length \in Int \cup {Whole},
         NEW u_ \in BOOLEAN
  PROVE  do_subarray_expansion(var, zero, delim, starred, offset, length, u_) \in Read
<1> DEFINE list == Sliced(var, zero, starred, offset)
           start == SliceOffset(starred, offset)
<1>1. start \in Int
  BY DEF SliceOffset
<1>2. ~(starred /\ offset = 0 /\ zero = InterpreterException) => list \in Seq(Words)
  <2>1. ArrayValues(var) \in Seq(Words)
    BY ArrayValuesType
  <2>2. zero # InterpreterException => <<zero>> \o ArrayValues(var) \in Seq(Words)
    BY <2>1, ConcatType DEF Read
  <2> QED
    BY <2>1, <2>2 DEF Sliced
<1> HIDE DEF list, start
<1>3. ASSUME list \in Seq(Words), ~Negative(length), NEW d \in Words
      PROVE  join(part(list, start, length), d) \in Words
  <2>1. part(list, start, length) \in Seq(Words)
    BY <1>1, <1>3, PartType
  <2> QED
    BY <2>1, JoinType
<1>4. do_subarray_expansion(var, zero, delim, starred, offset, length, u_)
        = IF Negative(length) \/ Throws(var, u_) THEN InterpreterException
          ELSE IF starred /\ offset = 0 /\ zero = InterpreterException THEN zero
          ELSE IF var = None \/ ~in_range(start, Len(list)) THEN Empty
          ELSE IF delim = InterpreterException THEN delim
               ELSE join(part(list, start, length), delim)
  BY DEF do_subarray_expansion, IfRead, list, start
<1> QED
  BY <1>2, <1>3, <1>4, WordFacts DEF Read

LEMMA ElementsJoinedType ==
  ASSUME NEW var \in Variable \cup {None}, NEW delim \in Read, NEW u_ \in BOOLEAN
  PROVE  get_all_elements_joined(var, delim, u_) \in Read
<1>1. \A d \in Words : join(ArrayValues(var), d) \in Words
  BY ArrayValuesType, JoinType
<1> QED
  BY <1>1 DEF get_all_elements_joined, IfRead, Read

LEMMA ReplaceExpansionType ==
  ASSUME NEW var \in Variable \cup {None}, NEW operator \in Operators,
         NEW pattern \in SUBSET Words, NEW word \in Words, NEW index, NEW u_ \in BOOLEAN
  PROVE  do_replace_expansion(var, operator, pattern, word, index, u_) \in Read
<1>1. resolve(var, index, u_) \in Read
  BY ResolveType DEF Read
<1>2. \A value \in Words : replacer(operator, value, pattern, word) \in Words
  BY ReplacerType
<1> QED
  BY <1>1, <1>2 DEF do_replace_expansion, IfRead, Read

LEMMA ArrayReplaceType ==
  ASSUME NEW var \in Variable \cup {None}, NEW delim \in Read, NEW operator \in Operators,
         NEW pattern \in SUBSET Words, NEW word \in Words, NEW u_ \in BOOLEAN
  PROVE  do_array_replace_expansion(var, delim, operator, pattern, word, u_) \in Read
<1> DEFINE values == ArrayValues(var)
           replaced == [k \in DOMAIN values |-> replacer(operator, values[k], pattern, word)]
<1>1. values \in Seq(Words)
  BY ArrayValuesType
<1> HIDE DEF values
<1>2. \A value \in Words : replacer(operator, value, pattern, word) \in Words
  BY ReplacerType
<1>3. \A k \in DOMAIN values : replacer(operator, values[k], pattern, word) \in Words
  BY <1>1, <1>2
<1>4. Len(values) \in Nat /\ DOMAIN values = 1..Len(values)
  BY <1>1
<1>5. replaced \in [1..Len(values) -> Words]
  BY <1>3, <1>4
<1>6. replaced \in Seq(Words)
  BY <1>4, <1>5
<1> HIDE DEF replaced
<1>7. \A d \in Words : join(replaced, d) \in Words
  BY <1>6, JoinType
<1> QED
  BY <1>7 DEF do_array_replace_expansion, IfRead, Read, replaced, values

LEMMA TrimType ==
  ASSUME NEW word \in Words, NEW chars
  PROVE  trim_if(word, chars) \in Words
<1> DEFINE kept == {i \in DOMAIN word : word[i] \notin chars}
<1> SUFFICES ASSUME kept # {} PROVE SubSeq(word, Min(kept), Max(kept)) \in Words
  BY WordFacts DEF trim_if
<1>1. Len(word) \in Nat /\ DOMAIN word = 1..Len(word)
  BY WordFacts
<1>2. kept \subseteq DOMAIN word
  OBVIOUS
<1> HIDE DEF kept
<1>3. kept \subseteq Nat /\ kept \subseteq 0..Len(word)
  BY <1>1, <1>2
<1> DEFINE m == Min(kept)
           n == Max(kept)
<1>4. m \in kept /\ n \in kept
  BY <1>1, <1>3, MinFacts, MaxFacts
<1> HIDE DEF m, n
<1>5. m \in Nat \ {0} /\ n \in Int /\ n <= Len(word)
  BY <1>1, <1>2, <1>4
<1>6. SubSeq(word, m, n) \in Words
  BY <1>5, WordSubSeq
<1> QED
  BY <1>6 DEF m, n

LEMMA SplitWordType ==
  ASSUME NEW word \in Words, NEW delimeter \in Words
  PROVE  split_word(word, delimeter) \in Seq(Words)
<1>1. trim_if(word, ToSet(delimeter)) \in Words
  BY TrimType
<1>2. \A v \in Words : split(v, ToSet(delimeter), TRUE) \in Seq(Words)
  BY SplitType
<1>3. <<>> \in Seq(Words)
  OBVIOUS
<1> QED
  BY <1>1, <1>2, <1>3 DEF split_word


----------------------------------------------------------------------------
(* Escapes.                                                                *)

LEMMA DigitType ==
  ASSUME NEW c \in Nat
  PROVE  Digit(c) \in Nat
BY DEF Digit

LEMMA MultiplyType ==
  ASSUME NEW i \in Nat, NEW j \in Nat, NEW k \in Nat
  PROVE  i * j + k \in Nat
OBVIOUS

\* The sum in Number.
SumOf(digits, radix) == FoldLeft(LAMBDA sum, c : radix * sum + Digit(c), 0, digits)

\* Number: one digit more.
NumberStep(radix, all, k) ==
    radix * all + Digit(k)

NumberFold(radix, keys, iter) ==
    iter = [s \in SUBSET (DOMAIN keys) |->
              IF s = {} THEN 0
              ELSE NumberStep(radix, iter[s \ {Max(s)}], keys[Max(s)])]

LEMMA NumberUnfolds ==
  ASSUME NEW digits \in Words, NEW radix \in Nat
  PROVE  /\ SumOf(digits, radix) \in Nat
         /\ \E acc \in [0..Len(digits) -> Nat] :
               /\ acc[0] = 0
               /\ \A i \in 1..Len(digits) : acc[i] = NumberStep(radix, acc[i - 1], digits[i])
               /\ acc[Len(digits)] = SumOf(digits, radix)
<1> DEFINE n == Len(digits)
           T == Nat
           base == 0
           keys == digits
           Step(all, k) == NumberStep(radix, all, digits[k])
           G == [p \in T \X (1..n) |-> Step(p[1], p[2])]
           iter == CHOOSE f : NumberFold(radix, keys, f)
<1>1. SumOf(digits, radix) = iter[DOMAIN keys]
  BY DEF SumOf, FoldLeft, MapThenFoldSet, NumberFold, NumberStep
<1>2. n \in Nat /\ DOMAIN keys = 1..n /\ \A k \in 1..n : keys[k] = digits[k]
  BY WordFacts
<1>3. \A all \in T : \A k \in 1..n : Step(all, k) \in T
  <2> SUFFICES ASSUME NEW all \in T, NEW k \in 1..n
               PROVE  Step(all, k) \in T
    OBVIOUS
  <2>1. Digit(digits[k]) \in Nat
    BY WordFacts, DigitType
  <2> QED
    BY <2>1, MultiplyType DEF NumberStep
<1>4. base \in T
  OBVIOUS
<1>5. G \in [T \X (1..n) -> T]
  BY <1>3
<1>6. \A all \in T : \A k \in 1..n : G[<<all, k>>] = Step(all, k)
  OBVIOUS
<1> HIDE DEF n, T, keys, G
<1>7. NumberFold(radix, keys, iter)
  <2>1. PICK f : Folds(f, n, T, base, G)
    BY <1>2, <1>4, <1>5, FoldExists
  <2>2. ASSUME NEW s \in SUBSET (1..n)
        PROVE  f[s] = IF s = {} THEN 0
                      ELSE NumberStep(radix, f[s \ {Max(s)}], keys[Max(s)])
    <3>1. CASE s = {}
      BY <2>1, <3>1 DEF Folds
    <3>2. CASE s # {}
      <4>1. /\ Max(s) \in 1..n /\ f[s \ {Max(s)}] \in T
            /\ f[s] = G[<<f[s \ {Max(s)}], Max(s)>>]
        BY <2>1, <3>2 DEF Folds
      <4>2. f[s] = Step(f[s \ {Max(s)}], Max(s))
        BY <1>6, <4>1
      <4> QED
        BY <1>2, <3>2, <4>1, <4>2
    <3> QED
      BY <3>1, <3>2
  <2>3. f = [s \in SUBSET (1..n) |-> f[s]]
    BY <2>1 DEF Folds
  <2> HIDE DEF Step
  <2>4. f = [s \in SUBSET (DOMAIN keys) |->
               IF s = {} THEN 0
               ELSE NumberStep(radix, f[s \ {Max(s)}], keys[Max(s)])]
    BY <1>2, <2>2, <2>3
  <2> QED
    BY <2>4 DEF NumberFold
<1> HIDE DEF iter
<1>8. iter = [s \in SUBSET (1..n) |->
                IF s = {} THEN 0
                ELSE NumberStep(radix, iter[s \ {Max(s)}], keys[Max(s)])]
  BY <1>2, <1>7 DEF NumberFold
<1>9. ASSUME NEW i \in 1..n, iter[1..(i - 1)] \in T
      PROVE  iter[1..i] = G[<<iter[1..(i - 1)], i>>]
  <2>1. /\ 1..i \in SUBSET (1..n) /\ 1..i # {}
        /\ Max(1..i) = i /\ (1..i) \ {i} = 1..(i - 1)
    BY <1>2, PrefixFacts
  <2>2. iter[1..i] = NumberStep(radix, iter[(1..i) \ {Max(1..i)}], keys[Max(1..i)])
    BY <1>8, <2>1
  <2>3. iter[1..i] = Step(iter[1..(i - 1)], i)
    BY <1>2, <2>1, <2>2
  <2> QED
    BY <1>6, <1>9, <2>3
<1>10. iter[{}] = base
  BY <1>8
<1>11. PICK acc \in [0..n -> T] :
          /\ acc[0] = base
          /\ \A i \in 1..n : acc[i] = G[<<acc[i - 1], i>>]
          /\ acc[n] = iter[1..n]
  <2>1. Accumulates(iter, n, T, base, G)
    BY <1>4, <1>5, <1>9, <1>10 DEF Accumulates
  <2> HIDE DEF base, Step
  <2> QED
    BY <1>2, <2>1, FoldPrefixes
<1>12. ASSUME NEW i \in 1..n PROVE acc[i] = NumberStep(radix, acc[i - 1], digits[i])
  <2>1. i - 1 \in 0..n
    BY <1>2
  <2>2. acc[i] = Step(acc[i - 1], i)
    BY <1>6, <1>11, <2>1
  <2> QED
    BY <2>2
<1>13. iter[1..n] \in T
  BY <1>2, <1>11
<1> QED
  BY <1>1, <1>2, <1>11, <1>12, <1>13 DEF n, T

LEMMA SumOfType ==
  ASSUME NEW digits \in Words, NEW radix \in Nat
  PROVE  SumOf(digits, radix) \in Nat
<1>1. Len(digits) \in Nat
  BY WordFacts
<1> QED
  BY <1>1, NumberUnfolds

LEMMA NumberType ==
  ASSUME NEW string \in Words, NEW i \in Nat \ {0}, NEW n \in Nat, i + n - 1 <= Len(string),
         NEW radix \in Nat
  PROVE  Number(string, i, n, radix) \in Nat
<1> DEFINE digits == SubSeq(string, i, i + n - 1)
           sum == SumOf(digits, radix)
<1>1. digits \in Words
  BY WordSubSeq
<1> HIDE DEF digits
<1>3. sum \in Nat
  BY <1>1, SumOfType
<1>4. Number(string, i, n, radix) = sum % 256
  BY DEF Number, SumOf, digits
<1> HIDE DEF sum
<1> QED
  BY <1>3, <1>4

LEMMA DigitsType ==
  ASSUME NEW string \in Words, NEW i \in Nat, i - 1 <= Len(string), NEW radix \in Nat,
         NEW most \in Nat
  PROVE  /\ Digits(string, i, radix, most) \in Nat
         /\ i + Digits(string, i, radix, most) - 1 <= Len(string)
<1> DEFINE D == {n \in 0..most : /\ i + n - 1 <= Len(string)
                                 /\ \A k \in i..(i + n - 1) : Digit(string[k]) < radix}
<1>1. 0 \in D
  <2>1. i..(i + 0 - 1) = {} /\ i + 0 - 1 = i - 1
    OBVIOUS
  <2> QED
    BY <2>1
<1>2. D \subseteq 0..most
  OBVIOUS
<1>3. \A n \in D : n \in Nat /\ i + n - 1 <= Len(string)
  OBVIOUS
<1>4. Digits(string, i, radix, most) = Max(D)
  BY DEF Digits
<1> HIDE DEF D
<1>5. Max(D) \in D
  BY <1>1, <1>2, MaxFacts
<1> QED
  BY <1>3, <1>4, <1>5

LEMMA EscapeAtType ==
  ASSUME NEW string \in Words, NEW i \in 1..Len(string), NEW ansi_c \in BOOLEAN
  PROVE  /\ EscapeAt(string, i, ansi_c).text \in Words
         /\ i + EscapeAt(string, i, ansi_c).length \in 1..(Len(string) + 1)
         /\ i + EscapeAt(string, i, ansi_c).length > i
<1> DEFINE plain == [text |-> <<string[i]>>, length |-> 1]
           c == string[i + 1]
           count(radix, most) == Digits(string, i + 2, radix, most)
           numeric(radix, most) ==
             IF count(radix, most) = 0 THEN plain
             ELSE [text |-> <<Number(string, i + 2, count(radix, most), radix)>>,
                   length |-> count(radix, most) + 2]
           Fine(e) == /\ e.text \in Words
                      /\ i + e.length \in 1..(Len(string) + 1)
                      /\ i + e.length > i
<1>1. Len(string) \in Nat /\ i \in Nat /\ i \in DOMAIN string
  BY WordFacts
<1>2. Fine(plain)
  BY <1>1, WordFacts
<1>3. ASSUME i < Len(string), NEW radix \in Nat, NEW most \in Nat
      PROVE  Fine(numeric(radix, most))
  <2> DEFINE n == count(radix, most)
  <2>1. i + 2 \in Nat /\ (i + 2) - 1 <= Len(string) /\ i + 2 \in Nat \ {0}
    BY <1>1, <1>3
  <2>2. n \in Nat /\ (i + 2) + n - 1 <= Len(string)
    BY <2>1, DigitsType
  <2> HIDE DEF n
  <2>3. Number(string, i + 2, n, radix) \in Nat
    BY <2>1, <2>2, NumberType
  <2> DEFINE number == Number(string, i + 2, n, radix)
             e == [text |-> <<number>>, length |-> n + 2]
  <2>4. number \in Nat
    BY <2>3
  <2> HIDE DEF number
  <2>5. <<number>> \in Words
    BY <2>4, WordFacts
  <2>6. i + (n + 2) \in 1..(Len(string) + 1) /\ i + (n + 2) > i
    BY <1>1, <2>2
  <2>7. Fine(e)
    BY <2>5, <2>6
  <2>8. numeric(radix, most) = IF n = 0 THEN plain ELSE e
    BY DEF n, number
  <2> HIDE DEF Fine, e, numeric, plain
  <2> QED
    BY <1>2, <2>7, <2>8
<1>4. ASSUME i < Len(string), c \in DOMAIN Escape
      PROVE  Fine([text |-> <<Escape[c]>>, length |-> 2])
  <2>1. Escape[c] \in Nat
    BY <1>4, SMTT(30) DEF Escape, Backslash, Newline
  <2>2. <<Escape[c]>> \in Words
    BY <2>1, WordFacts
  <2> QED
    BY <1>1, <1>4, <2>2
<1>5. ASSUME i < Len(string)
      PROVE  Fine([text |-> IF ansi_c THEN <<c>> ELSE <<Backslash, c>>, length |-> 2])
  <2>1. c \in Nat
    BY <1>1, <1>5, WordFacts
  <2>2. <<c>> \in Words /\ <<Backslash, c>> \in Words
    BY <2>1, WordFacts DEF Backslash
  <2> QED
    BY <1>1, <1>5, <2>2
<1>6. EscapeAt(string, i, ansi_c)
        = IF string[i] # Backslash \/ i = Len(string) THEN plain
          ELSE IF c \in DOMAIN Escape THEN [text |-> <<Escape[c]>>, length |-> 2]
          ELSE IF c \in Quotes
               THEN [text |-> IF ansi_c THEN <<c>> ELSE <<Backslash, c>>, length |-> 2]
          ELSE IF c = 48 THEN numeric(8, 3)
          ELSE IF c = Letter_x THEN numeric(16, 2)
          ELSE plain
  BY DEF EscapeAt
<1>7. i # Len(string) => i < Len(string)
  BY <1>1
<1> HIDE DEF plain, c, numeric
<1>8. Fine(EscapeAt(string, i, ansi_c))
  <2> HIDE DEF Fine
  <2>1. 8 \in Nat /\ 3 \in Nat /\ 16 \in Nat /\ 2 \in Nat
    OBVIOUS
  <2>2. i < Len(string) => Fine(numeric(8, 3)) /\ Fine(numeric(16, 2))
    BY <1>3, <2>1
  <2> QED
    BY <1>2, <1>4, <1>5, <1>6, <1>7, <2>2, Zenon
<1> QED
  BY <1>8

\* What transform_escapes writes.
Escaped == [text : Words, suppressed : BOOLEAN]

\* transform_escapes: it goes on behind an escape, and \c ends it.
EscapesNext(string, ansi_c, i) ==
    IF Suppresses(string, i) THEN Len(string) + 1
    ELSE i + EscapeAt(string, i, ansi_c).length

EscapesPiece(string, ansi_c, i, t) ==
    IF Suppresses(string, i) THEN [text |-> Empty, suppressed |-> TRUE]
    ELSE [t EXCEPT !.text = EscapeAt(string, i, ansi_c).text \o @]

EscapesRest(string, ansi_c, f) ==
    f = [i \in 1..(Len(string) + 1) |->
           IF i > Len(string) THEN [text |-> Empty, suppressed |-> FALSE]
           ELSE IF Suppresses(string, i) THEN [text |-> Empty, suppressed |-> TRUE]
           ELSE [f[i + EscapeAt(string, i, ansi_c).length] EXCEPT
                   !.text = EscapeAt(string, i, ansi_c).text \o @]]

EscapesComputes(string, ansi_c, f) ==
    /\ f \in [1..(Len(string) + 1) -> Escaped]
    /\ f[Len(string) + 1] = [text |-> Empty, suppressed |-> FALSE]
    /\ \A i \in 1..Len(string) :
          /\ EscapesNext(string, ansi_c, i) \in 1..(Len(string) + 1)
          /\ EscapesNext(string, ansi_c, i) > i
          /\ f[i] = EscapesPiece(string, ansi_c, i, f[EscapesNext(string, ansi_c, i)])
    /\ transform_escapes(string, ansi_c) = f[1]
    /\ f[1] \in Escaped

LEMMA EscapesUnfolds ==
  ASSUME NEW string \in Words, NEW ansi_c \in BOOLEAN
  PROVE  \E f : EscapesComputes(string, ansi_c, f)
<1> DEFINE n == Len(string)
           T == Escaped
           base == [text |-> Empty, suppressed |-> FALSE]
           Next(i) == EscapesNext(string, ansi_c, i)
           Piece(i, t) == EscapesPiece(string, ansi_c, i, t)
           next == [i \in 1..n |-> Next(i)]
           G == [p \in (1..n) \X T |-> Piece(p[1], p[2])]
           f == CHOOSE f : EscapesRest(string, ansi_c, f)
<1>1. transform_escapes(string, ansi_c) = f[1]
  BY DEF transform_escapes, EscapesRest
<1>2. n \in Nat
  BY WordFacts
<1>3. \A i \in 1..n : Next(i) \in 1..(n + 1) /\ Next(i) > i
  BY <1>2, EscapeAtType DEF EscapesNext
<1>4. \A i \in 1..n : \A t \in T : Piece(i, t) \in T
  <2> SUFFICES ASSUME NEW i \in 1..n, NEW t \in T
               PROVE  Piece(i, t) \in T
    OBVIOUS
  <2>1. t.text \in Words /\ EscapeAt(string, i, ansi_c).text \in Words
    BY EscapeAtType DEF Escaped
  <2>2. EscapeAt(string, i, ansi_c).text \o t.text \in Words
    BY <2>1, WordFacts
  <2> QED
    BY <2>2, WordFacts DEF EscapesPiece, Escaped
<1>5. base \in T
  BY WordFacts DEF Escaped
<1>6. ASSUME NEW f0, EscapesRest(string, ansi_c, f0)
      PROVE  f0[n + 1] = base /\ \A i \in 1..n : f0[i] = Piece(i, f0[Next(i)])
  <2>1. n + 1 \in 1..(n + 1) /\ n + 1 > n /\ \A i \in 1..n : i \in 1..(n + 1) /\ ~(i > n)
    BY <1>2, SMTT(30)
  <2>2. \A i \in 1..(n + 1) :
           f0[i] = IF i > n THEN base ELSE (IF Suppresses(string, i) THEN [text |-> Empty, suppressed |-> TRUE]
           ELSE [f0[i + EscapeAt(string, i, ansi_c).length] EXCEPT
                   !.text = EscapeAt(string, i, ansi_c).text \o @])
    BY <1>6 DEF EscapesRest
  <2>3. f0[n + 1] = base
    BY <2>1, <2>2
  <2>4. ASSUME NEW i \in 1..n PROVE f0[i] = Piece(i, f0[Next(i)])
    <3>1. f0[i] = IF Suppresses(string, i) THEN [text |-> Empty, suppressed |-> TRUE]
           ELSE [f0[i + EscapeAt(string, i, ansi_c).length] EXCEPT
                   !.text = EscapeAt(string, i, ansi_c).text \o @]
      BY <2>1, <2>2
    <3>2. CASE Suppresses(string, i)
      BY <3>1, <3>2 DEF EscapesNext, EscapesPiece
    <3>3. CASE ~(Suppresses(string, i))
      BY <3>1, <3>3 DEF EscapesNext, EscapesPiece
    <3> QED
      BY <3>2, <3>3
  <2> QED
    BY <2>3, <2>4
<1>7. ASSUME NEW f0, DOMAIN f0 = 1..(n + 1), f0 = [i \in DOMAIN f0 |-> f0[i]],
             f0[n + 1] = base, \A i \in 1..n : f0[i] = Piece(i, f0[Next(i)])
      PROVE  EscapesRest(string, ansi_c, f0)
  <2>1. \A i \in 1..(n + 1) : IF i > n THEN i = n + 1 ELSE i \in 1..n
    BY <1>2
  <2>2. ASSUME NEW i \in 1..(n + 1)
        PROVE  f0[i] = IF i > n THEN base ELSE (IF Suppresses(string, i) THEN [text |-> Empty, suppressed |-> TRUE]
           ELSE [f0[i + EscapeAt(string, i, ansi_c).length] EXCEPT
                   !.text = EscapeAt(string, i, ansi_c).text \o @])
    <3>1. CASE i > n
      BY <1>7, <2>1, <3>1
    <3>2. CASE ~(i > n)
      <4>1. f0[i] = Piece(i, f0[Next(i)])
        BY <1>7, <2>1, <3>2
      <4>2. CASE Suppresses(string, i)
        BY <3>2, <4>1, <4>2 DEF EscapesNext, EscapesPiece
      <4>3. CASE ~(Suppresses(string, i))
        BY <3>2, <4>1, <4>3 DEF EscapesNext, EscapesPiece
      <4> QED
        BY <4>2, <4>3
    <3> QED
      BY <3>1, <3>2
  <2>3. f0 = [i \in 1..(n + 1) |-> f0[i]]
    BY <1>7
  <2> QED
    BY <2>2, <2>3 DEF EscapesRest
<1>8. G \in [(1..n) \X T -> T] /\ \A i \in 1..n : \A t \in T : G[<<i, t>>] = Piece(i, t)
  BY <1>4
<1>9. \A i \in 1..n : next[i] = Next(i)
  OBVIOUS
<1> HIDE DEF n, T, base, Next, Piece, next, G
<1>10. PICK h : Descends(h, n, T, base, next, G)
  BY <1>2, <1>3, <1>5, <1>8, <1>9, DescentExists
<1>11. h \in [1..(n + 1) -> T]
  BY <1>10 DEF Descends
<1>12. \A i \in 1..n : h[i] = Piece(i, h[Next(i)])
  BY <1>3, <1>8, <1>9, <1>10, <1>11 DEF Descends
<1>13. EscapesRest(string, ansi_c, h)
  BY <1>7, <1>10, <1>11, <1>12 DEF Descends
<1>14. EscapesRest(string, ansi_c, f)
  BY <1>13
<1> HIDE DEF f
<1>15. f[n + 1] = base /\ \A i \in 1..n : f[i] = Piece(i, f[Next(i)])
  BY <1>6, <1>14
<1>16. DOMAIN f = 1..(n + 1) /\ f = [i \in DOMAIN f |-> f[i]]
  BY <1>14 DEF EscapesRest, n
<1>17. \A i \in 1..(n + 1) : f[i] = h[i]
  <2>1. f[n + 1] = h[n + 1]
    BY <1>10, <1>15 DEF Descends
  <2>2. \A i \in 1..n : f[next[i]] = h[next[i]] => f[i] = h[i]
    BY <1>9, <1>12, <1>15
  <2>3. \A i \in 1..n : next[i] \in 1..(n + 1) /\ next[i] > i
    BY <1>3, <1>9
  <2> QED
    BY <1>2, <2>1, <2>2, <2>3, DescentAgrees
<1>18. f \in [1..(n + 1) -> T]
  BY <1>11, <1>16, <1>17
<1>19. f[1] \in T
  BY <1>2, <1>18
<1> QED
  BY <1>1, <1>3, <1>15, <1>18, <1>19 DEF n, T, base, Next, Piece, EscapesComputes

LEMMA TransformEscapesType ==
  ASSUME NEW string \in Words, NEW ansi_c \in BOOLEAN
  PROVE  transform_escapes(string, ansi_c) \in Escaped
<1>1. PICK f : EscapesComputes(string, ansi_c, f)
  BY EscapesUnfolds
<1> QED
  BY <1>1 DEF EscapesComputes

----------------------------------------------------------------------------
(* echo.                                                                   *)

\* EscapedArguments: one argument more, until \c.
EscapedsStep(all, k) ==
    IF all.suppressed THEN all
    ELSE [transform_escapes(k, FALSE) EXCEPT !.text = all.text \o @]

EscapedsFold(keys, iter) ==
    iter = [s \in SUBSET (DOMAIN keys) |->
              IF s = {} THEN [text |-> Empty, suppressed |-> FALSE]
              ELSE EscapedsStep(iter[s \ {Max(s)}], keys[Max(s)])]

LEMMA EscapedsUnfolds ==
  ASSUME NEW args \in Seq(Words)
  PROVE  /\ EscapedArguments(args) \in Escaped
         /\ \E acc \in [0..Len(args) -> Escaped] :
               /\ acc[0] = [text |-> Empty, suppressed |-> FALSE]
               /\ \A i \in 1..Len(args) : acc[i] = EscapedsStep(acc[i - 1], args[i])
               /\ acc[Len(args)] = EscapedArguments(args)
<1> DEFINE n == Len(args)
           T == Escaped
           base == [text |-> Empty, suppressed |-> FALSE]
           keys == args
           Step(all, k) == EscapedsStep(all, args[k])
           G == [p \in T \X (1..n) |-> Step(p[1], p[2])]
           iter == CHOOSE f : EscapedsFold(keys, f)
<1>1. EscapedArguments(args) = iter[DOMAIN keys]
  BY DEF EscapedArguments, FoldLeft, MapThenFoldSet, EscapedsFold, EscapedsStep
<1>2. n \in Nat /\ DOMAIN keys = 1..n /\ \A k \in 1..n : keys[k] = args[k]
  OBVIOUS
<1>3. \A all \in T : \A k \in 1..n : Step(all, k) \in T
  <2> SUFFICES ASSUME NEW all \in T, NEW k \in 1..n
               PROVE  Step(all, k) \in T
    OBVIOUS
  <2> DEFINE e == transform_escapes(args[k], FALSE)
  <2>1. e \in Escaped
    <3>1. args[k] \in Words /\ FALSE \in BOOLEAN
      OBVIOUS
    <3> HIDE DEF T, Step, G, iter, keys
    <3> QED
      BY <3>1, TransformEscapesType
  <2> HIDE DEF e
  <2>2. all.text \in Words /\ e.text \in Words
    BY <2>1 DEF Escaped
  <2>3. all.text \o e.text \in Words
    BY <2>2, WordFacts
  <2>4. [e EXCEPT !.text = all.text \o @] \in Escaped
    BY <2>1, <2>3 DEF Escaped
  <2>5. Step(all, k) = IF all.suppressed THEN all ELSE [e EXCEPT !.text = all.text \o @]
    BY DEF EscapedsStep, e
  <2> QED
    BY <2>4, <2>5
<1>4. base \in T
  BY WordFacts DEF Escaped
<1>5. G \in [T \X (1..n) -> T]
  BY <1>3
<1>6. \A all \in T : \A k \in 1..n : G[<<all, k>>] = Step(all, k)
  OBVIOUS
<1> HIDE DEF n, T, keys, G
<1>7. EscapedsFold(keys, iter)
  <2>1. PICK f : Folds(f, n, T, base, G)
    BY <1>2, <1>4, <1>5, FoldExists
  <2>2. ASSUME NEW s \in SUBSET (1..n)
        PROVE  f[s] = IF s = {} THEN [text |-> Empty, suppressed |-> FALSE]
                      ELSE EscapedsStep(f[s \ {Max(s)}], keys[Max(s)])
    <3>1. CASE s = {}
      BY <2>1, <3>1 DEF Folds
    <3>2. CASE s # {}
      <4>1. /\ Max(s) \in 1..n /\ f[s \ {Max(s)}] \in T
            /\ f[s] = G[<<f[s \ {Max(s)}], Max(s)>>]
        BY <2>1, <3>2 DEF Folds
      <4>2. f[s] = Step(f[s \ {Max(s)}], Max(s))
        BY <1>6, <4>1
      <4> QED
        BY <1>2, <3>2, <4>1, <4>2
    <3> QED
      BY <3>1, <3>2
  <2>3. f = [s \in SUBSET (1..n) |-> f[s]]
    BY <2>1 DEF Folds
  <2> HIDE DEF Step
  <2>4. f = [s \in SUBSET (DOMAIN keys) |->
               IF s = {} THEN [text |-> Empty, suppressed |-> FALSE]
               ELSE EscapedsStep(f[s \ {Max(s)}], keys[Max(s)])]
    BY <1>2, <2>2, <2>3
  <2> QED
    BY <2>4 DEF EscapedsFold
<1> HIDE DEF iter
<1>8. iter = [s \in SUBSET (1..n) |->
                IF s = {} THEN [text |-> Empty, suppressed |-> FALSE]
                ELSE EscapedsStep(iter[s \ {Max(s)}], keys[Max(s)])]
  BY <1>2, <1>7 DEF EscapedsFold
<1>9. ASSUME NEW i \in 1..n, iter[1..(i - 1)] \in T
      PROVE  iter[1..i] = G[<<iter[1..(i - 1)], i>>]
  <2>1. /\ 1..i \in SUBSET (1..n) /\ 1..i # {}
        /\ Max(1..i) = i /\ (1..i) \ {i} = 1..(i - 1)
    BY <1>2, PrefixFacts
  <2>2. iter[1..i] = EscapedsStep(iter[(1..i) \ {Max(1..i)}], keys[Max(1..i)])
    BY <1>8, <2>1
  <2>3. iter[1..i] = Step(iter[1..(i - 1)], i)
    BY <1>2, <2>1, <2>2
  <2> QED
    BY <1>6, <1>9, <2>3
<1>10. iter[{}] = base
  BY <1>8
<1>11. PICK acc \in [0..n -> T] :
          /\ acc[0] = base
          /\ \A i \in 1..n : acc[i] = G[<<acc[i - 1], i>>]
          /\ acc[n] = iter[1..n]
  <2>1. Accumulates(iter, n, T, base, G)
    BY <1>4, <1>5, <1>9, <1>10 DEF Accumulates
  <2> HIDE DEF base, Step
  <2> QED
    BY <1>2, <2>1, FoldPrefixes
<1>12. ASSUME NEW i \in 1..n PROVE acc[i] = EscapedsStep(acc[i - 1], args[i])
  <2>1. i - 1 \in 0..n
    BY <1>2
  <2>2. acc[i] = Step(acc[i - 1], i)
    BY <1>6, <1>11, <2>1
  <2> QED
    BY <2>2
<1>13. iter[1..n] \in T
  BY <1>2, <1>11
<1> QED
  BY <1>1, <1>2, <1>11, <1>12, <1>13 DEF n, T

LEMMA EchoType ==
  ASSUME NEW args \in Seq(Words)
  PROVE  echo(args) \in Words
<1> DEFINE texts == {k \in DOMAIN args : ~is_options(args[k])}
           options == SubSeq(args, 1, Min(texts) - 1)
           m == Min(texts)
           arguments == SubSeq(args, m, Len(args))
           escaped == EscapedArguments(arguments)
           eol == IF suppress_nl(options) THEN Empty ELSE <<Newline>>
<1>1. <<Newline>> \in Words /\ <<Space>> \in Words /\ eol \in Words
  BY WordFacts DEF Newline, Space
<1>2. ASSUME texts # {} PROVE arguments \in Seq(Words)
  <2>1. texts \subseteq DOMAIN args /\ DOMAIN args = 1..Len(args) /\ Len(args) \in Nat
    OBVIOUS
  <2> HIDE DEF texts
  <2>2. texts \subseteq Nat
    BY <2>1
  <2>3. m \in texts
    BY <1>2, <2>2, MinFacts
  <2> HIDE DEF m
  <2>4. m \in Nat \ {0}
    BY <2>1, <2>3
  <2> QED
    BY <2>1, <2>4, SubSeqType
<1> HIDE DEF texts, m, arguments, options, eol
<1>3. ASSUME arguments \in Seq(Words)
      PROVE  join(arguments, <<Space>>) \in Words /\ escaped.text \in Words
  <2>1. escaped \in Escaped
    BY <1>3, EscapedsUnfolds
  <2>2. join(arguments, <<Space>>) \in Words
    BY <1>1, <1>3, JoinType
  <2> QED
    BY <2>1, <2>2 DEF Escaped
<1>4. echo(args)
        = IF args = <<>> THEN <<Newline>>
          ELSE IF texts = {} THEN Empty
          ELSE IF ~enable_escapes(options) THEN join(arguments, <<Space>>) \o eol
          ELSE IF escaped.suppressed THEN escaped.text
          ELSE escaped.text \o eol
  BY DEF echo, texts, m, arguments, options, eol
<1> HIDE DEF escaped
<1> QED
  BY <1>1, <1>2, <1>3, <1>4, WordFacts

----------------------------------------------------------------------------
(* printf.                                                                 *)

LEMMA PrefixIsFinite ==
  ASSUME NEW k \in Nat
  PROVE  IsFiniteSet(1..k)
BY FS_Interval

\* Formatted: one character or directive more.
FormatStep(format, words, all, k) ==
    all \o (IF format[k] # Percent THEN <<format[k]>>
             ELSE LET n == Cardinality({i \in 1..k : format[i] = Percent})
                  IN IF n <= Len(words) THEN words[n] ELSE Empty)

FormatFold(format, words, keys, iter) ==
    iter = [s \in SUBSET (DOMAIN keys) |->
              IF s = {} THEN Empty
              ELSE FormatStep(format, words, iter[s \ {Max(s)}], keys[Max(s)])]

LEMMA FormatUnfolds ==
  ASSUME NEW format \in Words, NEW words \in Seq(Words)
  PROVE  /\ Formatted(format, words) \in Words
         /\ \E acc \in [0..Len(format) -> Words] :
               /\ acc[0] = Empty
               /\ \A i \in 1..Len(format) : acc[i] = FormatStep(format, words, acc[i - 1], i)
               /\ acc[Len(format)] = Formatted(format, words)
<1> DEFINE n == Len(format)
           T == Words
           base == Empty
           keys == [k \in DOMAIN format |-> k]
           Step(all, k) == FormatStep(format, words, all, k)
           G == [p \in T \X (1..n) |-> Step(p[1], p[2])]
           iter == CHOOSE f : FormatFold(format, words, keys, f)
<1>1. Formatted(format, words) = iter[DOMAIN keys]
  BY DEF Formatted, FoldLeft, MapThenFoldSet, FormatFold, FormatStep
<1>2. n \in Nat /\ DOMAIN keys = 1..n /\ \A k \in 1..n : keys[k] = k
  BY WordFacts
<1>3. \A all \in T : \A k \in 1..n : Step(all, k) \in T
  <2> SUFFICES ASSUME NEW all \in T, NEW k \in 1..n
               PROVE  Step(all, k) \in T
    OBVIOUS
  <2> DEFINE directives == {i \in 1..k : format[i] = Percent}
             d == Cardinality(directives)
  <2>1. <<format[k]>> \in Words /\ k \in Nat
    BY WordFacts
  <2>2. IsFiniteSet(directives)
    <3>1. directives \subseteq 1..k
      OBVIOUS
    <3> HIDE DEF directives
    <3>2. k \in Nat
      BY <2>1
    <3> HIDE DEF n, T, Step, G, iter, keys
    <3>3. IsFiniteSet(1..k)
      BY <3>2, PrefixIsFinite
    <3> HIDE DEF directives
    <3> QED
      BY <3>1, <3>3, FS_Subset
  <2>3. format[k] = Percent => directives # {}
    BY <2>1
  <2> HIDE DEF directives
  <2>4. d \in Nat /\ (format[k] = Percent => d # 0)
    BY <2>2, <2>3, FS_CardinalityType, FS_EmptySet
  <2> HIDE DEF d
  <2>5. format[k] = Percent /\ d <= Len(words) => words[d] \in Words
    BY <2>4
  <2>6. Step(all, k)
          = all \o (IF format[k] # Percent THEN <<format[k]>>
                    ELSE IF d <= Len(words) THEN words[d] ELSE Empty)
    BY DEF FormatStep, d, directives
  <2> QED
    BY <2>1, <2>5, <2>6, WordFacts
<1>4. base \in T
  BY WordFacts
<1>5. G \in [T \X (1..n) -> T]
  BY <1>3
<1>6. \A all \in T : \A k \in 1..n : G[<<all, k>>] = Step(all, k)
  OBVIOUS
<1> HIDE DEF n, T, keys, G
<1>7. FormatFold(format, words, keys, iter)
  <2>1. PICK f : Folds(f, n, T, base, G)
    BY <1>2, <1>4, <1>5, FoldExists
  <2>2. ASSUME NEW s \in SUBSET (1..n)
        PROVE  f[s] = IF s = {} THEN Empty
                      ELSE FormatStep(format, words, f[s \ {Max(s)}], keys[Max(s)])
    <3>1. CASE s = {}
      BY <2>1, <3>1 DEF Folds
    <3>2. CASE s # {}
      <4>1. /\ Max(s) \in 1..n /\ f[s \ {Max(s)}] \in T
            /\ f[s] = G[<<f[s \ {Max(s)}], Max(s)>>]
        BY <2>1, <3>2 DEF Folds
      <4>2. f[s] = Step(f[s \ {Max(s)}], Max(s))
        BY <1>6, <4>1
      <4> QED
        BY <1>2, <3>2, <4>1, <4>2
    <3> QED
      BY <3>1, <3>2
  <2>3. f = [s \in SUBSET (1..n) |-> f[s]]
    BY <2>1 DEF Folds
  <2> HIDE DEF Step
  <2>4. f = [s \in SUBSET (DOMAIN keys) |->
               IF s = {} THEN Empty
               ELSE FormatStep(format, words, f[s \ {Max(s)}], keys[Max(s)])]
    BY <1>2, <2>2, <2>3
  <2> QED
    BY <2>4 DEF FormatFold
<1> HIDE DEF iter
<1>8. iter = [s \in SUBSET (1..n) |->
                IF s = {} THEN Empty
                ELSE FormatStep(format, words, iter[s \ {Max(s)}], keys[Max(s)])]
  BY <1>2, <1>7 DEF FormatFold
<1>9. ASSUME NEW i \in 1..n, iter[1..(i - 1)] \in T
      PROVE  iter[1..i] = G[<<iter[1..(i - 1)], i>>]
  <2>1. /\ 1..i \in SUBSET (1..n) /\ 1..i # {}
        /\ Max(1..i) = i /\ (1..i) \ {i} = 1..(i - 1)
    BY <1>2, PrefixFacts
  <2>2. iter[1..i] = FormatStep(format, words, iter[(1..i) \ {Max(1..i)}], keys[Max(1..i)])
    BY <1>8, <2>1
  <2>3. iter[1..i] = Step(iter[1..(i - 1)], i)
    BY <1>2, <2>1, <2>2
  <2> QED
    BY <1>6, <1>9, <2>3
<1>10. iter[{}] = base
  BY <1>8
<1>11. PICK acc \in [0..n -> T] :
          /\ acc[0] = base
          /\ \A i \in 1..n : acc[i] = G[<<acc[i - 1], i>>]
          /\ acc[n] = iter[1..n]
  <2>1. Accumulates(iter, n, T, base, G)
    BY <1>4, <1>5, <1>9, <1>10 DEF Accumulates
  <2> HIDE DEF base, Step
  <2> QED
    BY <1>2, <2>1, FoldPrefixes
<1>12. ASSUME NEW i \in 1..n PROVE acc[i] = FormatStep(format, words, acc[i - 1], i)
  <2>1. i - 1 \in 0..n
    BY <1>2
  <2>2. acc[i] = Step(acc[i - 1], i)
    BY <1>6, <1>11, <2>1
  <2> QED
    BY <2>2
<1>13. iter[1..n] \in T
  BY <1>2, <1>11
<1> QED
  BY <1>1, <1>2, <1>11, <1>12, <1>13 DEF n, T

\* The rounds in Reused.
RoundsOf(format, words, directives, rounds) ==
    FoldLeft(LAMBDA out, r :
                out \o Formatted(format, SubSeq(words, (r - 1) * directives + 1,
                                                Min({r * directives, Len(words)}))),
             Empty, [r \in 1..rounds |-> r])

\* One round more.
RoundsStep(format, words, directives, all, k) ==
    all \o Formatted(format, SubSeq(words, (k - 1) * directives + 1,
                                    Min({k * directives, Len(words)})))

RoundsFold(format, words, directives, keys, iter) ==
    iter = [s \in SUBSET (DOMAIN keys) |->
              IF s = {} THEN Empty
              ELSE RoundsStep(format, words, directives, iter[s \ {Max(s)}], keys[Max(s)])]

LEMMA RoundsUnfolds ==
  ASSUME NEW format \in Words, NEW words \in Seq(Words), NEW directives \in Nat,
         NEW rounds \in Nat
  PROVE  /\ RoundsOf(format, words, directives, rounds) \in Words
         /\ \E acc \in [0..rounds -> Words] :
               /\ acc[0] = Empty
               /\ \A i \in 1..rounds : acc[i] = RoundsStep(format, words, directives, acc[i - 1], i)
               /\ acc[rounds] = RoundsOf(format, words, directives, rounds)
<1> DEFINE n == rounds
           T == Words
           base == Empty
           keys == [r \in 1..rounds |-> r]
           Step(all, k) == RoundsStep(format, words, directives, all, k)
           G == [p \in T \X (1..n) |-> Step(p[1], p[2])]
           iter == CHOOSE f : RoundsFold(format, words, directives, keys, f)
<1>1. RoundsOf(format, words, directives, rounds) = iter[DOMAIN keys]
  BY DEF RoundsOf, FoldLeft, MapThenFoldSet, RoundsFold, RoundsStep
<1>2. n \in Nat /\ DOMAIN keys = 1..n /\ \A k \in 1..n : keys[k] = k
  OBVIOUS
<1>3. \A all \in T : \A k \in 1..n : Step(all, k) \in T
  <2> SUFFICES ASSUME NEW all \in T, NEW k \in 1..n
               PROVE  Step(all, k) \in T
    OBVIOUS
  <2> DEFINE from == (k - 1) * directives + 1
             to == Min({k * directives, Len(words)})
  <2>1. k \in Nat /\ k - 1 \in Nat /\ Len(words) \in Nat
    OBVIOUS
  <2>2. from \in Nat \ {0} /\ k * directives \in Nat
    <3>1. (k - 1) * directives + 0 \in Nat /\ k * directives + 0 \in Nat
      BY <2>1, MultiplyType
    <3> QED
      BY <3>1
  <2>3. to \in Int /\ to <= Len(words)
    BY <2>1, <2>2, MinOfTwo
  <2> HIDE DEF from, to
  <2>4. SubSeq(words, from, to) \in Seq(Words)
    BY <2>2, <2>3, SubSeqType
  <2>5. Formatted(format, SubSeq(words, from, to)) \in Words
    BY <2>4, FormatUnfolds
  <2>6. Step(all, k) = all \o Formatted(format, SubSeq(words, from, to))
    BY DEF RoundsStep, from, to
  <2> QED
    BY <2>5, <2>6, WordFacts
<1>4. base \in T
  BY WordFacts
<1>5. G \in [T \X (1..n) -> T]
  BY <1>3
<1>6. \A all \in T : \A k \in 1..n : G[<<all, k>>] = Step(all, k)
  OBVIOUS
<1> HIDE DEF n, T, keys, G
<1>7. RoundsFold(format, words, directives, keys, iter)
  <2>1. PICK f : Folds(f, n, T, base, G)
    BY <1>2, <1>4, <1>5, FoldExists
  <2>2. ASSUME NEW s \in SUBSET (1..n)
        PROVE  f[s] = IF s = {} THEN Empty
                      ELSE RoundsStep(format, words, directives, f[s \ {Max(s)}], keys[Max(s)])
    <3>1. CASE s = {}
      BY <2>1, <3>1 DEF Folds
    <3>2. CASE s # {}
      <4>1. /\ Max(s) \in 1..n /\ f[s \ {Max(s)}] \in T
            /\ f[s] = G[<<f[s \ {Max(s)}], Max(s)>>]
        BY <2>1, <3>2 DEF Folds
      <4>2. f[s] = Step(f[s \ {Max(s)}], Max(s))
        BY <1>6, <4>1
      <4> QED
        BY <1>2, <3>2, <4>1, <4>2
    <3> QED
      BY <3>1, <3>2
  <2>3. f = [s \in SUBSET (1..n) |-> f[s]]
    BY <2>1 DEF Folds
  <2> HIDE DEF Step
  <2>4. f = [s \in SUBSET (DOMAIN keys) |->
               IF s = {} THEN Empty
               ELSE RoundsStep(format, words, directives, f[s \ {Max(s)}], keys[Max(s)])]
    BY <1>2, <2>2, <2>3
  <2> QED
    BY <2>4 DEF RoundsFold
<1> HIDE DEF iter
<1>8. iter = [s \in SUBSET (1..n) |->
                IF s = {} THEN Empty
                ELSE RoundsStep(format, words, directives, iter[s \ {Max(s)}], keys[Max(s)])]
  BY <1>2, <1>7 DEF RoundsFold
<1>9. ASSUME NEW i \in 1..n, iter[1..(i - 1)] \in T
      PROVE  iter[1..i] = G[<<iter[1..(i - 1)], i>>]
  <2>1. /\ 1..i \in SUBSET (1..n) /\ 1..i # {}
        /\ Max(1..i) = i /\ (1..i) \ {i} = 1..(i - 1)
    BY <1>2, PrefixFacts
  <2>2. iter[1..i] = RoundsStep(format, words, directives, iter[(1..i) \ {Max(1..i)}], keys[Max(1..i)])
    BY <1>8, <2>1
  <2>3. iter[1..i] = Step(iter[1..(i - 1)], i)
    BY <1>2, <2>1, <2>2
  <2> QED
    BY <1>6, <1>9, <2>3
<1>10. iter[{}] = base
  BY <1>8
<1>11. PICK acc \in [0..n -> T] :
          /\ acc[0] = base
          /\ \A i \in 1..n : acc[i] = G[<<acc[i - 1], i>>]
          /\ acc[n] = iter[1..n]
  <2>1. Accumulates(iter, n, T, base, G)
    BY <1>4, <1>5, <1>9, <1>10 DEF Accumulates
  <2> HIDE DEF base, Step
  <2> QED
    BY <1>2, <2>1, FoldPrefixes
<1>12. ASSUME NEW i \in 1..n PROVE acc[i] = RoundsStep(format, words, directives, acc[i - 1], i)
  <2>1. i - 1 \in 0..n
    BY <1>2
  <2>2. acc[i] = Step(acc[i - 1], i)
    BY <1>6, <1>11, <2>1
  <2> QED
    BY <2>2
<1>13. iter[1..n] \in T
  BY <1>2, <1>11
<1> QED
  BY <1>1, <1>2, <1>11, <1>12, <1>13 DEF n, T

LEMMA ReusedType ==
  ASSUME NEW format \in Words, NEW words \in Seq(Words)
  PROVE  Reused(format, words) \in Words \cup {OtherException}
<1> DEFINE places == {i \in DOMAIN format : format[i] = Percent}
           directives == Cardinality(places)
           d == (Len(words) + directives - 1) \div directives
           rounds == Max({1, d})
<1>1. directives \in Nat
  <2>1. Len(format) \in Nat /\ DOMAIN format = 1..Len(format)
    BY WordFacts
  <2>2. IsFiniteSet(1..Len(format)) /\ places \subseteq 1..Len(format)
    BY <2>1, PrefixIsFinite
  <2> HIDE DEF places
  <2>3. IsFiniteSet(places)
    BY <2>2, FS_Subset
  <2> QED
    BY <2>3, FS_CardinalityType
<1> HIDE DEF directives
<1>2. ASSUME words # <<>>, directives # 0
      PROVE  RoundsOf(format, words, directives, rounds) \in Words
  <2>1. Len(words) \in Nat /\ directives \in Nat \ {0}
    BY <1>1, <1>2
  <2>2. Len(words) + directives - 1 \in Nat
    BY <2>1
  <2>3. d \in Nat
    BY <2>1, <2>2
  <2> HIDE DEF d
  <2>4. {1, d} \subseteq 0..(d + 1) /\ d + 1 \in Nat /\ {1, d} # {}
    BY <2>3
  <2>5. rounds \in {1, d}
    BY <2>4, MaxFacts
  <2> HIDE DEF rounds
  <2>6. rounds \in Nat
    BY <2>3, <2>5
  <2> QED
    BY <1>1, <2>6, RoundsUnfolds
<1>3. Formatted(format, words) \in Words
  BY FormatUnfolds
<1>4. Reused(format, words)
        = IF words = <<>> THEN Formatted(format, words)
          ELSE IF directives = 0 THEN OtherException
          ELSE RoundsOf(format, words, directives, rounds)
  BY DEF Reused, RoundsOf, directives, places
<1> HIDE DEF rounds
<1> QED
  BY <1>2, <1>3, <1>4

LEMMA PrintfType ==
  ASSUME NEW args \in Seq(Words), args # <<>>
  PROVE  printf(args) \in Words \cup {InterpreterException, OtherException}
<1> DEFINE first == IF args[1] = dash_v THEN 3 ELSE 1
           format == transform_escapes(args[first], FALSE)
           output == Reused(format.text, SubSeq(args, first + 1, Len(args)))
<1>1. Len(args) \in Nat /\ Len(args) >= 1
  OBVIOUS
<1>2. ASSUME ~(args[1] = dash_v /\ Len(args) < 3)
      PROVE  output \in Words \cup {OtherException}
  <2>1. first \in Nat /\ first \in 1..Len(args) /\ first + 1 \in Nat \ {0}
    BY <1>1, <1>2
  <2> HIDE DEF first
  <2>2. args[first] \in Words
    BY <2>1
  <2>3. format \in Escaped
    BY <2>2, TransformEscapesType
  <2> HIDE DEF format
  <2>4. format.text \in Words
    BY <2>3 DEF Escaped
  <2>5. SubSeq(args, first + 1, Len(args)) \in Seq(Words)
    BY <1>1, <2>1, SubSeqType
  <2> QED
    BY <2>4, <2>5, ReusedType
<1>3. printf(args)
        = IF args[1] = dash_v /\ Len(args) < 3 THEN InterpreterException
          ELSE IF format.suppressed \/ output = OtherException THEN OtherException
          ELSE IF args[1] # dash_v /\ FirstOf(args[1]) = <<Minus>> THEN InterpreterException
          ELSE output
  BY DEF printf
<1> HIDE DEF output, format
<1> QED
  BY <1>2, <1>3

----------------------------------------------------------------------------
(* read.                                                                   *)

Got == [line : Seq(Nat), rest : Seq(Seq(Nat)), eof : BOOLEAN]

LEMMA GetlineType ==
  ASSUME NEW lines \in Seq(Seq(Nat))
  PROVE  /\ getline(lines) \in Got
         /\ getline(lines).rest = IF lines = <<>> THEN lines ELSE Tail(lines)
         /\ lines = <<>> => getline(lines).line = Empty
<1>1. CASE lines = <<>>
  <2>1. getline(lines).line = Empty /\ getline(lines).rest = lines
    BY <1>1 DEF getline
  <2>2. getline(lines) = [line |-> Empty, rest |-> lines, eof |-> Len(lines) <= 1]
    BY <1>1 DEF getline
  <2>3. Empty \in Seq(Nat) /\ (Len(lines) <= 1) \in BOOLEAN
    BY WordsAreCodes
  <2>4. getline(lines) \in Got
    BY <2>2, <2>3 DEF Got
  <2> QED
    BY <1>1, <2>1, <2>4
<1>2. CASE lines # <<>>
  <2>1. Head(lines) \in Seq(Nat) /\ Tail(lines) \in Seq(Seq(Nat))
    BY <1>2
  <2>2. getline(lines) = [line |-> Head(lines), rest |-> Tail(lines), eof |-> Len(lines) <= 1]
    BY <1>2 DEF getline
  <2> QED
    BY <1>2, <2>1, <2>2 DEF Got
<1> QED
  BY <1>1, <1>2

\* The next round of the loop in logical_line, its last rounds, and its end.
Joins(got) ==
    LET next == getline(got.rest)
    IN [line |-> Front(got.line) \o next.line, rest |-> next.rest, eof |-> got.eof \/ next.eof]

IsJoined(got) == got.line = Empty \/ Last(got.line) # Backslash \/ Front(got.line) = Empty

JoinedAs(got) ==
    LET next == getline(got.rest)
    IN IF got.line = Empty \/ Last(got.line) # Backslash THEN got
       ELSE [line |-> Empty, rest |-> next.rest, eof |-> got.eof \/ next.eof]

LogicalLine(f) ==
    f = [got \in [line : Seq(Nat), rest : Seq(Seq(Nat)), eof : BOOLEAN] |->
           LET next == getline(got.rest)
               eof  == got.eof \/ next.eof
           IN IF got.line = Empty \/ Last(got.line) # Backslash THEN got
              ELSE IF Front(got.line) = Empty
              THEN [line |-> Empty, rest |-> next.rest, eof |-> eof]
              ELSE f[[line |-> Front(got.line) \o next.line, rest |-> next.rest, eof |-> eof]]]

\* Fewer lines are left, or fewer characters.
Fewer(p, q) ==
    \/ Len(p.rest) < Len(q.rest)
    \/ Len(p.rest) = Len(q.rest) /\ Len(p.line) < Len(q.line)

LEMMA FewerIsWellFounded == IsWellFoundedOn({p \in Got \X Got : Fewer(p[1], p[2])}, Got)
<1> DEFINE R == {p \in Got \X Got : Fewer(p[1], p[2])}
<1>1. \A g \in Got : Len(g.rest) \in Nat /\ Len(g.line) \in Nat
  BY DEF Got
<1>2. ASSUME NEW U \in SUBSET Got, U # {}
      PROVE  \E x \in U : \A y \in U : <<y, x>> \notin R
  <2> DEFINE Lefts == {Len(g.rest) : g \in U}
  <2>1. Lefts \subseteq Nat /\ Lefts # {}
    BY <1>1, <1>2
  <2> HIDE DEF Lefts
  <2>2. PICK m \in Lefts : \A k \in Lefts : m <= k
    BY <2>1, LeastExists
  <2> DEFINE Sizes == {Len(g.line) : g \in {h \in U : Len(h.rest) = m}}
  <2>3. Sizes \subseteq Nat /\ Sizes # {}
    <3>1. \E h \in U : Len(h.rest) = m
      BY <2>2 DEF Lefts
    <3> QED
      BY <1>1, <3>1
  <2> HIDE DEF Sizes
  <2>4. PICK s \in Sizes : \A k \in Sizes : s <= k
    BY <2>3, LeastExists
  <2>5. PICK x \in U : Len(x.rest) = m /\ Len(x.line) = s
    BY DEF Sizes
  <2>6. ASSUME NEW y \in U PROVE ~Fewer(y, x)
    <3>1. Len(y.rest) \in Nat /\ Len(y.line) \in Nat /\ m \in Nat /\ s \in Nat
      BY <1>1, <2>1, <2>3
    <3>2. m <= Len(y.rest)
      BY <2>2 DEF Lefts
    <3>3. Len(y.rest) = m => s <= Len(y.line)
      BY <2>4 DEF Sizes
    <3> QED
      BY <2>5, <3>1, <3>2, <3>3 DEF Fewer
  <2>7. \A y \in U : <<y, x>> \notin R
    BY <2>6
  <2> HIDE DEF R
  <2> QED
    BY <2>7
<1> HIDE DEF R
<1>3. IsWellFoundedOn(R, Got)
  BY <1>2, MinWF
<1> QED
  BY <1>3 DEF R

\* The loop of logical_line ends: some function solves its recursion.
LEMMA LogicalLineUnfolds ==
  ASSUME NEW lines \in Seq(Seq(Nat))
  PROVE  \E h \in [Got -> Got] :
            /\ logical_line(lines) = h[getline(lines)]
            /\ \A got \in Got : h[got] = IF IsJoined(got) THEN JoinedAs(got) ELSE h[Joins(got)]
<1> DEFINE R == {p \in Got \X Got : Fewer(p[1], p[2])}
           B == {got \in Got : IsJoined(got)}
           base == [got \in Got |-> IF IsJoined(got) THEN JoinedAs(got) ELSE got]
           next == [got \in Got |-> IF IsJoined(got) THEN got ELSE Joins(got)]
           G == [p \in Got \X Got |-> p[2]]
           f == CHOOSE h : LogicalLine(h)
<1>1. logical_line(lines) = f[getline(lines)]
  BY DEF logical_line, LogicalLine
<1>2. ASSUME NEW got \in Got, ~IsJoined(got)
      PROVE  Joins(got) \in Got /\ Fewer(Joins(got), got)
  <2> DEFINE n == getline(got.rest)
  <2>1. got.line \in Seq(Nat) /\ got.line # <<>> /\ got.rest \in Seq(Seq(Nat)) /\ got.eof \in BOOLEAN
    BY <1>2, WordsAreCodes DEF Got, IsJoined
  <2>2. /\ Front(got.line) \in Seq(Nat)
        /\ Len(Front(got.line)) = Len(got.line) - 1
    BY <2>1, FrontLast
  <2>3. /\ n \in Got
        /\ n.rest = IF got.rest = <<>> THEN got.rest ELSE Tail(got.rest)
        /\ got.rest = <<>> => n.line = Empty
    BY <2>1, GetlineType
  <2>4. Joins(got) = [line |-> Front(got.line) \o n.line, rest |-> n.rest, eof |-> got.eof \/ n.eof]
    BY DEF Joins
  <2> HIDE DEF n
  <2>5. n.line \in Seq(Nat) /\ n.rest \in Seq(Seq(Nat)) /\ n.eof \in BOOLEAN
    BY <2>3 DEF Got
  <2>6. Front(got.line) \o n.line \in Seq(Nat)
    BY <2>2, <2>5
  <2>7. Joins(got) \in Got
    BY <2>1, <2>4, <2>5, <2>6 DEF Got
  <2> DEFINE l == Front(got.line) \o n.line
             e == got.eof \/ n.eof
  <2> HIDE DEF R, B, base, next, G, f, l, e
  <2>8. Joins(got).rest = n.rest /\ Joins(got).line = Front(got.line) \o n.line
    <3>1. Joins(got) = [line |-> l, rest |-> n.rest, eof |-> e]
      BY <2>4 DEF l, e
    <3>2. Joins(got).rest = n.rest /\ Joins(got).line = l
      BY <3>1
    <3> QED
      BY <3>2 DEF l
  <2>9. CASE got.rest = <<>>
    <3>1. Joins(got).rest = got.rest
      BY <2>3, <2>8, <2>9
    <3>2. n.line = <<>>
      BY <2>3, <2>9, WordsAreCodes
    <3>3. Joins(got).line = Front(got.line)
      BY <2>2, <2>8, <3>2
    <3>4. Len(got.line) \in Nat
      BY <2>1
    <3>5. Len(Joins(got).line) < Len(got.line)
      BY <2>2, <3>3, <3>4
    <3> QED
      BY <2>7, <3>1, <3>5 DEF Fewer
  <2>10. CASE got.rest # <<>>
    <3>1. Joins(got).rest = Tail(got.rest)
      BY <2>3, <2>8, <2>10
    <3>2. Len(Tail(got.rest)) < Len(got.rest)
      BY <2>1, <2>10
    <3> QED
      BY <2>7, <3>1, <3>2 DEF Fewer
  <2> QED
    BY <2>9, <2>10
<1>3. ASSUME NEW got \in Got
      PROVE  JoinedAs(got) \in Got
  <2>1. getline(got.rest) \in Got
    BY GetlineType DEF Got
  <2> QED
    BY <2>1, WordFacts DEF JoinedAs, Got
<1>4. base \in [Got -> Got] /\ next \in [Got -> Got]
  BY <1>2, <1>3
<1>5. G \in [Got \X Got -> Got] /\ \A g, h \in Got : G[<<g, h>>] = h
  OBVIOUS
<1>6. \A got \in Got : got \notin B => <<next[got], got>> \in R
  BY <1>2
<1>7. \A got \in Got : base[got] = (IF IsJoined(got) THEN JoinedAs(got) ELSE got)
                       /\ (~IsJoined(got) => next[got] = Joins(got))
                       /\ (got \in B <=> IsJoined(got))
  OBVIOUS
<1>8. IsWellFoundedOn(R, Got)
  BY FewerIsWellFounded
<1> HIDE DEF R, B, base, next, G, f
<1>9. PICK h : Solves(Got, h, Got, B, base, next, G)
  <2>1. Recursion(Got, R, Got, B, base, next, G)
    BY <1>4, <1>5, <1>6, <1>8 DEF Recursion
  <2> QED
    BY <2>1, RecursionExists
<1>10. h \in [Got -> Got]
  BY <1>9 DEF Solves
<1>11. ASSUME NEW got \in Got
       PROVE  h[got] = IF IsJoined(got) THEN JoinedAs(got) ELSE h[Joins(got)]
  <2>1. CASE IsJoined(got)
    BY <1>7, <1>9, <2>1 DEF Solves
  <2>2. CASE ~IsJoined(got)
    <3>1. Joins(got) \in Got /\ h[got] = G[<<got, h[Joins(got)]>>]
      BY <1>7, <1>9, <2>2 DEF Solves
    <3>2. h[Joins(got)] \in Got
      BY <1>10, <3>1
    <3> QED
      BY <1>5, <2>2, <3>1, <3>2
  <2> QED
    BY <2>1, <2>2
<1> DEFINE Value(g, got) ==
             IF got.line = Empty \/ Last(got.line) # Backslash THEN got
             ELSE IF Front(got.line) = Empty
             THEN [line |-> Empty, rest |-> getline(got.rest).rest,
                   eof |-> got.eof \/ getline(got.rest).eof]
             ELSE g[[line |-> Front(got.line) \o getline(got.rest).line,
                     rest |-> getline(got.rest).rest,
                     eof |-> got.eof \/ getline(got.rest).eof]]
<1>12. \A g : \A got \in Got :
          Value(g, got) = IF IsJoined(got) THEN JoinedAs(got) ELSE g[Joins(got)]
  BY DEF IsJoined, JoinedAs, Joins
<1>13. \A g : LogicalLine(g) <=> g = [got \in Got |-> Value(g, got)]
  BY DEF LogicalLine, Got
<1> HIDE DEF Value
<1>14. h = [got \in Got |-> Value(h, got)]
  <2>1. h = [got \in Got |-> h[got]]
    BY <1>10
  <2>2. \A got \in Got : h[got] = Value(h, got)
    BY <1>11, <1>12
  <2> QED
    BY <2>1, <2>2
<1>15. LogicalLine(f)
  BY <1>13, <1>14 DEF f
<1>16. f = [got \in Got |-> Value(f, got)]
  BY <1>13, <1>15
<1>17. \A got \in Got : f[got] = IF IsJoined(got) THEN JoinedAs(got) ELSE f[Joins(got)]
  BY <1>12, <1>16
<1> DEFINE Differ == {got \in Got : f[got] # h[got]}
<1>18. ASSUME Differ # {} PROVE FALSE
  <2>1. Differ \subseteq Got
    OBVIOUS
  <2>2. \A got \in Got : got \in Differ <=> f[got] # h[got]
    OBVIOUS
  <2> HIDE DEF Differ
  <2>3. PICK got \in Differ : \A g \in Differ : <<g, got>> \notin R
    BY <1>8, <1>18, <2>1, WFMin
  <2>4. got \in Got /\ f[got] # h[got]
    BY <2>1, <2>2
  <2>5. ~IsJoined(got)
    BY <1>11, <1>17, <2>4
  <2>6. Joins(got) \in Got /\ <<Joins(got), got>> \in R
    BY <1>2, <2>4, <2>5 DEF R
  <2>7. f[Joins(got)] = h[Joins(got)]
    BY <2>2, <2>3, <2>6
  <2> QED
    BY <1>11, <1>17, <2>4, <2>5, <2>7
<1>19. getline(lines) \in Got
  BY GetlineType
<1>20. f[getline(lines)] = h[getline(lines)]
  BY <1>18, <1>19
<1> QED
  BY <1>1, <1>10, <1>11, <1>20

LEMMA LogicalLineType ==
  ASSUME NEW lines \in Seq(Seq(Nat))
  PROVE  logical_line(lines) \in Got
<1>1. PICK h \in [Got -> Got] : logical_line(lines) = h[getline(lines)]
  BY LogicalLineUnfolds
<1>2. getline(lines) \in Got
  BY GetlineType
<1> QED
  BY <1>1, <1>2


LEMMA ProcessType ==
  ASSUME NEW names \in Seq(Names), NEW input \in Words
  PROVE  /\ process(names, input) \in Seq(Words)
         /\ Len(process(names, input)) = Len(names)
<1> DEFINE words == split(input, {Space}, FALSE)
           value(k) == IF k > Len(words) THEN Empty
                       ELSE IF k < Len(names) THEN words[k]
                       ELSE join(SubSeq(words, k, Len(words)), <<Space>>)
           m == Len(names)
           values == [k \in 1..m |-> value(k)]
<1>1. words \in Seq(Words)
  BY SplitType
<1> HIDE DEF words
<1>2. m \in Nat /\ DOMAIN names = 1..m /\ Len(words) \in Nat /\ <<Space>> \in Words
  BY <1>1, WordFacts DEF Space
<1>3. ASSUME NEW k \in 1..m PROVE value(k) \in Words
  <2>1. SubSeq(words, k, Len(words)) \in Seq(Words)
    BY <1>1, <1>2, SubSeqType
  <2>2. join(SubSeq(words, k, Len(words)), <<Space>>) \in Words
    BY <1>2, <2>1, JoinType
  <2>3. k \in Nat /\ (~(k > Len(words)) => words[k] \in Words)
    BY <1>1, <1>2
  <2> QED
    BY <2>2, <2>3, WordFacts
<1>4. process(names, input) = values
  BY <1>2 DEF process, words
<1> HIDE DEF value, m
<1>5. values \in [1..m -> Words]
  BY <1>3
<1> HIDE DEF values
<1>6. values \in Seq(Words) /\ Len(values) = m
  BY <1>2, <1>5
<1> QED
  BY <1>4, <1>6 DEF m

LEMMA ReadType ==
  ASSUME NEW names \in Seq(Names), NEW lines \in Seq(Seq(Nat))
  PROVE  /\ read(names, lines).values \in Seq(Words)
         /\ Len(read(names, lines).values) <= Len(names)
         /\ read(names, lines).rest \in Seq(Seq(Nat))
         /\ read(names, lines).status \in {0, 1}
<1> DEFINE input == logical_line(lines)
           escaped == transform_escapes(input.line, FALSE)
           values == IF input.line = Empty THEN <<>> ELSE process(names, escaped.text)
           status == IF input.eof THEN 1 ELSE 0
<1>1. input \in Got
  BY LogicalLineType
<1> HIDE DEF input
<1>2. input.line \in Words /\ input.rest \in Seq(Seq(Nat))
  BY <1>1, WordsAreCodes DEF Got
<1>3. escaped \in Escaped
  BY <1>2, TransformEscapesType
<1> HIDE DEF escaped
<1>4. escaped.text \in Words
  BY <1>3 DEF Escaped
<1>5. values \in Seq(Words) /\ Len(values) <= Len(names)
  <2>1. /\ process(names, escaped.text) \in Seq(Words)
        /\ Len(process(names, escaped.text)) = Len(names)
    BY <1>4, ProcessType
  <2>2. Len(names) \in Nat /\ <<>> \in Seq(Words) /\ Len(<<>>) = 0
    OBVIOUS
  <2> QED
    BY <2>1, <2>2
<1>6. status \in {0, 1}
  OBVIOUS
<1>7. read(names, lines) = [values |-> values, suppressed |-> escaped.suppressed,
                            rest |-> input.rest, status |-> status]
  BY DEF read, input, escaped
<1> HIDE DEF values, status
<1> QED
  BY <1>2, <1>5, <1>6, <1>7

----------------------------------------------------------------------------
(* The state of an interpreter.                                            *)

LEMMA ScalarType ==
  ASSUME NEW value \in Words, NEW ro \in BOOLEAN, NEW index \in Indexes
  PROVE  Scalar(value, ro, index) \in Variable
BY DEF Scalar, Variable, ValueMap, NoElements

LEMMA WithValueType ==
  ASSUME NEW var \in Variable, NEW value \in Words, NEW index \in Indexes
  PROVE  WithValue(var, value, index) \in Variable
BY DEF WithValue, Variable, ValueMap

LEMMA ListFromType ==
  ASSUME NEW first \in Int, NEW words \in Seq(Words)
  PROVE  ListFrom(first, words) \in Variable
<1> DEFINE values == [i \in Indexes |-> IF i - first + 1 \in DOMAIN words
                                        THEN words[i - first + 1] ELSE Absent]
<1>1. \A i \in DOMAIN words : words[i] \in Words
  OBVIOUS
<1>2. values \in ValueMap
  BY <1>1 DEF ValueMap
<1> HIDE DEF values
<1> QED
  BY <1>2 DEF ListFrom, ArrayOf, Variable, values

LEMMA WithVars ==
  ASSUME NEW w \in Interpreter, NEW vs \in [Names -> Variable \cup {None}]
  PROVE  [w EXCEPT !.vars = vs] \in Interpreter
BY DEF Interpreter

LEMMA WithVar ==
  ASSUME NEW w \in Interpreter, NEW n \in Names, NEW var \in Variable
  PROVE  [w EXCEPT !.vars[n] = var] \in Interpreter
<1> DEFINE vs == [w.vars EXCEPT ![n] = var]
<1>1. w.vars \in [Names -> Variable \cup {None}]
  BY DEF Interpreter
<1>2. vs \in [Names -> Variable \cup {None}]
  BY <1>1
<1>3. [w EXCEPT !.vars[n] = var] = [w EXCEPT !.vars = vs]
  OBVIOUS
<1> HIDE DEF vs
<1> QED
  BY <1>2, <1>3, WithVars

LEMMA AssignedType ==
  ASSUME NEW w \in Interpreter, NEW n \in Names, NEW value \in Words, NEW index \in Indexes
  PROVE  Assigned(w, n, value, index) \in Interpreter
<1> DEFINE var == IF w.vars[n] = None THEN Scalar(value, FALSE, index)
                  ELSE WithValue(w.vars[n], value, index)
<1>1. w.vars[n] \in Variable \cup {None}
  BY DEF Interpreter
<1>2. var \in Variable
  BY <1>1, ScalarType, WithValueType
<1>3. Assigned(w, n, value, index) = [w EXCEPT !.vars[n] = var]
  BY DEF Assigned
<1> HIDE DEF var
<1> QED
  BY <1>2, <1>3, WithVar

LEMMA WithStatus ==
  ASSUME NEW w \in Interpreter, NEW status \in {0, 1}
  PROVE  [w EXCEPT !.status = status] \in Interpreter
BY DEF Interpreter

\* What a command may end with.
Outcomes == [walker : Interpreter, thrown : {None, InterpreterException}]

LEMMA DoneType ==
  ASSUME NEW w \in Interpreter, NEW status \in {0, 1}
  PROVE  Done(w, status) \in Outcomes
BY WithStatus DEF Done, Outcomes

\* AssignAll: one name more.
AssignAllStep(w, names, values, status, all, k) ==
    IF all.thrown # None THEN all
    ELSE IF is_readonly(all.walker, names[k]) THEN Thrown(all.walker, InterpreterException)
    ELSE Done(Assigned(all.walker, names[k], values[k], 0), status)

AssignAllFold(w, names, values, status, keys, iter) ==
    iter = [s \in SUBSET (DOMAIN keys) |->
              IF s = {} THEN Done(w, status)
              ELSE AssignAllStep(w, names, values, status, iter[s \ {Max(s)}], keys[Max(s)])]

LEMMA AssignAllUnfolds ==
  ASSUME NEW w \in Interpreter, NEW names \in Seq(Names), NEW values \in Seq(Words),
         Len(values) <= Len(names), NEW status \in {0, 1}
  PROVE  /\ AssignAll(w, names, values, status) \in Outcomes
         /\ \E acc \in [0..Len(values) -> Outcomes] :
               /\ acc[0] = Done(w, status)
               /\ \A i \in 1..Len(values) : acc[i] = AssignAllStep(w, names, values, status, acc[i - 1], i)
               /\ acc[Len(values)] = AssignAll(w, names, values, status)
<1> DEFINE n == Len(values)
           T == Outcomes
           base == Done(w, status)
           keys == [k \in DOMAIN values |-> k]
           Step(all, k) == AssignAllStep(w, names, values, status, all, k)
           G == [p \in T \X (1..n) |-> Step(p[1], p[2])]
           iter == CHOOSE f : AssignAllFold(w, names, values, status, keys, f)
<1>1. AssignAll(w, names, values, status) = iter[DOMAIN keys]
  BY DEF AssignAll, FoldLeft, MapThenFoldSet, AssignAllFold, AssignAllStep
<1>2. n \in Nat /\ DOMAIN keys = 1..n /\ \A k \in 1..n : keys[k] = k
  OBVIOUS
<1>3. \A all \in T : \A k \in 1..n : Step(all, k) \in T
  <2> SUFFICES ASSUME NEW all \in T, NEW k \in 1..n
               PROVE  Step(all, k) \in T
    OBVIOUS
  <2>1. names[k] \in Names /\ values[k] \in Words
    OBVIOUS
  <2>2. all.walker \in Interpreter
    BY DEF Outcomes
  <2>3. 0 \in Indexes
    BY IndexAssumption DEF Indexes
  <2>4. Assigned(all.walker, names[k], values[k], 0) \in Interpreter
    BY <2>1, <2>2, <2>3, AssignedType
  <2>5. Done(Assigned(all.walker, names[k], values[k], 0), status) \in Outcomes
    BY <2>4, DoneType
  <2>6. Thrown(all.walker, InterpreterException) \in Outcomes
    BY <2>2 DEF Thrown, Outcomes
  <2> QED
    BY <2>5, <2>6 DEF AssignAllStep
<1>4. base \in T
  BY DoneType
<1>5. G \in [T \X (1..n) -> T]
  BY <1>3
<1>6. \A all \in T : \A k \in 1..n : G[<<all, k>>] = Step(all, k)
  OBVIOUS
<1> HIDE DEF n, T, keys, G
<1>7. AssignAllFold(w, names, values, status, keys, iter)
  <2>1. PICK f : Folds(f, n, T, base, G)
    BY <1>2, <1>4, <1>5, FoldExists
  <2>2. ASSUME NEW s \in SUBSET (1..n)
        PROVE  f[s] = IF s = {} THEN Done(w, status)
                      ELSE AssignAllStep(w, names, values, status, f[s \ {Max(s)}], keys[Max(s)])
    <3>1. CASE s = {}
      BY <2>1, <3>1 DEF Folds
    <3>2. CASE s # {}
      <4>1. /\ Max(s) \in 1..n /\ f[s \ {Max(s)}] \in T
            /\ f[s] = G[<<f[s \ {Max(s)}], Max(s)>>]
        BY <2>1, <3>2 DEF Folds
      <4>2. f[s] = Step(f[s \ {Max(s)}], Max(s))
        BY <1>6, <4>1
      <4> QED
        BY <1>2, <3>2, <4>1, <4>2
    <3> QED
      BY <3>1, <3>2
  <2>3. f = [s \in SUBSET (1..n) |-> f[s]]
    BY <2>1 DEF Folds
  <2> HIDE DEF Step
  <2>4. f = [s \in SUBSET (DOMAIN keys) |->
               IF s = {} THEN Done(w, status)
               ELSE AssignAllStep(w, names, values, status, f[s \ {Max(s)}], keys[Max(s)])]
    BY <1>2, <2>2, <2>3
  <2> QED
    BY <2>4 DEF AssignAllFold
<1> HIDE DEF iter
<1>8. iter = [s \in SUBSET (1..n) |->
                IF s = {} THEN Done(w, status)
                ELSE AssignAllStep(w, names, values, status, iter[s \ {Max(s)}], keys[Max(s)])]
  BY <1>2, <1>7 DEF AssignAllFold
<1>9. ASSUME NEW i \in 1..n, iter[1..(i - 1)] \in T
      PROVE  iter[1..i] = G[<<iter[1..(i - 1)], i>>]
  <2>1. /\ 1..i \in SUBSET (1..n) /\ 1..i # {}
        /\ Max(1..i) = i /\ (1..i) \ {i} = 1..(i - 1)
    BY <1>2, PrefixFacts
  <2>2. iter[1..i] = AssignAllStep(w, names, values, status, iter[(1..i) \ {Max(1..i)}], keys[Max(1..i)])
    BY <1>8, <2>1
  <2>3. iter[1..i] = Step(iter[1..(i - 1)], i)
    BY <1>2, <2>1, <2>2
  <2> QED
    BY <1>6, <1>9, <2>3
<1>10. iter[{}] = base
  BY <1>8
<1>11. PICK acc \in [0..n -> T] :
          /\ acc[0] = base
          /\ \A i \in 1..n : acc[i] = G[<<acc[i - 1], i>>]
          /\ acc[n] = iter[1..n]
  <2>1. Accumulates(iter, n, T, base, G)
    BY <1>4, <1>5, <1>9, <1>10 DEF Accumulates
  <2> HIDE DEF base, Step
  <2> QED
    BY <1>2, <2>1, FoldPrefixes
<1>12. ASSUME NEW i \in 1..n PROVE acc[i] = AssignAllStep(w, names, values, status, acc[i - 1], i)
  <2>1. i - 1 \in 0..n
    BY <1>2
  <2>2. acc[i] = Step(acc[i - 1], i)
    BY <1>6, <1>11, <2>1
  <2> QED
    BY <2>2
<1>13. iter[1..n] \in T
  BY <1>2, <1>11
<1> QED
  BY <1>1, <1>2, <1>11, <1>12, <1>13 DEF n, T

----------------------------------------------------------------------------
(* Expansions and commands.                                                *)

LEMMA InterpreterFacts ==
  ASSUME NEW w \in Interpreter
  PROVE  /\ \A n \in Names : w.vars[n] \in Variable \cup {None}
         /\ u(w) \in BOOLEAN
         /\ w.status \in {0, 1}
BY DEF Interpreter, u

LEMMA ReadVariable ==
  ASSUME NEW w \in Interpreter, NEW n \in Names, NEW index
  PROVE  resolve(w.vars[n], index, u(w)) \in Read
BY InterpreterFacts, ResolveType DEF Read

LEMMA DelimiterType ==
  ASSUME NEW w \in Interpreter
  PROVE  Delimiter(w) \in Read
<1>1. resolve(w.vars[IFS], 0, u(w)) \in Read
  BY ReadVariable, SpecialNamesAssumption
<1> QED
  BY <1>1, FirstOfType DEF Delimiter, IfRead, Read

LEMMA DecimalType ==
  ASSUME NEW n \in Nat \cup {InterpreterException}
  PROVE  decimal(n) \in Read
<1>1. n # InterpreterException => <<48 + n>> \in Words
  BY WordFacts
<1> QED
  BY <1>1 DEF decimal, Read

LEMMA LengthType ==
  ASSUME NEW var \in Variable \cup {None}, NEW index, NEW u_ \in BOOLEAN
  PROVE  /\ get_length(var, index, u_) \in Nat \cup {InterpreterException}
         /\ ArrayLength(var, u_) \in Nat \cup {InterpreterException}
<1>1. var \in Variable => Len(get_value(var, index)) \in Nat /\ get_array_length(var) \in Nat
  BY GetValueType, GetAllValuesType, WordFacts
<1> QED
  BY <1>1 DEF get_length, ArrayLength

\* Every expansion of the grammar yields a word or throws.
LEMMA ExpansionType ==
  ASSUME NEW w \in Interpreter, NEW e, IsExpansion(e)
  PROVE  Expansion(w, e) \in Read
<1> DEFINE var == w.vars[e.name]
           zero == resolve(w.vars[Zero], 0, u(w))
<1>1. zero \in Read /\ Delimiter(w) \in Read /\ u(w) \in BOOLEAN
  BY ReadVariable, DelimiterType, InterpreterFacts, SpecialNamesAssumption
<1>2. e.how # "word" => var \in Variable \cup {None}
  BY InterpreterFacts DEF IsExpansion
<1> HIDE DEF var, zero
<1>3. CASE e.how = "word"
  BY <1>3 DEF Expansion, IsExpansion, Read
<1>4. ASSUME e.how # "word" PROVE resolve(var, e.index, u(w)) \in Read
  BY <1>1, <1>2, <1>4, ResolveType DEF Read
<1>5. CASE e.how = "value"
  <2>1. Expansion(w, e) = resolve(var, e.index, u(w))
    BY <1>5 DEF Expansion, var
  <2> QED
    BY <1>4, <1>5, <2>1
<1>6. CASE e.how = "default"
  <2>1. Expansion(w, e) = do_default_expansion(IsUnset(w, e), var, e.word, e.index, u(w))
    BY <1>6 DEF Expansion, var
  <2> QED
    BY <1>4, <1>6, <2>1 DEF do_default_expansion, IsExpansion, Read
<1>7. CASE e.how = "alternate"
  <2>1. Expansion(w, e) = do_alternate_expansion(IsUnset(w, e), e.word)
    BY <1>7 DEF Expansion
  <2> QED
    BY <1>7, <2>1, WordFacts DEF do_alternate_expansion, IsExpansion, Read
<1>8. CASE e.how = "substring"
  <2>1. Expansion(w, e) = do_substring_expansion(var, e.offset, e.length, e.index, u(w))
    BY <1>8 DEF Expansion, var
  <2>2. e.offset \in Int /\ e.length \in Int \cup {Whole}
    BY <1>8 DEF IsExpansion
  <2> QED
    BY <1>1, <1>2, <1>8, <2>1, <2>2, SubstringType
<1>9. CASE e.how = "subarray"
  <2> DEFINE starred == e.name = Star
             offset == e.offset
             length == e.length
             delim == Delimiter(w)
             u_ == u(w)
  <2>1. Expansion(w, e) = do_subarray_expansion(var, zero, delim, starred, offset, length, u_)
    BY <1>9 DEF Expansion, var, zero
  <2>2. /\ offset \in Int /\ length \in Int \cup {Whole} /\ starred \in BOOLEAN
        /\ delim \in Read /\ u_ \in BOOLEAN
    BY <1>1, <1>9 DEF IsExpansion
  <2>3. var \in Variable \cup {None}
    BY <1>2, <1>9
  <2> HIDE DEF starred, offset, length, delim, u_
  <2>4. do_subarray_expansion(var, zero, delim, starred, offset, length, u_) \in Read
    BY <1>1, <2>2, <2>3, SubarrayType
  <2> QED
    BY <2>1, <2>4
<1>10. CASE e.how = "length"
  <2>1. Expansion(w, e) = decimal(get_length(var, e.index, u(w)))
    BY <1>10 DEF Expansion, var
  <2> QED
    BY <1>1, <1>2, <1>10, <2>1, LengthType, DecimalType
<1>11. CASE e.how = "array_length"
  <2>1. Expansion(w, e) = decimal(ArrayLength(var, u(w)))
    BY <1>11 DEF Expansion, var
  <2> QED
    BY <1>1, <1>2, <1>11, <2>1, LengthType, DecimalType
<1>12. CASE e.how = "elements"
  <2> DEFINE delim == IF e.colon THEN Delimiter(w) ELSE <<Space>>
  <2>1. Expansion(w, e) = get_all_elements_joined(var, delim, u(w))
    BY <1>12 DEF Expansion, var
  <2>2. <<Space>> \in Words
    BY WordFacts DEF Space
  <2>3. delim \in Read
    BY <1>1, <2>2 DEF Read
  <2> HIDE DEF delim
  <2> QED
    BY <1>1, <1>2, <1>12, <2>1, <2>3, ElementsJoinedType
<1>13. ASSUME e.how \in {"replace", "array_replace"}
       PROVE  e.operator \in Operators /\ e.pattern \in SUBSET Words /\ e.word \in Words
  BY <1>13 DEF IsExpansion, Operators
<1>14. CASE e.how = "replace"
  <2>1. Expansion(w, e) = do_replace_expansion(var, e.operator, e.pattern, e.word, e.index, u(w))
    BY <1>14 DEF Expansion, var
  <2> QED
    BY <1>1, <1>2, <1>13, <1>14, <2>1, ReplaceExpansionType
<1>15. CASE e.how = "array_replace"
  <2>1. Expansion(w, e) = do_array_replace_expansion(var, Delimiter(w), e.operator, e.pattern,
                                                     e.word, u(w))
    BY <1>15 DEF Expansion, var
  <2> QED
    BY <1>1, <1>2, <1>13, <1>15, <2>1, ArrayReplaceType
<1> QED
  BY <1>3, <1>5, <1>6, <1>7, <1>8, <1>9, <1>10, <1>11, <1>12, <1>14, <1>15 DEF IsExpansion

\* The recursion of FlattenSeq.
Flattening(seqs, f) ==
    f = [i \in 1..Len(seqs) |-> IF i = 1 THEN seqs[i] ELSE f[i - 1] \o seqs[i]]

\* FlattenSeq puts one sequence behind the other.
LEMMA FlattenFolds ==
  ASSUME NEW S, NEW seqs \in Seq(Seq(S))
  PROVE  \E flat \in [0..Len(seqs) -> Seq(S)] :
            /\ flat[0] = <<>>
            /\ \A i \in 1..Len(seqs) : flat[i] = flat[i - 1] \o seqs[i]
            /\ FlattenSeq(seqs) = flat[Len(seqs)]
<1> DEFINE n == Len(seqs)
           T == Seq(S)
           G == [p \in T \X (1..n) |-> p[1] \o seqs[p[2]]]
           g == CHOOSE f : Flattening(seqs, f)
<1>1. n \in Nat /\ \A i \in 1..n : seqs[i] \in T
  OBVIOUS
<1>2. FlattenSeq(seqs) = IF n = 0 THEN seqs ELSE g[n]
  BY DEF FlattenSeq, Flattening
<1>3. G \in [T \X (1..n) -> T]
  <2>1. \A w \in T : \A i \in 1..n : w \o seqs[i] \in T
    BY <1>1
  <2> QED
    BY <2>1
<1>4. \A w \in T : \A i \in 1..n : G[<<w, i>>] = w \o seqs[i]
  OBVIOUS
<1>12. <<>> \in T /\ (\A w \in T : <<>> \o w = w)
  OBVIOUS
<1> HIDE DEF n, G, g, T
<1>5. PICK f : Folds(f, n, T, <<>>, G)
  BY <1>1, <1>3, <1>12, FoldExists
<1> DEFINE flat == [i \in 0..n |-> f[1..i]]
<1>6. \A i \in 0..n : 1..i \in SUBSET (1..n)
  BY <1>1
<1>7. flat \in [0..n -> T]
  BY <1>5, <1>6 DEF Folds
<1>8. flat[0] = <<>>
  <2>1. {} \in SUBSET (1..n) /\ 1..0 = {} /\ 0 \in 0..n
    BY <1>1
  <2>2. f[{}] = <<>>
    BY <1>5, <2>1 DEF Folds
  <2> QED
    BY <2>1, <2>2
<1>9. ASSUME NEW i \in 1..n PROVE flat[i] = flat[i - 1] \o seqs[i]
  <2> DEFINE j == i - 1
  <2>1. i \in 0..n /\ j \in 0..n
    BY <1>1
  <2>2. 1..i \in SUBSET (1..n) /\ 1..i # {} /\ Max(1..i) = i /\ (1..i) \ {i} = 1..j
    BY <1>1, PrefixFacts
  <2> HIDE DEF j
  <2>3. f[1..i] = G[<<f[1..j], i>>]
    BY <1>5, <2>2 DEF Folds
  <2>4. flat[i] = f[1..i] /\ flat[j] = f[1..j] /\ flat[j] \in T
    BY <1>7, <2>1
  <2>5. flat[i] = flat[j] \o seqs[i]
    BY <1>4, <2>3, <2>4
  <2> QED
    BY <2>5 DEF j
<1> HIDE DEF flat
<1>10. CASE n = 0
  <2>1. seqs = <<>>
    BY <1>10 DEF n
  <2>2. FlattenSeq(seqs) = flat[n]
    BY <1>2, <1>8, <1>10, <2>1
  <2> QED
    BY <1>7, <1>8, <1>9, <2>2 DEF n, T
<1>11. CASE n # 0
  <2>1. flat[1] = seqs[1]
    <3>1. 1 \in 1..n /\ 1 - 1 = 0
      BY <1>1, <1>11
    <3>2. flat[1] = <<>> \o seqs[1]
      BY <1>8, <1>9, <3>1
    <3> QED
      BY <1>1, <1>12, <3>1, <3>2
  <2> DEFINE e == [i \in 1..n |-> flat[i]]
  <2>2. Flattening(seqs, e)
    <3>1. ASSUME NEW i \in 1..n
          PROVE  flat[i] = IF i = 1 THEN seqs[i] ELSE e[i - 1] \o seqs[i]
      <4>1. CASE i = 1
        BY <2>1, <4>1
      <4>2. CASE i # 1
        <5>1. i - 1 \in 1..n
          BY <1>1, <4>2
        <5>2. e[i - 1] = flat[i - 1]
          BY <5>1
        <5> HIDE DEF e
        <5> QED
          BY <1>9, <4>2, <5>2
      <4> QED
        BY <4>1, <4>2
    <3>2. e = [i \in 1..n |-> IF i = 1 THEN seqs[i] ELSE e[i - 1] \o seqs[i]]
      BY <3>1
    <3> HIDE DEF e
    <3> QED
      BY <3>2 DEF Flattening, n
  <2>3. Flattening(seqs, g)
    BY <2>2 DEF g
  <2>4. \A i \in 1..n : g[i] = IF i = 1 THEN seqs[i] ELSE g[i - 1] \o seqs[i]
    BY <2>3 DEF Flattening, n
  <2> DEFINE Q == {i \in 0..n : i = 0 \/ g[i] = flat[i]}
  <2>5. 0 \in Q
    BY <1>1
  <2>6. ASSUME NEW i \in 0..n, i \in Q, i < n PROVE i + 1 \in Q
    <3> DEFINE k == i + 1
    <3>1. k \in 1..n /\ k \in 0..n /\ k - 1 = i /\ (k = 1 <=> i = 0)
      BY <1>1, <2>6
    <3>2. i = 0 \/ g[i] = flat[i]
      BY <2>6
    <3> HIDE DEF k, Q
    <3>3. g[k] = flat[k]
      <4>1. CASE i = 0
        BY <2>1, <2>4, <3>1, <4>1
      <4>2. CASE i # 0
        BY <1>9, <2>4, <3>1, <3>2, <4>2
      <4> QED
        BY <4>1, <4>2
    <3> QED
      BY <3>1, <3>3 DEF k, Q
  <2>7. n \in Q
    <3> HIDE DEF Q
    <3> QED
      BY <1>1, <2>5, <2>6, CountUp
  <2>8. FlattenSeq(seqs) = flat[n]
    BY <1>2, <1>11, <2>7
  <2> QED
    BY <1>7, <1>8, <1>9, <2>8 DEF n, T
<1> QED
  BY <1>10, <1>11

LEMMA FlattenTwo ==
  ASSUME NEW S, NEW seqs \in Seq(Seq(S)), Len(seqs) = 2
  PROVE  FlattenSeq(seqs) = seqs[1] \o seqs[2]
<1>1. PICK flat \in [0..Len(seqs) -> Seq(S)] :
         /\ flat[0] = <<>>
         /\ \A i \in 1..Len(seqs) : flat[i] = flat[i - 1] \o seqs[i]
         /\ FlattenSeq(seqs) = flat[Len(seqs)]
  BY FlattenFolds
<1>2. <<>> \o seqs[1] = seqs[1]
  <2>1. 1 \in 1..Len(seqs)
    OBVIOUS
  <2>2. seqs[1] \in Seq(S)
    BY <2>1, ElementOfSeq
  <2> QED
    BY <2>2, ConcatEmptySeq
<1>3. 1 \in 1..Len(seqs) /\ 2 \in 1..Len(seqs) /\ 1 - 1 = 0 /\ 2 - 1 = 1
  OBVIOUS
<1>4. flat[1] = flat[0] \o seqs[1] /\ flat[2] = flat[1] \o seqs[2]
  BY <1>1, <1>3
<1> QED
  BY <1>1, <1>2, <1>4

LEMMA FlattenThree ==
  ASSUME NEW S, NEW seqs \in Seq(Seq(S)), Len(seqs) = 3
  PROVE  FlattenSeq(seqs) = (seqs[1] \o seqs[2]) \o seqs[3]
<1>1. PICK flat \in [0..Len(seqs) -> Seq(S)] :
         /\ flat[0] = <<>>
         /\ \A i \in 1..Len(seqs) : flat[i] = flat[i - 1] \o seqs[i]
         /\ FlattenSeq(seqs) = flat[Len(seqs)]
  BY FlattenFolds
<1>2. <<>> \o seqs[1] = seqs[1]
  <2>1. 1 \in 1..Len(seqs)
    OBVIOUS
  <2>2. seqs[1] \in Seq(S)
    BY <2>1, ElementOfSeq
  <2> QED
    BY <2>2, ConcatEmptySeq
<1>3. /\ {1, 2, 3} \subseteq 1..Len(seqs)
      /\ 1 - 1 = 0 /\ 2 - 1 = 1 /\ 3 - 1 = 2
  OBVIOUS
<1>4. /\ flat[1] = flat[0] \o seqs[1]
      /\ flat[2] = flat[1] \o seqs[2]
      /\ flat[3] = flat[2] \o seqs[3]
  BY <1>1, <1>3
<1> QED
  BY <1>1, <1>2, <1>4

\* What one expansion gives to a command.
LEMMA ArgumentType ==
  ASSUME NEW w \in Interpreter, NEW e, IsExpansion(e)
  PROVE  argument(w, e) \in Seq(Words) \cup {InterpreterException}
<1> DEFINE value == Expansion(w, e)
           delimeter == resolve(w.vars[IFS], 0, u(w))
<1>1. value \in Read /\ delimeter \in Read
  BY ExpansionType, ReadVariable, SpecialNamesAssumption
<1>2. argument(w, e)
        = IF value = InterpreterException THEN value
          ELSE IF value = Empty THEN <<>>
          ELSE IF e.quoted THEN <<value>>
          ELSE IF delimeter = InterpreterException THEN delimeter
          ELSE split_word(value, delimeter)
  BY DEF argument, IfRead
<1> HIDE DEF value, delimeter
<1>3. (value # InterpreterException /\ delimeter # InterpreterException)
        => split_word(value, delimeter) \in Seq(Words)
  BY <1>1, SplitWordType DEF Read
<1>4. value # InterpreterException => <<value>> \in Seq(Words)
  BY <1>1 DEF Read
<1>5. <<>> \in Seq(Words)
  OBVIOUS
<1> QED
  BY <1>2, <1>3, <1>4, <1>5, Zenon

LEMMA ArgumentsType ==
  ASSUME NEW w \in Interpreter, NEW es, AreArguments(es)
  PROVE  Arguments(w, es) \in Seq(Words) \cup {InterpreterException}
<1> DEFINE args == [k \in DOMAIN es |-> argument(w, es[k])]
<1> SUFFICES ASSUME \A k \in DOMAIN es : args[k] # InterpreterException
             PROVE  FlattenSeq(args) \in Seq(Words)
  BY DEF Arguments
<1>1. Len(es) \in Nat /\ DOMAIN es = 1..Len(es)
  BY DEF AreArguments, IsList
<1>2. ASSUME NEW k \in DOMAIN es PROVE args[k] \in Seq(Words)
  <2>1. es[k] \in ToSet(es)
    BY DEF ToSet
  <2>2. argument(w, es[k]) \in Seq(Words) \cup {InterpreterException}
    BY <2>1, ArgumentType DEF AreArguments
  <2> QED
    BY <2>2
<1> DEFINE T == Seq(Words)
<1>3. args \in [1..Len(es) -> T]
  BY <1>1, <1>2
<1> HIDE DEF args, T
<1>4. args \in Seq(T) /\ Len(args) \in Nat
  BY <1>1, <1>3
<1>5. PICK flat \in [0..Len(args) -> T] : FlattenSeq(args) = flat[Len(args)]
  BY <1>4, FlattenFolds DEF T
<1> QED
  BY <1>4, <1>5 DEF T

\* How a command ends: with one of the exceptions, or in a state of an interpreter.
Ends(outcome) ==
    /\ outcome.thrown \in {None, InterpreterException, OtherException}
    /\ outcome.thrown = None => outcome.walker \in Interpreter

LEMMA DoneEnds ==
  ASSUME NEW w \in Interpreter, NEW status \in {0, 1}
  PROVE  Ends(Done(w, status))
BY DoneType DEF Ends, Outcomes

LEMMA ThrownEnds ==
  ASSUME NEW w, NEW exception \in {InterpreterException, OtherException}
  PROVE  Ends(Thrown(w, exception))
BY ExceptionsAssumption DEF Ends, Thrown

LEMMA OutcomeEnds ==
  ASSUME NEW outcome \in Outcomes
  PROVE  Ends(outcome)
BY DEF Ends, Outcomes


----------------------------------------------------------------------------
(* The commands.                                                           *)

LEMMA ReplacedVariableEnds ==
  ASSUME NEW w \in Interpreter, NEW n \in Names, NEW var \in Variable, NEW status \in {0, 1}
  PROVE  Ends(Done([w EXCEPT !.vars[n] = var], status))
BY WithVar, DoneEnds

LEMMA AssignEnds ==
  ASSUME NEW w \in Interpreter, NEW name \in Names, NEW index \in Indexes, NEW e, IsExpansion(e)
  PROVE  Ends(assign(w, name, index, e))
<1> DEFINE value == Expansion(w, e)
<1>1. value \in Read
  BY ExpansionType
<1>2. assign(w, name, index, e)
        = IF value = InterpreterException \/ is_readonly(w, name)
          THEN Thrown(w, InterpreterException)
          ELSE Done(Assigned(w, name, value, index), w.status)
  BY DEF assign
<1> HIDE DEF value
<1>3. value # InterpreterException => Ends(Done(Assigned(w, name, value, index), w.status))
  BY <1>1, AssignedType, DoneEnds, InterpreterFacts DEF Read
<1>4. Ends(Thrown(w, InterpreterException))
  BY ThrownEnds
<1> QED
  BY <1>2, <1>3, <1>4

LEMMA AssignListEnds ==
  ASSUME NEW w \in Interpreter, NEW name \in Names, NEW words \in Seq(Words)
  PROVE  Ends(assign_list(w, name, words))
<1>1. ListFrom(0, words) \in Variable
  BY ListFromType
<1> QED
  BY <1>1, InterpreterFacts, ReplacedVariableEnds DEF assign_list

LEMMA DefineFunctionEnds ==
  ASSUME NEW w \in Interpreter, NEW name \in FunctionNames, NEW spelled
  PROVE  Ends(define_function(w, name, spelled))
<1>1. [w EXCEPT !.functions = @ \cup {name}] \in Interpreter
  BY DEF Interpreter
<1>2. Ends(Done([w EXCEPT !.functions = @ \cup {name}], w.status))
  BY <1>1, DoneEnds, InterpreterFacts
<1>3. Ends(Thrown(w, InterpreterException))
  BY ThrownEnds
<1> QED
  BY <1>2, <1>3 DEF define_function

LEMMA SetEnds ==
  ASSUME NEW w \in Interpreter, NEW args \in Seq(Words)
  PROVE  Ends(set(w, args))
<1> DEFINE sign == args[1][1]
           letter == args[1][2]
           list == Done([w EXCEPT !.vars[Star] = ListFrom(1, Tail(args))], 0)
           options == IF sign = Minus THEN w.options \cup {Letter_u} ELSE w.options \ {Letter_u}
           option == Done([w EXCEPT !.options = options], 0)
<1>1. args # <<>> => Ends(list)
  <2> SUFFICES ASSUME args # <<>> PROVE Ends(list)
    OBVIOUS
  <2> DEFINE rest == Tail(args)
  <2>1. rest \in Seq(Words)
    OBVIOUS
  <2> HIDE DEF rest
  <2>2. ListFrom(1, rest) \in Variable
    BY <2>1, ListFromType
  <2>3. list = Done([w EXCEPT !.vars[Star] = ListFrom(1, rest)], 0)
    BY DEF rest
  <2> HIDE DEF list
  <2> QED
    BY <2>2, <2>3, ReplacedVariableEnds, SpecialNamesAssumption
<1>2. Ends(option)
  <2>1. options \in SUBSET OptionLetters
    BY DEF Interpreter, Letter_u, OptionLetters
  <2> HIDE DEF options
  <2>2. [w EXCEPT !.options = options] \in Interpreter
    BY <2>1 DEF Interpreter
  <2> QED
    BY <2>2, DoneEnds
<1>3. Ends(Thrown(w, InterpreterException))
  BY ThrownEnds
<1>4. set(w, args)
        = IF args = <<>> THEN Thrown(w, InterpreterException)
          ELSE IF Len(args[1]) < 2 \/ sign \notin {Minus, 43} THEN Thrown(w, InterpreterException)
          ELSE IF letter = Minus /\ sign = Minus THEN list
          ELSE IF letter \in {97, 98, 101, 102, 104, 107, 109, 110, 112, 116, Letter_u} THEN option
          ELSE Thrown(w, InterpreterException)
  BY DEF set
<1> HIDE DEF list, option, sign, letter
<1> QED
  BY <1>1, <1>2, <1>3, <1>4, ZenonT(60)

LEMMA SetBuiltinEnds ==
  ASSUME NEW w \in Interpreter, NEW es, AreArguments(es)
  PROVE  Ends(set_builtin(w, es))
<1> DEFINE args == Arguments(w, es)
<1>1. args \in Seq(Words) \cup {InterpreterException}
  BY ArgumentsType
<1>2. set_builtin(w, es) = IF args = InterpreterException THEN Thrown(w, args) ELSE set(w, args)
  BY DEF set_builtin
<1> HIDE DEF args
<1>3. args # InterpreterException => Ends(set(w, args))
  BY <1>1, SetEnds
<1>4. Ends(Thrown(w, InterpreterException))
  BY ThrownEnds
<1> QED
  BY <1>2, <1>3, <1>4, Zenon

LEMMA ShoptEnds ==
  ASSUME NEW w \in Interpreter, NEW letter, NEW names, IsList(names)
  PROVE  Ends(shopt(w, letter, names))
<1> DEFINE wrong == {k \in DOMAIN names : names[k] \notin ShoptNames}
           applied == IF wrong = {} THEN names ELSE SubSeq(names, 1, Min(wrong) - 1)
           changed == CASE letter = "s" -> [w EXCEPT !.additional = @ \cup ToSet(applied)]
                        [] letter = "u" -> [w EXCEPT !.additional = @ \ ToSet(applied)]
                        [] letter = "p" -> [w EXCEPT !.listed = @ \cup ShoptNames]
<1>1. ASSUME letter \in {"s", "u"}, wrong = {} PROVE changed \in Interpreter
  <2>1. ToSet(names) \subseteq ShoptNames
    BY <1>1 DEF ToSet
  <2>2. applied = names
    BY <1>1
  <2>3. /\ w.additional \cup ToSet(applied) \in SUBSET ShoptNames
        /\ w.additional \ ToSet(applied) \in SUBSET ShoptNames
    BY <2>1, <2>2 DEF Interpreter
  <2> HIDE DEF applied, wrong
  <2>4. CASE letter = "s"
    BY <2>3, <2>4 DEF Interpreter
  <2>5. CASE letter = "u"
    BY <2>3, <2>5 DEF Interpreter
  <2> QED
    BY <1>1, <2>4, <2>5
<1>2. ASSUME letter = "p" PROVE changed \in Interpreter
  BY <1>2 DEF Interpreter
<1>3. shopt(w, letter, names)
        = IF letter \notin {"s", "u", "p"} THEN Thrown(w, InterpreterException)
          ELSE IF letter # "p" /\ wrong # {} THEN Thrown(changed, InterpreterException)
          ELSE Done(changed, 0)
  BY DEF shopt
<1> HIDE DEF changed, wrong
<1>4. Ends(Thrown(w, InterpreterException)) /\ Ends(Thrown(changed, InterpreterException))
  BY ThrownEnds
<1>5. changed \in Interpreter => Ends(Done(changed, 0))
  BY DoneEnds
<1> QED
  BY <1>1, <1>2, <1>3, <1>4, <1>5

LEMMA ListedType ==
  ASSUME NEW w \in Interpreter, NEW names, names \subseteq Names \cup FunctionNames
  PROVE  [w EXCEPT !.listed = @ \cup names] \in Interpreter
BY DEF Interpreter

LEMMA DeclareFEnds ==
  ASSUME NEW w \in Interpreter, NEW names
  PROVE  Ends(declare_F(w, names))
<1> DEFINE known == ToSet(names) \cap w.functions
           status == IF ToSet(names) \subseteq w.functions THEN 0 ELSE 1
<1>1. w.functions \subseteq Names \cup FunctionNames /\ known \subseteq Names \cup FunctionNames
  BY DEF Interpreter
<1>2. status \in {0, 1}
  OBVIOUS
<1>3. declare_F(w, names)
        = IF names = <<>> THEN Done([w EXCEPT !.listed = @ \cup w.functions], 0)
          ELSE Done([w EXCEPT !.listed = @ \cup known], status)
  BY DEF declare_F
<1> HIDE DEF known, status
<1>4. Ends(Done([w EXCEPT !.listed = @ \cup w.functions], 0))
  BY <1>1, ListedType, DoneEnds
<1>5. Ends(Done([w EXCEPT !.listed = @ \cup known], status))
  BY <1>1, <1>2, ListedType, DoneEnds
<1> QED
  BY <1>3, <1>4, <1>5

LEMMA DeclarePEnds ==
  ASSUME NEW w \in Interpreter, NEW names, ToSet(names) \subseteq Names
  PROVE  Ends(declare_p(w, names))
<1> DEFINE unset == {n \in ToSet(names) : w.vars[n] = None}
           throws == \E n \in ToSet(names) \ unset :
                         resolve(w.vars[n], 0, u(w)) = InterpreterException
           status == IF unset = {} THEN 0 ELSE 1
<1>1. status \in {0, 1}
  OBVIOUS
<1>2. declare_p(w, names)
        = IF names = <<>> \/ throws THEN Thrown(w, InterpreterException)
          ELSE Done([w EXCEPT !.listed = @ \cup ToSet(names)], status)
  BY DEF declare_p
<1> HIDE DEF throws, status
<1>3. Ends(Done([w EXCEPT !.listed = @ \cup ToSet(names)], status))
  BY <1>1, ListedType, DoneEnds
<1>4. Ends(Thrown(w, InterpreterException))
  BY ThrownEnds
<1> QED
  BY <1>2, <1>3, <1>4

LEMMA TestEnds ==
  ASSUME NEW w \in Interpreter, NEW t
  PROVE  Ends(Test(w, t))
<1> DEFINE holds == IF t.binary THEN test_binary(t.operator, t.lhs, t.rhs)
                    ELSE test_unary(t.operator, t.lhs.word, t.lhs.tty, t.lhs)
           status == IF holds THEN 0 ELSE 1
<1>1. status \in {0, 1}
  OBVIOUS
<1>2. Test(w, t) = IF holds = InterpreterException THEN Thrown(w, holds) ELSE Done(w, status)
  BY DEF Test
<1> HIDE DEF holds, status
<1>3. Ends(Done(w, status))
  BY <1>1, DoneEnds
<1>4. Ends(Thrown(w, InterpreterException))
  BY ThrownEnds
<1> QED
  BY <1>2, <1>3, <1>4


LEMMA WrittenType ==
  ASSUME NEW w \in Interpreter, NEW text \in Words
  PROVE  [w EXCEPT !.output = @ \o text] \in Interpreter
<1>1. w.output \o text \in Seq(Nat)
  BY WordsAreCodes DEF Interpreter
<1> QED
  BY <1>1 DEF Interpreter

LEMMA EchoEnds ==
  ASSUME NEW w \in Interpreter, NEW es, AreArguments(es)
  PROVE  Ends(echo_builtin(w, es))
<1> DEFINE args == Arguments(w, es)
<1>1. args = InterpreterException \/ args \in Seq(Words)
  BY ArgumentsType
<1>2. echo_builtin(w, es) = IF args = InterpreterException THEN Thrown(w, args)
                            ELSE Done([w EXCEPT !.output = @ \o echo(args)], 0)
  BY DEF echo_builtin
<1> HIDE DEF args
<1>3. ASSUME args \in Seq(Words)
      PROVE  Ends(Done([w EXCEPT !.output = @ \o echo(args)], 0))
  <2> DEFINE text == echo(args)
  <2>1. text \in Words
    BY <1>3, EchoType
  <2> HIDE DEF text
  <2>2. Ends(Done([w EXCEPT !.output = @ \o text], 0))
    BY <2>1, WrittenType, DoneEnds
  <2> QED
    BY <2>2 DEF text
<1>4. Ends(Thrown(w, InterpreterException))
  BY ThrownEnds
<1> QED
  BY <1>1, <1>2, <1>3, <1>4, Zenon

LEMMA PrintfEnds ==
  ASSUME NEW w \in Interpreter, NEW es, AreArguments(es), NEW name \in Names
  PROVE  Ends(printf_builtin(w, es, name))
<1> DEFINE args == Arguments(w, es)
           output == IF args = InterpreterException THEN args
                     ELSE IF args = <<>> THEN OtherException
                     ELSE printf(args)
<1>1. args \in Seq(Words) \cup {InterpreterException}
  BY ArgumentsType
<1>2. output \in Words \cup {InterpreterException, OtherException}
  <2> HIDE DEF args
  <2>1. (args # InterpreterException /\ args # <<>>)
          => printf(args) \in Words \cup {InterpreterException, OtherException}
    BY <1>1, PrintfType
  <2> QED
    BY <2>1
<1>3. printf_builtin(w, es, name)
        = IF output \in {InterpreterException, OtherException} THEN Thrown(w, output)
          ELSE IF args[1] = dash_v THEN AssignAll(w, <<name>>, <<output>>, 0)
          ELSE Done([w EXCEPT !.output = @ \o output], 0)
  BY DEF printf_builtin
<1> HIDE DEF args, output
<1>4. ASSUME output \in Words
      PROVE  /\ Ends(AssignAll(w, <<name>>, <<output>>, 0))
             /\ Ends(Done([w EXCEPT !.output = @ \o output], 0))
  <2> DEFINE names == <<name>>
             values == <<output>>
  <2>1. names \in Seq(Names) /\ values \in Seq(Words) /\ Len(values) <= Len(names)
    BY <1>4
  <2> HIDE DEF names, values
  <2>2. AssignAll(w, names, values, 0) \in Outcomes
    BY <2>1, AssignAllUnfolds
  <2>3. Ends(AssignAll(w, names, values, 0))
    BY <2>2, OutcomeEnds
  <2>4. Ends(Done([w EXCEPT !.output = @ \o output], 0))
    BY <1>4, WrittenType, DoneEnds
  <2> QED
    BY <2>3, <2>4 DEF names, values
<1>5. \A exception \in {InterpreterException, OtherException} : Ends(Thrown(w, exception))
  BY ThrownEnds
<1> QED
  BY <1>2, <1>3, <1>4, <1>5

LEMMA ReadEnds ==
  ASSUME NEW w \in Interpreter, NEW args \in Seq(Names)
  PROVE  Ends(read_builtin(w, args))
<1> DEFINE names == IF args = <<>> THEN <<REPLY>> ELSE args
           got == read(names, w.input)
           ahead == [w EXCEPT !.input = got.rest]
<1>1. names \in Seq(Names)
  BY SpecialNamesAssumption
<1> HIDE DEF names
<1>2. w.input \in Seq(Seq(Nat))
  BY DEF Interpreter
<1>3. /\ got.values \in Seq(Words) /\ Len(got.values) <= Len(names)
      /\ got.rest \in Seq(Seq(Nat)) /\ got.status \in {0, 1}
  BY <1>1, <1>2, ReadType
<1> HIDE DEF got
<1>4. ahead \in Interpreter
  BY <1>3 DEF Interpreter
<1> HIDE DEF ahead
<1> DEFINE values == got.values
           status == got.status
<1>5. values \in Seq(Words) /\ Len(values) <= Len(names) /\ status \in {0, 1}
  BY <1>3
<1>6. read_builtin(w, args) = IF got.suppressed THEN Thrown(ahead, OtherException)
                              ELSE AssignAll(ahead, names, values, status)
  BY DEF read_builtin, names, got, ahead
<1> HIDE DEF values, status
<1>7. AssignAll(ahead, names, values, status) \in Outcomes
  BY <1>1, <1>4, <1>5, AssignAllUnfolds
<1>8. Ends(AssignAll(ahead, names, values, status))
  BY <1>7, OutcomeEnds
<1>9. Ends(Thrown(ahead, OtherException))
  BY ThrownEnds
<1> QED
  BY <1>6, <1>8, <1>9

\* Whatever a well-formed command does, it ends in a state of an interpreter, or
\* with an exception of one of the two classes (cppbash_builtin::exec and the
\* handlers of the walker): no command leaves a variable, an option, the streams
\* or the status behind that is none.
THEOREM CommandsEnd ==
  ASSUME NEW w \in Interpreter, NEW c, IsCommand(c)
  PROVE  Ends(Execute(w, c))
<1> DEFINE outcome == Execute(w, c)
<1>1. CASE c.kind = "assign"
  <2>1. outcome = assign(w, c.name, c.index, c.value)
    BY <1>1 DEF Execute
  <2> QED
    BY <1>1, <2>1, AssignEnds DEF IsCommand
<1>2. CASE c.kind = "list"
  <2>1. outcome = assign_list(w, c.name, c.words)
    BY <1>2 DEF Execute
  <2> QED
    BY <1>2, <2>1, AssignListEnds DEF IsCommand
<1>4. CASE c.kind = "function"
  <2>1. outcome = define_function(w, c.name, c.spelled)
    BY <1>4 DEF Execute
  <2> QED
    BY <1>4, <2>1, DefineFunctionEnds DEF IsCommand
<1>5. CASE c.kind = "set"
  <2>1. outcome = set_builtin(w, c.args)
    BY <1>5 DEF Execute
  <2> QED
    BY <1>5, <2>1, SetBuiltinEnds DEF IsCommand
<1>6. CASE c.kind = "shopt"
  <2>1. outcome = shopt(w, c.option, c.names)
    BY <1>6 DEF Execute
  <2> QED
    BY <1>6, <2>1, ShoptEnds DEF IsCommand
<1>7. CASE c.kind = "declare -F"
  <2>1. outcome = declare_F(w, c.names)
    BY <1>7 DEF Execute
  <2> QED
    BY <1>7, <2>1, DeclareFEnds
<1>8. CASE c.kind = "declare -p"
  <2>1. outcome = declare_p(w, c.names)
    BY <1>8 DEF Execute
  <2> QED
    BY <1>8, <2>1, DeclarePEnds DEF IsCommand
<1>9. CASE c.kind = "echo"
  <2>1. outcome = echo_builtin(w, c.args)
    BY <1>9 DEF Execute
  <2> QED
    BY <1>9, <2>1, EchoEnds DEF IsCommand
<1>10. CASE c.kind = "printf"
  <2>1. outcome = printf_builtin(w, c.args, c.name)
    BY <1>10 DEF Execute
  <2> QED
    BY <1>10, <2>1, PrintfEnds DEF IsCommand
<1>11. CASE c.kind = "read"
  <2>1. outcome = read_builtin(w, c.names)
    BY <1>11 DEF Execute
  <2> QED
    BY <1>11, <2>1, ReadEnds DEF IsCommand
<1>12. CASE c.kind = "test"
  <2>1. outcome = Test(w, c.test)
    BY <1>12 DEF Execute
  <2> QED
    BY <1>12, <2>1, TestEnds
<1>13. CASE c.kind = "jump"
  <2>1. outcome = Thrown(w, OtherException)
    BY <1>13 DEF Execute
  <2> QED
    BY <1>13, <2>1, ThrownEnds
<1> QED
  BY <1>1, <1>2, <1>4, <1>5, <1>6, <1>7, <1>8, <1>9, <1>10, <1>11, <1>12, <1>13, Zenon
     DEF IsCommand

\* The constructor makes one: its options, $- and IFS.
LEMMA InterpreterType ==
  ASSUME NEW lines \in Seq(Seq(Nat))
  PROVE  interpreter(lines) \in Interpreter
<1> DEFINE dash == get_options(OptionDefaults)
           ifs == <<32, 9, Newline>>
           vs == [n \in Names |-> CASE n = IFS -> Scalar(ifs, FALSE, 0)
                                    [] n = Dash -> Scalar(dash, FALSE, 0)
                                    [] OTHER -> None]
<1>1. dash \in Words
  <2>1. OptionDefaults \in SUBSET (0..120) /\ 120 \in Nat
    BY DEF OptionDefaults
  <2>2. /\ Cardinality(OptionDefaults) \in Nat
        /\ Ascending(OptionDefaults) \in [1..Cardinality(OptionDefaults) -> OptionDefaults]
    BY <2>1, AscendingType
  <2>3. OptionDefaults \subseteq Nat
    BY DEF OptionDefaults
  <2>4. Ascending(OptionDefaults) \in [1..Cardinality(OptionDefaults) -> Nat]
    BY <2>2, <2>3
  <2> DEFINE letters == Ascending(OptionDefaults)
             n == Cardinality(OptionDefaults)
  <2>5. n \in Nat /\ letters \in [1..n -> Nat]
    BY <2>2, <2>4
  <2> HIDE DEF letters, n
  <2>6. letters \in Seq(Nat)
    BY <2>5
  <2>7. dash = letters
    BY DEF get_options, letters
  <2> HIDE DEF dash
  <2> QED
    BY <2>6, <2>7, WordFacts
<1>2. ifs \in Words
  BY WordFacts DEF Newline
<1>3. 0 \in Indexes
  BY IndexAssumption DEF Indexes
<1> HIDE DEF dash, ifs
<1>4. Scalar(ifs, FALSE, 0) \in Variable /\ Scalar(dash, FALSE, 0) \in Variable
  BY <1>1, <1>2, <1>3, ScalarType
<1>5. vs \in [Names -> Variable \cup {None}]
  BY <1>4
<1>6. interpreter(lines)
        = [vars |-> vs, functions |-> {}, options |-> OptionDefaults,
           additional |-> ShoptDefaults, input |-> lines, output |-> Empty, listed |-> {},
           status |-> 0]
  BY DEF interpreter, dash, ifs
<1> HIDE DEF vs
<1>7. OptionDefaults \in SUBSET OptionLetters /\ ShoptDefaults \in SUBSET ShoptNames
  BY ShoptAssumption DEF OptionDefaults, OptionLetters
<1>8. Empty \in Seq(Nat)
  BY WordsAreCodes
<1> QED
  BY <1>5, <1>6, <1>7, <1>8 DEF Interpreter
=============================================================================
