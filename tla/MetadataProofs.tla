--------------------------- MODULE MetadataProofs ---------------------------
(* The proof of CacheMatchesEbuild: runs of characters that are no blanks, *)
(* the list a line is gathered into, the order of a set, what a command    *)
(* gives to a variable, what a script has said so far, and the jobs and    *)
(* the files that go with it.                                              *)
EXTENDS TextProofs

----------------------------------------------------------------------------
(* The words of a line.                                                    *)

\* The run at i goes on to its end e.
LEMMA RunEnds ==
  ASSUME NEW word \in Words, NEW seps, NEW i \in RunStarts(word, seps)
  PROVE  \E e \in i..Len(word) : EndsRun(RunAt(word, seps, i), word, seps, i, e, Len(word))
<1> DEFINE end == Len(word)
           ends == {j \in i..end : word[j] \in seps} \cup {end + 1}
           m == Min(ends)
<1>1. end \in Nat /\ i \in 1..end /\ word[i] \notin seps
  BY StartsFacts
<1>2. ends \subseteq Nat /\ ends # {}
  BY <1>1
<1>3. m \in ends /\ \A y \in ends : m <= y
  <2> HIDE DEF ends
  <2> QED
    BY <1>2, MinFacts
<1>4. RunAt(word, seps, i) = SubSeq(word, i, m - 1)
  BY DEF RunAt
<1> HIDE DEF m
<1>5. m \in Nat /\ m # i /\ m \in i..(end + 1) /\ (m # end + 1 => word[m] \in seps)
  BY <1>1, <1>3
<1>6. m - 1 \in i..end /\ (m - 1) + 1 = m /\ (m - 1 < end => m # end + 1)
  BY <1>1, <1>5
<1>7. ASSUME NEW k \in i..(m - 1) PROVE word[k] \notin seps
  <2>1. k \in i..end /\ ~(m <= k)
    BY <1>1, <1>5
  <2> QED
    BY <1>3, <2>1
<1>8. EndsRun(RunAt(word, seps, i), word, seps, i, m - 1, end)
  BY <1>4, <1>5, <1>6, <1>7 DEF EndsRun
<1> QED
  BY <1>6, <1>8

\* A run has one end.
LEMMA RunIsOne ==
  ASSUME NEW word \in Words, NEW seps, NEW i \in RunStarts(word, seps),
         NEW e \in i..Len(word), NEW chars, EndsRun(chars, word, seps, i, e, Len(word))
  PROVE  RunAt(word, seps, i) = chars
<1>1. PICK d \in i..Len(word) : EndsRun(RunAt(word, seps, i), word, seps, i, d, Len(word))
  BY RunEnds
<1>2. Len(word) \in Nat /\ i \in 1..Len(word)
  BY StartsFacts
<1>3. ~(d < e)
  <2> SUFFICES ASSUME d < e PROVE FALSE
    OBVIOUS
  <2>1. d + 1 \in i..e /\ d < Len(word)
    BY <1>2
  <2> QED
    BY <1>1, <2>1 DEF EndsRun
<1>4. ~(e < d)
  <2> SUFFICES ASSUME e < d PROVE FALSE
    OBVIOUS
  <2>1. e + 1 \in i..d /\ e < Len(word)
    BY <1>2
  <2> QED
    BY <1>1, <2>1 DEF EndsRun
<1>5. d = e
  BY <1>2, <1>3, <1>4
<1> QED
  BY <1>1, <1>5 DEF EndsRun

\* A word without separators that is not empty.
Solid(w, seps) == w \in Words /\ w # Empty /\ \A i \in 1..Len(w) : w[i] \notin seps

\* The runs of a word, each at the rank of its start.
LEMMA RunsByRank ==
  ASSUME NEW word \in Words, NEW seps
  PROVE  LET starts == RunStarts(word, seps)
             runs == Runs(word, seps)
         IN /\ DOMAIN runs = 1..Cardinality(starts) /\ Cardinality(starts) \in Nat
            /\ \A i \in starts : /\ Rank(starts, i) \in 1..Cardinality(starts)
                                 /\ runs[Rank(starts, i)] = RunAt(word, seps, i)
            /\ \A k \in 1..Cardinality(starts) : \E i \in starts :
                  Rank(starts, i) = k /\ runs[k] = RunAt(word, seps, i)
<1> DEFINE starts == RunStarts(word, seps)
           n == Cardinality(starts)
           A == Ascending(starts)
<1>1. starts \in SUBSET (0..Len(word)) /\ Len(word) \in Nat /\ \A i \in starts : i \in Nat
  BY StartsFacts
<1>2. /\ n \in Nat /\ \A i \in starts : Rank(starts, i) \in 1..n
      /\ \A i, j \in starts : i < j => Rank(starts, i) < Rank(starts, j)
  BY RanksOfStarts
<1>3. A \in [1..n -> starts] /\ \A k \in 1..n : Rank(starts, A[k]) = k
  <2> HIDE DEF starts
  <2> QED
    BY <1>1, AscendingRank
<1>4. Runs(word, seps) = [k \in 1..n |-> RunAt(word, seps, A[k])]
  BY DEF Runs
<1> HIDE DEF starts, n, A
<1>5. ASSUME NEW i \in starts
      PROVE  Rank(starts, i) \in 1..n /\ Runs(word, seps)[Rank(starts, i)] = RunAt(word, seps, i)
  <2> DEFINE k == Rank(starts, i)
             j == A[k]
  <2>1. k \in 1..n
    BY <1>2
  <2> HIDE DEF k
  <2>2. j \in starts /\ Rank(starts, j) = k
    BY <1>3, <2>1
  <2>3. j = i
    <3>0. Rank(starts, i) = k
      BY DEF k
    <3> HIDE DEF j
    <3>1. i \in Nat /\ j \in Nat /\ Rank(starts, i) = k /\ k \in Nat
      BY <1>1, <1>2, <2>1, <2>2, <3>0
    <3>2. ~(i < j) /\ ~(j < i)
      <4>1. i < j => Rank(starts, i) < Rank(starts, j)
        BY <1>2, <2>2
      <4>2. j < i => Rank(starts, j) < Rank(starts, i)
        BY <1>2, <2>2
      <4>3. ~(k < k)
        BY <3>1
      <4> QED
        BY <2>2, <3>1, <4>1, <4>2, <4>3
    <3> QED
      BY <3>1, <3>2
  <2> QED
    BY <1>4, <2>1, <2>3 DEF k
<1>6. ASSUME NEW k \in 1..n
      PROVE  \E i \in starts : Rank(starts, i) = k /\ Runs(word, seps)[k] = RunAt(word, seps, i)
  BY <1>3, <1>4
<1>7. DOMAIN Runs(word, seps) = 1..n
  BY <1>4
<1> QED
  BY <1>2, <1>5, <1>6, <1>7 DEF starts, n

\* They are words without separators.
LEMMA RunsAreSolid ==
  ASSUME NEW word \in Words, NEW seps
  PROVE  /\ Runs(word, seps) \in Seq(Words)
         /\ \A k \in 1..Len(Runs(word, seps)) : Solid(Runs(word, seps)[k], seps)
<1> DEFINE starts == RunStarts(word, seps)
           runs == Runs(word, seps)
           n == Cardinality(starts)
<1>1. /\ DOMAIN runs = 1..n /\ n \in Nat
      /\ \A k \in 1..n : \E i \in starts : runs[k] = RunAt(word, seps, i)
  BY RunsByRank
<1>2. ASSUME NEW i \in starts PROVE Solid(RunAt(word, seps, i), seps)
  <2>1. PICK e \in i..Len(word) : EndsRun(RunAt(word, seps, i), word, seps, i, e, Len(word))
    BY RunEnds
  <2>2. Len(word) \in Nat /\ i \in 1..Len(word) /\ word \in Seq(Nat) /\ Empty = <<>>
    BY StartsFacts, WordFacts, WordsAreCodes
  <2> DEFINE r == RunAt(word, seps, i)
             l == e - i + 1
  <2>3. /\ r \in Seq(Nat) /\ Len(r) = l
        /\ \A m \in 1..l : r[m] = word[i + m - 1]
    <3>1. \A m \in i..e : word[m] \in Nat
      BY <2>2
    <3>2. /\ SubSeq(word, i, e) \in Seq(Nat)
          /\ Len(SubSeq(word, i, e)) = IF i <= e THEN e - i + 1 ELSE 0
          /\ \A m \in 1..(e - i + 1) : SubSeq(word, i, e)[m] = word[i + m - 1]
      BY <2>2, <3>1, SubSeqProperties
    <3> QED
      BY <2>1, <2>2, <3>2 DEF EndsRun
  <2> HIDE DEF r
  <2>4. \A m \in 1..l : i + m - 1 \in i..e
    BY <2>2
  <2>5. \A m \in 1..l : r[m] \notin seps
    BY <2>1, <2>3, <2>4 DEF EndsRun
  <2>6. l \in Nat /\ l # 0 /\ Len(<<>>) = 0
    BY <2>2
  <2>7. r # Empty
    BY <2>2, <2>3, <2>6
  <2> QED
    BY <2>3, <2>5, <2>7, WordsAreCodes DEF Solid, r
<1> HIDE DEF starts, n
<1>3. \A k \in 1..n : Solid(runs[k], seps)
  BY <1>1, <1>2
<1>4. runs = [k \in 1..n |-> runs[k]]
  BY <1>1 DEF Runs, starts, n
<1> HIDE DEF runs
<1>5. runs \in Seq(Words)
  BY <1>1, <1>3, <1>4 DEF Solid
<1>6. Len(runs) = n
  BY <1>1, <1>5
<1> QED
  BY <1>3, <1>5, <1>6 DEF runs

\* What a word with one more behind a separator is made of.
LEMMA Extended ==
  ASSUME NEW v \in Words, NEW w \in Words, NEW c \in Nat
  PROVE  LET x == v \o <<c>> \o w
             n == Len(v)
             m == Len(w)
         IN /\ x \in Words /\ Len(x) = n + 1 + m /\ n \in Nat /\ m \in Nat
            /\ \A i \in 1..n : x[i] = v[i]
            /\ x[n + 1] = c
            /\ \A i \in 1..m : x[n + 1 + i] = w[i]
<1>1. v \in Seq(Nat) /\ w \in Seq(Nat) /\ <<c>> \in Seq(Nat) /\ Len(<<c>>) = 1 /\ <<c>>[1] = c
  BY WordFacts
<1> DEFINE y == v \o <<c>>
           n == Len(v)
           m == Len(w)
<1>2. /\ y \in Seq(Nat) /\ Len(y) = n + 1 /\ n \in Nat /\ m \in Nat
      /\ \A i \in 1..n : y[i] = v[i]
      /\ y[n + 1] = c
  BY <1>1
<1> HIDE DEF y
<1>3. /\ y \o w \in Seq(Nat) /\ Len(y \o w) = n + 1 + m
      /\ \A i \in 1..(n + 1) : (y \o w)[i] = y[i]
      /\ \A i \in 1..m : (y \o w)[n + 1 + i] = w[i]
  <2>1. \A i \in 1..(n + 1 + m) : (y \o w)[i] = IF i <= n + 1 THEN y[i] ELSE w[i - (n + 1)]
    BY <1>1, <1>2, ConcatProperties
  <2>2. \A i \in 1..m : n + 1 + i \in 1..(n + 1 + m) /\ ~(n + 1 + i <= n + 1) /\ n + 1 + i - (n + 1) = i
    BY <1>2
  <2> HIDE DEF n, m
  <2>3. \A i \in 1..m : (y \o w)[n + 1 + i] = w[i]
    <3> TAKE i \in 1..m
    <3> DEFINE k == n + 1 + i
    <3>1. k \in 1..(n + 1 + m) /\ ~(k <= n + 1) /\ k - (n + 1) = i
      BY <1>2
    <3> HIDE DEF k
    <3>2. (y \o w)[k] = w[i]
      BY <2>1, <3>1
    <3> QED
      BY <3>2 DEF k
  <2>4. \A i \in 1..(n + 1) : (y \o w)[i] = y[i]
    BY <1>2, <2>1
  <2>5. y \o w \in Seq(Nat) /\ Len(y \o w) = n + 1 + Len(w)
    <3>1. y \o w \in Seq(Nat) /\ Len(y \o w) = Len(y) + Len(w)
      BY <1>1, <1>2, ConcatProperties
    <3> QED
      BY <1>2, <3>1
  <2> QED
    BY <2>3, <2>4, <2>5 DEF m
<1>4. /\ \A i \in 1..n : (y \o w)[i] = v[i]
      /\ (y \o w)[n + 1] = c
  BY <1>2, <1>3
<1> QED
  BY <1>2, <1>3, <1>4, WordFacts DEF y

\* Its runs are those of the word and the new one.
LEMMA RunsExtended ==
  ASSUME NEW v \in Words, NEW seps, NEW c \in Nat, c \in seps, NEW w, Solid(w, seps)
  PROVE  Runs(v \o <<c>> \o w, seps) = Append(Runs(v, seps), w)
<1> DEFINE x == v \o <<c>> \o w
           n == Len(v)
           m == Len(w)
           old == RunStarts(v, seps)
           new == RunStarts(x, seps)
           size == Cardinality(old)
<1>1. w \in Words /\ m # 0 /\ \A i \in 1..m : w[i] \notin seps
  <2>1. w \in Seq(Nat) /\ w # <<>>
    BY WordsAreCodes DEF Solid
  <2>2. m # 0
    BY <2>1
  <2> QED
    BY <2>2 DEF Solid
<1>2. /\ x \in Words /\ Len(x) = n + 1 + m /\ n \in Nat /\ m \in Nat
      /\ \A i \in 1..n : x[i] = v[i]
      /\ x[n + 1] = c
      /\ \A i \in 1..m : x[n + 1 + i] = w[i]
  BY <1>1, Extended, ZenonT(60)
<1> HIDE DEF x
<1>3. n + 2 \in 1..Len(x) /\ x[n + 2] \notin seps /\ n + 2 - 1 = n + 1 /\ x[n + 1] \in seps
      /\ \A i \in (n + 2)..Len(x) : x[i] \notin seps
  <2>1. \A i \in (n + 2)..Len(x) : i - n - 1 \in 1..m /\ n + 1 + (i - n - 1) = i
    BY <1>1, <1>2
  <2>2. \A i \in (n + 2)..Len(x) : x[i] \notin seps
    BY <1>1, <1>2, <2>1, ZenonT(60)
  <2>3. n + 2 \in (n + 2)..Len(x)
    BY <1>1, <1>2
  <2> QED
    BY <1>2, <2>2, <2>3
<1>4. new = old \cup {n + 2}
  <2>1. ASSUME NEW i \in old PROVE i \in new /\ i \in 1..n
    <3>1. i \in 1..n /\ v[i] \notin seps /\ (i # 1 => v[i - 1] \in seps)
      BY StartsFacts
    <3>2. i \in 1..Len(x) /\ x[i] = v[i] /\ (i # 1 => i - 1 \in 1..n /\ x[i - 1] = v[i - 1])
      BY <1>2, <3>1
    <3> QED
      BY <1>2, <3>1, <3>2, StartsFacts
  <2>2. n + 2 \in new
    <3> DEFINE i == n + 2
    <3>1. i \in 1..Len(x) /\ x[i] \notin seps /\ x[i - 1] \in seps
      BY <1>3
    <3> HIDE DEF i
    <3>2. i \in new
      BY <1>2, <3>1, StartsFacts
    <3> QED
      BY <3>2 DEF i
  <2>3. ASSUME NEW i \in new PROVE i \in old \cup {n + 2}
    <3>1. i \in 1..Len(x) /\ x[i] \notin seps /\ (i # 1 => x[i - 1] \in seps)
      BY <1>2, StartsFacts
    <3>2. CASE i \in 1..n
      <4>1. v[i] \notin seps /\ (i # 1 => i - 1 \in 1..n /\ v[i - 1] \in seps)
        BY <1>2, <3>1, <3>2
      <4> QED
        BY <3>2, <4>1, StartsFacts
    <3>3. CASE i \notin 1..n
      <4>1. i # n + 1
        BY <1>2, <3>1
      <4>2. i \in (n + 2)..Len(x)
        BY <1>2, <3>1, <3>3, <4>1
      <4>3. CASE i # n + 2
        <5>1. i - 1 \in (n + 2)..Len(x) /\ i # 1
          BY <1>2, <4>2, <4>3
        <5> QED
          BY <1>3, <3>1, <5>1
      <4> QED
        BY <4>3
    <3> QED
      BY <3>2, <3>3
  <2> HIDE DEF old, new
  <2> QED
    BY <2>1, <2>2, <2>3
<1>5. \A i \in old : i \in 1..n
  BY StartsFacts
<1>6. size \in Nat /\ IsFiniteSet(old) /\ n + 2 \notin old /\ Cardinality(new) = size + 1
  <2>1. size \in Nat /\ IsFiniteSet(old)
    BY RanksOfStarts
  <2>2. n + 2 \notin old
    BY <1>2, <1>5
  <2> HIDE DEF old
  <2> QED
    BY <1>4, <2>1, <2>2, FS_AddElement
<1>7. \A i \in old : Rank(new, i) = Rank(old, i)
  <2> TAKE i \in old
  <2>1. ~(n + 2 <= i)
    BY <1>2, <1>5
  <2>2. {j \in new : j <= i} = {j \in old : j <= i}
    BY <1>4, <2>1
  <2> QED
    BY <2>2 DEF Rank
<1>8. Rank(new, n + 2) = size + 1
  <2>1. \A j \in new : j <= n + 2
    BY <1>2, <1>4, <1>5
  <2>2. {j \in new : j <= n + 2} = new
    BY <2>1
  <2> QED
    BY <1>6, <2>2 DEF Rank
<1>9. ASSUME NEW i \in old PROVE RunAt(x, seps, i) = RunAt(v, seps, i)
  <2>1. PICK e \in i..n : EndsRun(RunAt(v, seps, i), v, seps, i, e, n)
    BY RunEnds
  <2>2. i \in 1..n /\ e \in i..Len(x) /\ e \in 1..n /\ \A k \in i..e : k \in 1..n
    BY <1>2, <1>5
  <2>3. SubSeq(x, i, e) = SubSeq(v, i, e)
    <3>1. \A k \in 1..(e - i + 1) : i + k - 1 \in 1..n
      BY <1>2, <2>2
    <3>2. \A k \in i..e : v[k] \in Nat /\ x[k] \in Nat
      <4>1. \A k \in 1..n : v[k] \in Nat
        BY StartsFacts
      <4> QED
        BY <1>2, <2>2, <4>1
    <3>3. /\ SubSeq(x, i, e) \in Seq(Nat) /\ SubSeq(v, i, e) \in Seq(Nat)
          /\ Len(SubSeq(x, i, e)) = IF i <= e THEN e - i + 1 ELSE 0
          /\ Len(SubSeq(v, i, e)) = IF i <= e THEN e - i + 1 ELSE 0
          /\ \A k \in 1..(e - i + 1) : SubSeq(x, i, e)[k] = x[i + k - 1]
          /\ \A k \in 1..(e - i + 1) : SubSeq(v, i, e)[k] = v[i + k - 1]
      BY <2>2, <3>2, SubSeqProperties
    <3> QED
      BY <1>2, <2>2, <3>1, <3>3
  <2>4. \A k \in i..e : x[k] \notin seps
    BY <1>2, <2>1, <2>2 DEF EndsRun
  <2>5. x[e + 1] \in seps
    <3>1. CASE e < n
      <4>1. v[e + 1] \in seps
        BY <2>1, <3>1 DEF EndsRun
      <4>2. e + 1 \in 1..n
        BY <1>2, <2>2, <3>1
      <4> QED
        BY <1>2, <4>1, <4>2
    <3>2. CASE e = n
      BY <1>2, <3>2
    <3> QED
      BY <1>2, <2>2, <3>1, <3>2
  <2>6. EndsRun(RunAt(v, seps, i), x, seps, i, e, Len(x))
    BY <2>1, <2>3, <2>4, <2>5 DEF EndsRun
  <2>7. i \in new
    BY <1>4
  <2> HIDE DEF old
  <2> QED
    BY <1>2, <2>2, <2>6, <2>7, RunIsOne
<1>10. RunAt(x, seps, n + 2) = w
  <2> DEFINE e == Len(x)
  <2>1. SubSeq(x, n + 2, e) = w
    <3>1. \A k \in (n + 2)..e : x[k] \in Nat
      <4>1. \A k \in 1..e : x[k] \in Nat
        BY <1>2, StartsFacts
      <4> QED
        BY <1>2, <4>1
    <3>2. /\ SubSeq(x, n + 2, e) \in Seq(Nat)
          /\ Len(SubSeq(x, n + 2, e)) = IF n + 2 <= e THEN e - (n + 2) + 1 ELSE 0
          /\ \A k \in 1..(e - (n + 2) + 1) : SubSeq(x, n + 2, e)[k] = x[n + 2 + k - 1]
      BY <1>2, <3>1, SubSeqProperties
    <3>3. e - (n + 2) + 1 = m /\ n + 2 <= e /\ \A k \in 1..m : n + 2 + k - 1 = n + 1 + k
      BY <1>1, <1>2
    <3>4. Len(SubSeq(x, n + 2, e)) = m /\ \A k \in 1..m : SubSeq(x, n + 2, e)[k] = w[k]
      BY <1>2, <3>2, <3>3
    <3>5. w \in Seq(Nat) /\ Len(w) = m
      BY <1>1, WordFacts
    <3> DEFINE t == SubSeq(x, n + 2, e)
    <3>6. t \in Seq(Nat) /\ Len(t) = m /\ \A k \in 1..m : t[k] = w[k]
      BY <3>2, <3>4
    <3> HIDE DEF t, m
    <3>7. t = w
      BY <3>5, <3>6
    <3> QED
      BY <3>7 DEF t
  <2>2. EndsRun(w, x, seps, n + 2, e, e)
    <3>1. ~(e < e)
      BY <1>2
    <3> QED
      BY <1>3, <2>1, <3>1 DEF EndsRun
  <2>3. n + 2 \in new /\ e \in (n + 2)..e
    BY <1>1, <1>2, <1>4
  <2> QED
    BY <1>2, <2>2, <2>3, RunIsOne
<1> DEFINE runs == Runs(v, seps)
           more == Runs(x, seps)
<1>11. /\ DOMAIN runs = 1..size /\ runs \in Seq(Words)
       /\ \A k \in 1..size : \E i \in old : Rank(old, i) = k /\ runs[k] = RunAt(v, seps, i)
  BY RunsByRank, RunsAreSolid
<1>12. /\ DOMAIN more = 1..Cardinality(new) /\ more \in Seq(Words)
       /\ \A i \in new : more[Rank(new, i)] = RunAt(x, seps, i)
  BY <1>2, RunsByRank, RunsAreSolid
<1> HIDE DEF runs, more, old, new, size
<1>13. ASSUME NEW k \in 1..size PROVE more[k] = runs[k]
  <2>1. PICK i \in old : Rank(old, i) = k /\ runs[k] = RunAt(v, seps, i)
    BY <1>11
  <2>2. i \in new /\ Rank(new, i) = k
    BY <1>4, <1>7, <2>1
  <2> QED
    BY <1>9, <1>12, <2>1, <2>2
<1>14. more[size + 1] = w
  <2>1. n + 2 \in new
    BY <1>4
  <2> QED
    BY <1>8, <1>10, <1>12, <2>1
<1>15. /\ Append(runs, w) \in Seq(Words) /\ Len(Append(runs, w)) = size + 1
       /\ \A k \in 1..size : Append(runs, w)[k] = runs[k]
       /\ Append(runs, w)[size + 1] = w
  BY <1>1, <1>6, <1>11
<1>16. Len(more) = size + 1
  BY <1>6, <1>12
<1>17. more = Append(runs, w)
  <2>1. \A k \in 1..(size + 1) : more[k] = Append(runs, w)[k]
    <3>1. \A k \in 1..(size + 1) : k \in 1..size \/ k = size + 1
      BY <1>6
    <3> QED
      BY <1>13, <1>14, <1>15, <3>1
  <2> QED
    BY <1>12, <1>15, <1>16, <2>1
<1> QED
  BY <1>17 DEF more, runs, x

\* find, character by character.
LEMMA FindFacts ==
  ASSUME NEW v \in Words, NEW w \in Words
  PROVE  find(v, w) <=> \E i \in 0..(Len(v) - Len(w)) : \A k \in 1..Len(w) : v[i + k] = w[k]
<1>1. v \in Seq(Nat) /\ w \in Seq(Nat) /\ Len(v) \in Nat /\ Len(w) \in Nat
  BY WordFacts
<1>2. ASSUME NEW i \in 0..(Len(v) - Len(w))
      PROVE  SubSeq(v, i + 1, i + Len(w)) = w <=> \A k \in 1..Len(w) : v[i + k] = w[k]
  <2> DEFINE m == Len(w)
             t == SubSeq(v, i + 1, i + m)
  <2>1. \A k \in (i + 1)..(i + m) : v[k] \in Nat
    BY <1>1
  <2>2. /\ t \in Seq(Nat)
        /\ Len(t) = IF i + 1 <= i + m THEN i + m - (i + 1) + 1 ELSE 0
        /\ \A k \in 1..(i + m - (i + 1) + 1) : t[k] = v[i + 1 + k - 1]
    BY <1>1, <2>1, SubSeqProperties
  <2> HIDE DEF t
  <2>3. i + m - (i + 1) + 1 = m /\ \A k \in 1..m : i + 1 + k - 1 = i + k
    BY <1>1
  <2>4. Len(t) = m /\ \A k \in 1..m : t[k] = v[i + k]
    <3>1. m \in Nat /\ i \in Int
      BY <1>1
    <3> HIDE DEF m
    <3>2. Len(t) = m
      BY <2>2, <2>3, <3>1
    <3>3. ASSUME NEW k \in 1..m PROVE t[k] = v[i + k]
      <4>1. t[k] = v[i + 1 + k - 1]
        BY <2>2, <2>3, <3>1
      <4>2. i + 1 + k - 1 = i + k
        BY <2>3
      <4> QED
        BY <4>1, <4>2
    <3> QED
      BY <3>2, <3>3
  <2>5. (\A k \in 1..m : t[k] = w[k]) => t = w
    BY <1>1, <2>2, <2>4, SeqEqual
  <2> QED
    BY <2>4, <2>5 DEF t
<1> QED
  BY <1>2 DEF find

\* A word is found in itself, and the empty one everywhere.
LEMMA FindsItself ==
  ASSUME NEW v \in Words
  PROVE  find(v, v) /\ find(v, Empty)
<1>1. Len(v) \in Nat /\ Empty \in Words /\ Len(Empty) = 0
  BY WordFacts, WordsAreCodes
<1>2. 0 \in 0..(Len(v) - Len(v)) /\ \A k \in 1..Len(v) : v[0 + k] = v[k]
  BY <1>1
<1>3. 0 \in 0..(Len(v) - Len(Empty)) /\ 1..Len(Empty) = {}
  BY <1>1
<1> QED
  BY <1>1, <1>2, <1>3, FindFacts

\* The characters of a run.
LEMMA RunCharacters ==
  ASSUME NEW word \in Words, NEW seps, NEW i \in RunStarts(word, seps)
  PROVE  \E e \in i..Len(word) :
            LET r == RunAt(word, seps, i) IN
            /\ i \in 1..Len(word) /\ Len(word) \in Nat
            /\ r \in Words /\ Len(r) = e - i + 1
            /\ \A k \in 1..(e - i + 1) : r[k] = word[i + k - 1]
            /\ \A k \in i..e : word[k] \notin seps
            /\ e < Len(word) => word[e + 1] \in seps
<1>1. PICK e \in i..Len(word) : EndsRun(RunAt(word, seps, i), word, seps, i, e, Len(word))
  BY RunEnds
<1>2. Len(word) \in Nat /\ i \in 1..Len(word) /\ \A k \in 1..Len(word) : word[k] \in Nat
  BY StartsFacts
<1> DEFINE r == SubSeq(word, i, e)
<1>3. \A k \in i..e : word[k] \in Nat
  BY <1>2
<1>4. /\ r \in Seq(Nat)
      /\ Len(r) = IF i <= e THEN e - i + 1 ELSE 0
      /\ \A k \in 1..(e - i + 1) : r[k] = word[i + k - 1]
  BY <1>2, <1>3, SubSeqProperties
<1> QED
  BY <1>1, <1>2, <1>4, WordsAreCodes DEF EndsRun

\* A word without separators occurs in a word when it occurs in one of its runs.
LEMMA FindInRuns ==
  ASSUME NEW word \in Words, NEW seps, NEW w, Solid(w, seps)
  PROVE  LET runs == Runs(word, seps)
         IN find(word, w) <=> \E k \in 1..Len(runs) : find(runs[k], w)
<1> DEFINE runs == Runs(word, seps)
           starts == RunStarts(word, seps)
           size == Cardinality(starts)
           n == Len(word)
           m == Len(w)
<1>1. w \in Words /\ m \in Nat /\ m # 0 /\ n \in Nat /\ \A i \in 1..m : w[i] \notin seps
  <2>1. w \in Seq(Nat) /\ w # <<>> /\ n \in Nat
    BY WordFacts, WordsAreCodes DEF Solid
  <2> QED
    BY <2>1 DEF Solid
<1>2. /\ Len(runs) = size /\ size \in Nat
      /\ \A k \in 1..size : runs[k] \in Words
      /\ \A i \in starts : Rank(starts, i) \in 1..size /\ runs[Rank(starts, i)] = RunAt(word, seps, i)
      /\ \A k \in 1..size : \E i \in starts : runs[k] = RunAt(word, seps, i)
  <2>1. runs \in Seq(Words)
    BY RunsAreSolid
  <2>2. DOMAIN runs = 1..size /\ size \in Nat
    BY RunsByRank
  <2>3. Len(runs) = size
    <3> HIDE DEF runs, size
    <3> QED
      BY <2>1, <2>2
  <2>4. \A k \in 1..size : runs[k] \in Words
    <3> HIDE DEF runs, size
    <3> QED
      BY <2>1, <2>3
  <2> QED
    BY <2>2, <2>3, <2>4, RunsByRank
<1> HIDE DEF runs, starts, size, n, m
<1>3. ASSUME find(word, w) PROVE \E k \in 1..size : find(runs[k], w)
  <2>1. PICK p \in 0..(n - m) : \A k \in 1..m : word[p + k] = w[k]
    BY <1>1, <1>3, FindFacts DEF n, m
  <2>2. p \in Nat /\ p + 1 \in 1..n /\ p + m <= n
    BY <1>1
  <2>3. \A j \in (p + 1)..(p + m) : word[j] \notin seps
    <3> TAKE j \in (p + 1)..(p + m)
    <3>1. j - p \in 1..m /\ p + (j - p) = j
      BY <1>1, <2>2
    <3> QED
      BY <1>1, <2>1, <3>1
  <2>4. word[p + 1] \notin seps
    BY <1>1, <2>2, <2>3
  <2>5. PICK i \in starts : i <= p + 1 /\ \A j \in i..(p + 1) : word[j] \notin seps
    <3> DEFINE q == p + 1
    <3>1. q \in 1..Len(word) /\ word[q] \notin seps
      BY <2>2, <2>4 DEF n
    <3> HIDE DEF q
    <3>2. \E i \in starts : i <= q /\ \A j \in i..q : word[j] \notin seps
      BY <3>1, CurrentRun DEF starts
    <3> QED
      BY <3>2 DEF q
  <2> DEFINE r == RunAt(word, seps, i)
  <2>6. PICK e \in i..n :
            /\ i \in 1..n
            /\ r \in Words /\ Len(r) = e - i + 1
            /\ \A k \in 1..(e - i + 1) : r[k] = word[i + k - 1]
            /\ e < n => word[e + 1] \in seps
    BY RunCharacters DEF n, starts
  <2> HIDE DEF r
  <2>7. p + m <= e
    <3> SUFFICES ASSUME e < p + m PROVE FALSE
      BY <1>1, <2>2, <2>6
    <3>1. e < n /\ word[e + 1] \in seps
      BY <1>1, <2>2, <2>6
    <3>2. e + 1 \in i..(p + 1) \/ e + 1 \in (p + 1)..(p + m)
      BY <1>1, <2>2, <2>5, <2>6
    <3> QED
      BY <2>3, <2>5, <3>1, <3>2
  <2> DEFINE o == p + 1 - i
  <2>8. o \in 0..(Len(r) - m)
    BY <1>1, <2>2, <2>5, <2>6, <2>7
  <2>9. ASSUME NEW k \in 1..m PROVE r[o + k] = w[k]
    <3>1. o + k \in 1..(e - i + 1) /\ i + (o + k) - 1 = p + k
      BY <1>1, <2>2, <2>5, <2>6, <2>7
    <3> HIDE DEF o
    <3>2. r[o + k] = word[i + (o + k) - 1]
      BY <2>6, <3>1
    <3> QED
      BY <2>1, <3>1, <3>2
  <2> HIDE DEF o
  <2>10. find(r, w)
    BY <1>1, <2>6, <2>8, <2>9, FindFacts DEF m
  <2> QED
    BY <1>2, <2>10 DEF r
<1>4. ASSUME NEW k \in 1..size, find(runs[k], w) PROVE find(word, w)
  <2>1. PICK i \in starts : runs[k] = RunAt(word, seps, i)
    BY <1>2
  <2> DEFINE r == RunAt(word, seps, i)
  <2>2. PICK e \in i..n :
            /\ i \in 1..n
            /\ r \in Words /\ Len(r) = e - i + 1
            /\ \A j \in 1..(e - i + 1) : r[j] = word[i + j - 1]
    BY RunCharacters DEF n, starts
  <2>3. find(r, w)
    BY <1>4, <2>1
  <2> HIDE DEF r
  <2>4. PICK o \in 0..(Len(r) - m) : \A j \in 1..m : r[o + j] = w[j]
    BY <1>1, <2>2, <2>3, FindFacts DEF m
  <2> DEFINE p == i + o - 1
  <2>5. p \in 0..(n - m)
    BY <1>1, <2>2, <2>4
  <2>6. ASSUME NEW j \in 1..m PROVE word[p + j] = w[j]
    <3>1. o + j \in 1..(e - i + 1) /\ i + (o + j) - 1 = p + j
      BY <1>1, <2>2, <2>4
    <3> HIDE DEF p
    <3>2. r[o + j] = word[i + (o + j) - 1]
      BY <2>2, <3>1
    <3> QED
      BY <2>4, <3>1, <3>2
  <2> HIDE DEF p
  <2> QED
    BY <1>1, <2>5, <2>6, FindFacts DEF m, n
<1> QED
  BY <1>2, <1>3, <1>4 DEF runs

\* What split makes of a line: its runs, or one empty word.
LEMMA BlankSeparated ==
  ASSUME NEW word \in Words
  PROVE  blank_separated(word) = IF Runs(word, Blanks) = <<>> THEN <<Empty>> ELSE Runs(word, Blanks)
<1> DEFINE seps == <<32, 9, Newline>>
           trimmed == trim_if(word, Blanks)
<1>1. ToSet(seps) = Blanks /\ seps \in Words
  <2>1. seps \in Seq(Nat) /\ DOMAIN seps = 1..3 /\ seps[1] = 32 /\ seps[2] = 9 /\ seps[3] = Newline
    BY DEF Newline
  <2>2. 1..3 = {1, 2, 3}
    OBVIOUS
  <2> HIDE DEF seps
  <2>3. ToSet(seps) = {seps[1], seps[2], seps[3]}
    BY <2>1, <2>2 DEF ToSet
  <2> QED
    BY <2>1, <2>3, WordsAreCodes DEF Blanks
<1>2. Runs(word, Blanks) = IF trimmed = Empty THEN <<>> ELSE split(trimmed, Blanks, TRUE)
  <2>1. Runs(word, Blanks) = split_word(word, seps)
    BY <1>1, SplitWordRuns
  <2> HIDE DEF seps
  <2> QED
    BY <1>1, <2>1 DEF split_word
<1>3. Empty = <<>> /\ Empty \in Words /\ Len(Empty) = 0
  BY WordsAreCodes
<1>4. trimmed \in Words
  BY TrimType
<1>5. split(trimmed, Blanks, TRUE) # <<>>
  <2>1. TRUE \in BOOLEAN
    OBVIOUS
  <2> HIDE DEF trimmed
  <2> QED
    BY <1>4, <2>1, SplitType
<1>6. split(Empty, Blanks, TRUE) = <<Empty>>
  <2> DEFINE n == Len(Empty)
  <2>1. n = 0 /\ TRUE \in BOOLEAN
    BY <1>3
  <2>2. \E acc \in [0..n -> Seq(Words) \ {<<>>}] :
            acc[0] = <<Empty>> /\ acc[n] = split(Empty, Blanks, TRUE)
    BY <1>3, <2>1, SplitUnfolds
  <2> QED
    BY <2>1, <2>2
<1> HIDE DEF trimmed
<1> QED
  BY <1>2, <1>5, <1>6 DEF blank_separated, trimmed

\* with_global: one word more.
GlobalStep(all, word) == IF find(all, word) THEN all ELSE all \o <<32>> \o word

GlobalFold(value, keys, iter) ==
    iter = [s \in SUBSET (DOMAIN keys) |->
              IF s = {} THEN value
              ELSE GlobalStep(iter[s \ {Max(s)}], keys[Max(s)])]

LEMMA GlobalUnfolds ==
  ASSUME NEW value \in Words, NEW global \in Words, NEW keys \in Seq(Words),
         keys = blank_separated(global)
  PROVE  \E acc \in [0..Len(keys) -> Words] :
            /\ acc[0] = value
            /\ \A i \in 1..Len(keys) : acc[i] = GlobalStep(acc[i - 1], keys[i])
            /\ acc[Len(keys)] = with_global(value, global)
<1> DEFINE n == Len(keys)
           T == Words
           base == value
           Step(all, k) == GlobalStep(all, keys[k])
           G == [p \in T \X (1..n) |-> Step(p[1], p[2])]
           iter == CHOOSE f : GlobalFold(value, keys, f)
<1>1. with_global(value, global) = iter[DOMAIN keys]
  BY DEF with_global, FoldLeft, MapThenFoldSet, GlobalFold, GlobalStep
<1>2. n \in Nat /\ DOMAIN keys = 1..n
  OBVIOUS
<1>3. \A all \in T : \A k \in 1..n : Step(all, k) \in T
  <2> SUFFICES ASSUME NEW all \in T, NEW k \in 1..n
               PROVE  Step(all, k) \in T
    OBVIOUS
  <2>1. keys[k] \in Words /\ all \in Words /\ 32 \in Nat
    OBVIOUS
  <2>2. all \o <<32>> \o keys[k] \in Words
    BY <2>1, WordFacts
  <2> QED
    BY <2>1, <2>2 DEF GlobalStep
<1>4. base \in T
  OBVIOUS
<1>5. G \in [T \X (1..n) -> T]
  BY <1>3
<1>6. \A all \in T : \A k \in 1..n : G[<<all, k>>] = Step(all, k)
  OBVIOUS
<1> HIDE DEF n, T, G
<1>7. GlobalFold(value, keys, iter)
  <2>1. PICK f : Folds(f, n, T, base, G)
    BY <1>2, <1>4, <1>5, FoldExists
  <2>2. ASSUME NEW s \in SUBSET (1..n)
        PROVE  f[s] = IF s = {} THEN value
                      ELSE GlobalStep(f[s \ {Max(s)}], keys[Max(s)])
    <3>1. CASE s = {}
      BY <2>1, <3>1 DEF Folds
    <3>2. CASE s # {}
      <4>1. /\ Max(s) \in 1..n /\ f[s \ {Max(s)}] \in T
            /\ f[s] = G[<<f[s \ {Max(s)}], Max(s)>>]
        BY <2>1, <3>2 DEF Folds
      <4>2. f[s] = Step(f[s \ {Max(s)}], Max(s))
        BY <1>6, <4>1
      <4> QED
        BY <1>2, <3>2, <4>1, <4>2
    <3> QED
      BY <3>1, <3>2
  <2>3. f = [s \in SUBSET (1..n) |-> f[s]]
    BY <2>1 DEF Folds
  <2> HIDE DEF Step
  <2>4. f = [s \in SUBSET (DOMAIN keys) |->
               IF s = {} THEN value
               ELSE GlobalStep(f[s \ {Max(s)}], keys[Max(s)])]
    BY <1>2, <2>2, <2>3
  <2> QED
    BY <2>4 DEF GlobalFold
<1> HIDE DEF iter
<1>8. iter = [s \in SUBSET (1..n) |->
                IF s = {} THEN value
                ELSE GlobalStep(iter[s \ {Max(s)}], keys[Max(s)])]
  BY <1>2, <1>7 DEF GlobalFold
<1>9. ASSUME NEW i \in 1..n, iter[1..(i - 1)] \in T
      PROVE  iter[1..i] = G[<<iter[1..(i - 1)], i>>]
  <2>1. /\ 1..i \in SUBSET (1..n) /\ 1..i # {}
        /\ Max(1..i) = i /\ (1..i) \ {i} = 1..(i - 1)
    BY <1>2, PrefixFacts
  <2>2. iter[1..i] = GlobalStep(iter[(1..i) \ {Max(1..i)}], keys[Max(1..i)])
    BY <1>8, <2>1
  <2>3. iter[1..i] = Step(iter[1..(i - 1)], i)
    BY <1>2, <2>1, <2>2
  <2> QED
    BY <1>6, <1>9, <2>3
<1>10. iter[{}] = base
  BY <1>8
<1>11. PICK acc \in [0..n -> T] :
          /\ acc[0] = base
          /\ \A i \in 1..n : acc[i] = G[<<acc[i - 1], i>>]
          /\ acc[n] = iter[1..n]
  <2>1. Accumulates(iter, n, T, base, G)
    BY <1>4, <1>5, <1>9, <1>10 DEF Accumulates
  <2> HIDE DEF base, Step
  <2> QED
    BY <1>2, <2>1, FoldPrefixes
<1>12. ASSUME NEW i \in 1..n PROVE acc[i] = GlobalStep(acc[i - 1], keys[i])
  <2>1. i - 1 \in 0..n
    BY <1>2
  <2>2. acc[i] = Step(acc[i - 1], i)
    BY <1>6, <1>11, <2>1
  <2> QED
    BY <2>2
<1> QED
  BY <1>1, <1>2, <1>11, <1>12 DEF n, T

\* The words of a line, from those of the ebuild, own, and those of E_n.
Gathers(all, own, extra, i) ==
    LET words == Runs(all, Blanks) IN
    /\ IsPrefix(own, words)
    /\ ToSet(words) \subseteq ToSet(own) \cup ToSet(extra)
    /\ \A j \in 1..i : find(all, extra[j])
    /\ \A j, k \in 1..Len(words) : j < k /\ k > Len(own) => ~find(words[j], words[k])

\* In the order of the words of E_n, those that are not yet part of the line are
\* appended.
LEMMA WithGlobalGathers ==
  ASSUME NEW value \in Words, NEW global \in Words
  PROVE  LET own == Runs(value, Blanks)
             extra == Runs(global, Blanks)
         IN with_global(value, global) \in Words
            /\ Gathers(with_global(value, global), own, extra, Len(extra))
<1> DEFINE own == Runs(value, Blanks)
           extra == Runs(global, Blanks)
           keys == blank_separated(global)
           n == Len(extra)
<1>1. /\ own \in Seq(Words) /\ extra \in Seq(Words)
      /\ \A k \in 1..Len(own) : Solid(own[k], Blanks)
      /\ \A k \in 1..n : Solid(extra[k], Blanks)
  BY RunsAreSolid
<1>2. keys = IF extra = <<>> THEN <<Empty>> ELSE extra
  BY BlankSeparated
<1>3. Gathers(value, own, extra, 0)
  <2> HIDE DEF extra
  <2>1. \A j, k \in 1..Len(own) : ~(k > Len(own))
    BY <1>1
  <2>2. IsPrefix(own, own)
    BY <1>1 DEF IsPrefix
  <2>3. 1..0 = {}
    OBVIOUS
  <2> QED
    BY <2>1, <2>2, <2>3 DEF Gathers
<1>4. keys \in Seq(Words) /\ Empty \in Words
  <2>1. Empty \in Words
    BY WordFacts
  <2> HIDE DEF keys, extra
  <2>2. <<Empty>> \in Seq(Words)
    BY <2>1
  <2> QED
    BY <1>1, <1>2, <2>1, <2>2
<1>5. PICK acc \in [0..Len(keys) -> Words] :
         /\ acc[0] = value
         /\ \A i \in 1..Len(keys) : acc[i] = GlobalStep(acc[i - 1], keys[i])
         /\ acc[Len(keys)] = with_global(value, global)
  <2>1. \A ks \in Seq(Words) : ks = blank_separated(global) =>
           \E acc \in [0..Len(ks) -> Words] :
              /\ acc[0] = value
              /\ \A i \in 1..Len(ks) : acc[i] = GlobalStep(acc[i - 1], ks[i])
              /\ acc[Len(ks)] = with_global(value, global)
    BY GlobalUnfolds
  <2> QED
    BY <1>4, <2>1
<1> HIDE DEF own, extra, keys
<1>6. CASE extra = <<>>
  <2>1. Len(keys) = 1 /\ keys[1] = Empty /\ n = 0
    BY <1>2, <1>6
  <2>2. acc[1] = GlobalStep(value, Empty)
    BY <1>5, <2>1
  <2>3. find(value, Empty)
    BY FindsItself
  <2>4. with_global(value, global) = value
    BY <1>5, <2>1, <2>2, <2>3 DEF GlobalStep
  <2> QED
    BY <1>3, <2>1, <2>4 DEF own, extra, n
<1>7. CASE extra # <<>>
  <2> DEFINE Q == {i \in 0..n : Gathers(acc[i], own, extra, i)}
  <2>1. keys = extra /\ n \in Nat /\ Len(keys) = n
    BY <1>1, <1>2, <1>7
  <2>2. 0 \in Q
    BY <1>3, <1>5, <2>1
  <2>3. ASSUME NEW i \in 0..n, i \in Q, i < n PROVE i + 1 \in Q
    <3> DEFINE all == acc[i]
               next == acc[i + 1]
               w == extra[i + 1]
               words == Runs(all, Blanks)
               more == Runs(next, Blanks)
    <3>1. i + 1 \in 1..n /\ i + 1 \in 0..n /\ (i + 1) - 1 = i /\ i \in Nat
      BY <2>1, <2>3
    <3>2. all \in Words /\ next \in Words /\ next = GlobalStep(all, w) /\ Solid(w, Blanks)
      BY <1>1, <1>5, <2>1, <3>1
    <3>3. Gathers(all, own, extra, i)
      BY <2>3
    <3> HIDE DEF all, next, w, Q
    <3>4. CASE find(all, w)
      <4>1. next = all
        BY <3>2, <3>4 DEF GlobalStep
      <4>2. \A j \in 1..(i + 1) : find(all, extra[j])
        <5>1. \A j \in 1..(i + 1) : j \in 1..i \/ j = i + 1
          BY <3>1
        <5> QED
          BY <3>3, <3>4, <5>1 DEF Gathers, w
      <4>3. Gathers(next, own, extra, i + 1)
        BY <3>3, <4>1, <4>2 DEF Gathers
      <4> QED
        BY <3>1, <4>3 DEF Q, next
    <3>5. CASE ~find(all, w)
      <4>1. next = all \o <<32>> \o w
        BY <3>2, <3>5 DEF GlobalStep
      <4>2. more = Append(words, w)
        <5>1. 32 \in Blanks /\ 32 \in Nat
          BY DEF Blanks
        <5>2. Runs(all \o <<32>> \o w, Blanks) = Append(Runs(all, Blanks), w)
          BY <3>2, <5>1, RunsExtended
        <5> QED
          BY <4>1, <5>2
      <4>3. words \in Seq(Words) /\ w \in Words
        BY <3>2, RunsAreSolid DEF Solid
      <4>4. \A k \in 1..Len(words) : ~find(words[k], w)
        BY <3>2, <3>5, FindInRuns
      <4>5. \A j \in 1..i : \E k \in 1..Len(words) : find(words[k], extra[j])
        <5> TAKE j \in 1..i
        <5>1. find(all, extra[j]) /\ j \in 1..n
          BY <2>1, <3>1, <3>3 DEF Gathers
        <5> QED
          BY <1>1, <3>2, <5>1, FindInRuns
      <4>10. ToSet(words) \subseteq ToSet(own) \cup ToSet(extra) /\ IsPrefix(own, words)
             /\ \A j, k \in 1..Len(words) : j < k /\ k > Len(own) => ~find(words[j], words[k])
        BY <3>3 DEF Gathers
      <4> DEFINE l == Len(words)
      <4>6. /\ l \in Nat /\ more \in Seq(Words) /\ Len(more) = l + 1 /\ more[l + 1] = w
            /\ \A k \in 1..l : more[k] = words[k]
        <5> HIDE DEF words, more
        <5> QED
          BY <4>2, <4>3
      <4> HIDE DEF words, more, l
      <4>7. \A j \in 1..(i + 1) : find(next, extra[j])
        <5> TAKE j \in 1..(i + 1)
        <5>1. Solid(extra[j], Blanks)
          BY <1>1, <2>1, <3>1
        <5>2. \E k \in 1..(l + 1) : find(more[k], extra[j])
          <6>1. CASE j = i + 1
            <7>1. find(w, w)
              BY <4>3, FindsItself
            <7>2. l + 1 \in 1..(l + 1)
              BY <4>6
            <7> QED
              BY <4>6, <6>1, <7>1, <7>2 DEF w
          <6>2. CASE j # i + 1
            <7>1. j \in 1..i
              BY <3>1, <6>2
            <7>2. PICK k \in 1..l : find(words[k], extra[j])
              BY <4>5, <7>1 DEF l
            <7>3. k \in 1..(l + 1)
              BY <4>6
            <7> QED
              BY <4>6, <7>2, <7>3
          <6> QED
            BY <6>1, <6>2
        <5> QED
          BY <3>2, <4>6, <5>1, <5>2, FindInRuns DEF more
      <4>8. \A j, k \in 1..Len(more) : j < k /\ k > Len(own) => ~find(more[j], more[k])
        <5> SUFFICES ASSUME NEW j \in 1..(l + 1), NEW k \in 1..(l + 1), j < k, k > Len(own)
                     PROVE  ~find(more[j], more[k])
          BY <4>6
        <5>1. j \in 1..l /\ (k \in 1..l \/ k = l + 1)
          BY <4>6
        <5> QED
          BY <4>4, <4>6, <4>10, <5>1 DEF l
      <4>9. ToSet(more) \subseteq ToSet(own) \cup ToSet(extra)
        <5>1. w \in ToSet(extra)
          BY <1>1, <2>1, <3>1 DEF w, ToSet
        <5>2. DOMAIN words = 1..l
          BY <4>3 DEF l
        <5>3. DOMAIN more = 1..(l + 1)
          BY <4>6
        <5>4. \A k \in 1..(l + 1) : k \in 1..l \/ k = l + 1
          BY <4>6
        <5> QED
          BY <4>6, <4>10, <5>1, <5>2, <5>3, <5>4 DEF ToSet
      <4>11. IsPrefix(own, more)
        <5>1. Len(own) \in Nat /\ Len(own) <= l
          BY <1>1, <4>3, <4>10 DEF IsPrefix, l
        <5>2. SubSeq(own, 1, Len(own)) = SubSeq(words, 1, Len(own))
          BY <4>10 DEF IsPrefix
        <5>3. SubSeq(more, 1, Len(own)) = SubSeq(words, 1, Len(own))
          <6> DEFINE o == Len(own)
          <6>1. o \in Nat /\ o <= l
            BY <5>1
          <6>2. \A k \in 1..o : k \in 1..l /\ words[k] \in Words /\ more[k] = words[k]
            BY <4>3, <4>6, <6>1 DEF l
          <6> HIDE DEF o
          <6>3. \A k \in 1..o : words[k] \in Words /\ more[k] \in Words
            BY <6>2
          <6>4. o - 1 + 1 = o /\ \A k \in 1..o : 1 + k - 1 = k
            BY <6>1
          <6>5. /\ SubSeq(words, 1, o) \in Seq(Words) /\ SubSeq(more, 1, o) \in Seq(Words)
                /\ Len(SubSeq(words, 1, o)) = IF 1 <= o THEN o - 1 + 1 ELSE 0
                /\ Len(SubSeq(more, 1, o)) = IF 1 <= o THEN o - 1 + 1 ELSE 0
                /\ \A k \in 1..(o - 1 + 1) : SubSeq(words, 1, o)[k] = words[1 + k - 1]
                /\ \A k \in 1..(o - 1 + 1) : SubSeq(more, 1, o)[k] = more[1 + k - 1]
            BY <6>1, <6>3, SubSeqProperties
          <6> DEFINE s == SubSeq(words, 1, o)
                     t == SubSeq(more, 1, o)
          <6>6. s \in Seq(Words) /\ t \in Seq(Words) /\ Len(s) = o /\ Len(t) = o
            BY <6>1, <6>5
          <6>7. \A k \in 1..o : s[k] = t[k]
            BY <6>2, <6>4, <6>5
          <6> HIDE DEF s, t
          <6>8. s = t
            BY <6>6, <6>7
          <6> QED
            BY <6>8 DEF s, t, o
        <5> QED
          BY <4>6, <5>1, <5>2, <5>3 DEF IsPrefix
      <4>12. Gathers(next, own, extra, i + 1)
        BY <4>7, <4>8, <4>9, <4>11 DEF Gathers, more
      <4> QED
        BY <3>1, <4>12 DEF Q, next
    <3> QED
      BY <3>4, <3>5
  <2>4. n \in Q
    <3> HIDE DEF Q
    <3> QED
      BY <2>1, <2>2, <2>3, CountUp
  <2>5. Gathers(with_global(value, global), own, extra, n) /\ with_global(value, global) \in Words
    BY <1>5, <2>1, <2>4
  <2> QED
    BY <2>5 DEF own, extra, n
<1> QED
  BY <1>6, <1>7

----------------------------------------------------------------------------
(* Words in their order.                                                   *)

\* v comes before w: they agree up to i, where v ends or has the smaller character.
BeforeAt(v, w, i) ==
    /\ i \in 1..(Len(v) + 1)
    /\ i <= Len(w)
    /\ \A j \in 1..(i - 1) : v[j] = w[j]
    /\ i <= Len(v) => v[i] < w[i]

LEMMA BeforeFacts ==
  ASSUME NEW v \in Words, NEW w \in Words
  PROVE  Before(v, w) <=> \E i \in Nat : BeforeAt(v, w, i)
<1> DEFINE n == Len(v)
           m == Len(w)
<1>1. /\ v \in Seq(Nat) /\ w \in Seq(Nat) /\ n \in Nat /\ m \in Nat
      /\ DOMAIN v = 1..n /\ DOMAIN w = 1..m
      /\ \A i \in 1..n : v[i] \in Nat
      /\ \A i \in 1..m : w[i] \in Nat
  BY WordFacts
<1>2. ASSUME n < m PROVE v = SubSeq(w, 1, n) <=> \A j \in 1..n : v[j] = w[j]
  <2> DEFINE t == SubSeq(w, 1, n)
  <2>1. \A k \in 1..n : w[k] \in Nat
    BY <1>1, <1>2
  <2>2. /\ t \in Seq(Nat) /\ Len(t) = IF 1 <= n THEN n - 1 + 1 ELSE 0
        /\ \A k \in 1..(n - 1 + 1) : t[k] = w[1 + k - 1]
    BY <1>1, <2>1, SubSeqProperties
  <2>3. n - 1 + 1 = n /\ \A k \in 1..n : 1 + k - 1 = k
    BY <1>1
  <2> HIDE DEF t
  <2>4. Len(t) = n /\ \A k \in 1..n : t[k] = w[k]
    BY <1>1, <2>2, <2>3
  <2>5. (\A k \in 1..n : v[k] = t[k]) => v = t
    BY <1>1, <2>2, <2>4, SeqEqual
  <2> QED
    BY <2>4, <2>5 DEF t
<1>3. ASSUME Before(v, w) PROVE \E i \in Nat : BeforeAt(v, w, i)
  <2>1. CASE n < m /\ v = SubSeq(w, 1, n)
    <3>1. n + 1 \in Nat /\ n + 1 - 1 = n /\ ~(n + 1 <= n) /\ n + 1 <= m /\ n + 1 \in 1..(n + 1)
      BY <1>1, <2>1
    <3>2. \A j \in 1..n : v[j] = w[j]
      BY <1>2, <2>1
    <3>3. BeforeAt(v, w, n + 1)
      BY <3>1, <3>2 DEF BeforeAt
    <3> QED
      BY <3>1, <3>3
  <2>2. ASSUME NEW i \in DOMAIN v \cap DOMAIN w, v[i] < w[i], \A j \in 1..(i - 1) : v[j] = w[j]
        PROVE  \E k \in Nat : BeforeAt(v, w, k)
    <3>1. i \in Nat /\ i \in 1..(n + 1) /\ i <= m
      BY <1>1, <2>2
    <3>2. BeforeAt(v, w, i)
      BY <2>2, <3>1 DEF BeforeAt
    <3> QED
      BY <3>1, <3>2
  <2> QED
    BY <1>3, <2>1, <2>2 DEF Before
<1>4. ASSUME NEW i \in Nat, BeforeAt(v, w, i) PROVE Before(v, w)
  <2>1. i \in 1..(n + 1) /\ i <= m /\ (\A j \in 1..(i - 1) : v[j] = w[j]) /\ (i <= n => v[i] < w[i])
    BY <1>4 DEF BeforeAt
  <2>2. CASE i <= n
    <3>1. i \in DOMAIN v \cap DOMAIN w
      BY <1>1, <2>1, <2>2
    <3> QED
      BY <2>1, <2>2, <3>1 DEF Before
  <2>3. CASE ~(i <= n)
    <3>1. i - 1 = n /\ n < m
      BY <1>1, <2>1, <2>3
    <3>2. v = SubSeq(w, 1, n)
      BY <1>2, <2>1, <3>1
    <3> QED
      BY <3>1, <3>2 DEF Before
  <2> QED
    BY <2>2, <2>3
<1> QED
  BY <1>3, <1>4

\* It is a strict and total order.
LEMMA BeforeOrders ==
  ASSUME NEW v \in Words, NEW w \in Words
  PROVE  /\ ~Before(v, v)
         /\ v = w \/ Before(v, w) \/ Before(w, v)
         /\ \A x \in Words : Before(v, w) /\ Before(w, x) => Before(v, x)
         /\ ~(Before(v, w) /\ Before(w, v))
<1>1. \A x \in Words : x \in Seq(Nat) /\ Len(x) \in Nat /\ \A i \in 1..Len(x) : x[i] \in Nat
  BY WordFacts
<1>2. \A x \in Words : ~Before(x, x)
  <2> SUFFICES ASSUME NEW x \in Words, NEW i \in Nat, BeforeAt(x, x, i) PROVE FALSE
    BY BeforeFacts
  <2>1. i \in 1..Len(x) /\ i <= Len(x) /\ x[i] < x[i]
    BY <1>1 DEF BeforeAt
  <2> DEFINE c == x[i]
  <2>2. c \in Nat /\ c < c
    BY <1>1, <2>1
  <2> QED
    BY <2>2
<1>3. ASSUME NEW x \in Words, Before(v, w), Before(w, x) PROVE Before(v, x)
  <2>1. PICK i \in Nat : BeforeAt(v, w, i)
    BY <1>3, BeforeFacts
  <2>2. PICK j \in Nat : BeforeAt(w, x, j)
    BY <1>3, BeforeFacts
  <2>3. /\ i \in 1..(Len(v) + 1) /\ i <= Len(w) /\ (\A k \in 1..(i - 1) : v[k] = w[k])
        /\ (i <= Len(v) => v[i] < w[i])
    BY <2>1 DEF BeforeAt
  <2>4. /\ j \in 1..(Len(w) + 1) /\ j <= Len(x) /\ (\A k \in 1..(j - 1) : w[k] = x[k])
        /\ (j <= Len(w) => w[j] < x[j])
    BY <2>2 DEF BeforeAt
  <2>5. CASE i < j
    <3>1. \A k \in 1..(i - 1) : k \in 1..(j - 1)
      BY <2>3, <2>4, <2>5
    <3>2. i \in 1..(j - 1) /\ i <= Len(x)
      BY <1>1, <2>3, <2>4, <2>5
    <3>3. w[i] = x[i] /\ \A k \in 1..(i - 1) : v[k] = x[k]
      BY <2>3, <2>4, <3>1, <3>2
    <3>4. BeforeAt(v, x, i)
      BY <2>3, <3>2, <3>3 DEF BeforeAt
    <3> QED
      BY <3>4, BeforeFacts
  <2>6. CASE j < i
    <3>1. \A k \in 1..(j - 1) : k \in 1..(i - 1)
      BY <2>3, <2>4, <2>6
    <3>2. j \in 1..(i - 1) /\ j \in 1..(Len(v) + 1) /\ j <= Len(w)
      BY <1>1, <2>3, <2>4, <2>6
    <3>3. v[j] = w[j] /\ \A k \in 1..(j - 1) : v[k] = x[k]
      BY <2>3, <2>4, <3>1, <3>2
    <3>4. BeforeAt(v, x, j)
      BY <2>4, <3>2, <3>3 DEF BeforeAt
    <3> QED
      BY <3>4, BeforeFacts
  <2>7. CASE i = j
    <3>1. w[i] < x[i] /\ i <= Len(x) /\ i \in 1..Len(w) /\ i \in 1..Len(x)
      BY <1>1, <2>3, <2>4, <2>7
    <3>2. \A k \in 1..(i - 1) : v[k] = x[k]
      BY <2>3, <2>4, <2>7
    <3>3. i <= Len(v) => v[i] < x[i]
      <4> SUFFICES ASSUME i <= Len(v) PROVE v[i] < x[i]
        OBVIOUS
      <4> DEFINE a == v[i]
                 b == w[i]
                 c == x[i]
      <4>1. i \in 1..Len(v)
        BY <1>1, <2>3
      <4>2. a \in Nat /\ b \in Nat /\ c \in Nat /\ a < b /\ b < c
        BY <1>1, <2>3, <3>1, <4>1
      <4> HIDE DEF a, b, c
      <4>3. a < c
        BY <4>2
      <4> QED
        BY <4>3 DEF a, c
    <3>4. BeforeAt(v, x, i)
      BY <2>3, <3>1, <3>2, <3>3 DEF BeforeAt
    <3> QED
      BY <3>4, BeforeFacts
  <2> QED
    BY <2>5, <2>6, <2>7
<1>4. v = w \/ Before(v, w) \/ Before(w, v)
  <2> DEFINE n == Len(v)
             m == Len(w)
             Parting == {i \in 1..(n + 1) : i > n \/ i > m \/ v[i] # w[i]}
  <2>1. n \in Nat /\ m \in Nat
    BY <1>1
  <2>2. Parting \subseteq Nat /\ Parting # {}
    <3>1. n + 1 \in Parting
      BY <2>1
    <3> QED
      BY <2>1, <3>1
  <2>3. PICK i \in Parting : \A j \in Parting : i <= j
    <3> HIDE DEF Parting
    <3> QED
      BY <2>2, LeastExists
  <2>4. i \in 1..(n + 1) /\ i \in Nat
    BY <2>1
  <2>5. \A j \in 1..(i - 1) : j <= n /\ j <= m /\ v[j] = w[j]
    <3> TAKE j \in 1..(i - 1)
    <3>1. j \in 1..(n + 1) /\ ~(i <= j)
      BY <2>1, <2>4
    <3>2. j \notin Parting
      BY <2>3, <3>1
    <3> QED
      BY <2>1, <3>1, <3>2
  <2>6. i > n \/ i > m \/ v[i] # w[i]
    OBVIOUS
  <2> HIDE DEF Parting
  <2>7. i - 1 <= n /\ i - 1 <= m
    <3>1. CASE i = 1
      BY <2>1, <3>1
    <3>2. CASE i # 1
      <4>1. i - 1 \in 1..(i - 1)
        BY <2>4, <3>2
      <4> QED
        BY <2>5, <4>1
    <3> QED
      BY <3>1, <3>2
  <2>8. CASE i > n /\ i > m
    <3>1. n = i - 1 /\ m = i - 1
      BY <2>1, <2>4, <2>7, <2>8
    <3> QED
      BY <1>1, <2>5, <3>1, SeqEqual
  <2>9. CASE i > n /\ ~(i > m)
    <3>1. BeforeAt(v, w, i)
      BY <2>1, <2>4, <2>5, <2>9 DEF BeforeAt
    <3> QED
      BY <2>4, <3>1, BeforeFacts
  <2>10. CASE ~(i > n) /\ i > m
    <3>1. BeforeAt(w, v, i)
      BY <2>1, <2>4, <2>5, <2>7, <2>10 DEF BeforeAt
    <3> QED
      BY <2>4, <3>1, BeforeFacts
  <2>11. CASE ~(i > n) /\ ~(i > m)
    <3> DEFINE a == v[i]
               b == w[i]
    <3>1. i \in 1..n /\ i \in 1..m
      BY <2>1, <2>4, <2>11
    <3>2. a \in Nat /\ b \in Nat /\ a # b
      BY <1>1, <2>6, <2>11, <3>1
    <3> HIDE DEF a, b
    <3>3. a < b \/ b < a
      BY <3>2
    <3>4. a < b => BeforeAt(v, w, i)
      BY <2>1, <2>4, <2>5, <2>11 DEF BeforeAt, a, b
    <3>5. b < a => BeforeAt(w, v, i)
      BY <2>1, <2>4, <2>5, <2>7, <2>11 DEF BeforeAt, a, b
    <3> QED
      BY <2>4, <3>3, <3>4, <3>5, BeforeFacts
  <2> QED
    BY <2>8, <2>9, <2>10, <2>11
<1>5. ~(Before(v, w) /\ Before(w, v))
  BY <1>2, <1>3
<1> QED
  BY <1>2, <1>3, <1>4, <1>5

\* R is a total order on the finite set S.
Orders(R, S) ==
    /\ IsFiniteSet(S)
    /\ \A i, j \in S : <<i, j>> \in R \/ <<j, i>> \in R
    /\ \A i, j \in S : <<i, j>> \in R /\ <<j, i>> \in R => i = j
    /\ \A i, j, k \in S : <<i, j>> \in R /\ <<j, k>> \in R => <<i, k>> \in R

\* The elements of S in their order.
LEMMA OrderedFacts ==
  ASSUME NEW S, NEW R, Orders(R, S)
  PROVE  LET n == Cardinality(S) IN
         /\ n \in Nat
         /\ Ordered(S, R) \in [1..n -> S]
         /\ \A i \in S : \E k \in 1..n : Ordered(S, R)[k] = i
         /\ \A k \in 1..(n - 1) : <<Ordered(S, R)[k], Ordered(S, R)[k + 1]>> \in R
<1> USE DEF Orders
<1> DEFINE n == Cardinality(S)
           Upto(i) == {j \in S : <<j, i>> \in R}
           rank == [i \in S |-> Cardinality(Upto(i))]
           O == Ordered(S, R)
<1>1. n \in Nat /\ IsFiniteSet(S)
  BY FS_CardinalityType
<1>2. ASSUME NEW i \in S
      PROVE  IsFiniteSet(Upto(i)) /\ Cardinality(Upto(i)) \in 1..n
  <2>1. Upto(i) \in SUBSET S /\ i \in Upto(i)
    OBVIOUS
  <2> HIDE DEF Upto
  <2>2. IsFiniteSet(Upto(i)) /\ Cardinality(Upto(i)) \in Nat /\ Cardinality(Upto(i)) <= n
    BY <1>1, <2>1, FS_Subset, FS_CardinalityType
  <2>3. Cardinality(Upto(i)) # 0
    BY <2>1, <2>2, FS_EmptySet
  <2> QED
    BY <1>1, <2>2, <2>3
<1>3. ASSUME NEW i \in S, NEW j \in S, <<i, j>> \in R, i # j
      PROVE  Cardinality(Upto(i)) < Cardinality(Upto(j))
  <2>1. Upto(i) \in SUBSET Upto(j)
    BY <1>3
  <2>2. j \in Upto(j) /\ j \notin Upto(i)
    BY <1>3
  <2> HIDE DEF Upto
  <2>3. Cardinality(Upto(i)) <= Cardinality(Upto(j)) /\ Cardinality(Upto(i)) # Cardinality(Upto(j))
    BY <1>2, <2>1, <2>2, FS_Subset
  <2> QED
    BY <1>2, <2>3
<1>4. rank \in Injection(S, 1..n)
  <2>1. rank \in [S -> 1..n]
    BY <1>2
  <2>2. ASSUME NEW i \in S, NEW j \in S, i # j PROVE rank[i] # rank[j]
    <3>1. /\ rank[i] = Cardinality(Upto(i)) /\ rank[j] = Cardinality(Upto(j))
          /\ Cardinality(Upto(i)) \in Nat /\ Cardinality(Upto(j)) \in Nat
      BY <1>2
    <3>2. <<i, j>> \in R \/ <<j, i>> \in R
      OBVIOUS
    <3>3. Cardinality(Upto(i)) < Cardinality(Upto(j)) \/ Cardinality(Upto(j)) < Cardinality(Upto(i))
      BY <1>3, <2>2, <3>2
    <3> HIDE DEF rank, Upto
    <3> QED
      BY <3>1, <3>3
  <2> HIDE DEF rank
  <2> QED
    BY <2>1, <2>2 DEF Injection, IsInjective
<1>5. \A k \in 1..n : \E i \in S : rank[i] = k
  <2>1. IsFiniteSet(1..n) /\ Cardinality(1..n) = n
    BY <1>1, FS_Interval
  <2> HIDE DEF rank
  <2>2. rank \in Surjection(S, 1..n)
    BY <1>4, <2>1, FS_Injection
  <2> QED
    BY <2>2 DEF Surjection
<1>6. O = [k \in 1..n |-> CHOOSE i \in S : Cardinality(Upto(i)) = k]
  BY DEF Ordered
<1>7. ASSUME NEW k \in 1..n PROVE O[k] \in S /\ Cardinality(Upto(O[k])) = k
  <2>1. PICK i \in S : rank[i] = k
    BY <1>5
  <2>2. Cardinality(Upto(i)) = k
    BY <2>1
  <2> HIDE DEF Upto, rank
  <2> DEFINE c == CHOOSE x \in S : Cardinality(Upto(x)) = k
  <2>3. c \in S /\ Cardinality(Upto(c)) = k
    BY <2>2
  <2>4. O[k] = c
    BY <1>6
  <2> QED
    BY <2>3, <2>4
<1>8. O \in [1..n -> S]
  BY <1>6, <1>7
<1> HIDE DEF O, Upto, n
<1>9. ASSUME NEW i \in S PROVE \E k \in 1..n : O[k] = i
  <2> DEFINE k == Cardinality(Upto(i))
             j == O[k]
  <2>1. k \in 1..n
    BY <1>2
  <2>2. j \in S /\ Cardinality(Upto(j)) = k
    BY <1>7, <2>1
  <2>3. j = i
    <3> SUFFICES ASSUME j # i PROVE FALSE
      OBVIOUS
    <3>1. k \in Nat
      BY <1>1, <2>1
    <3>2. <<i, j>> \in R \/ <<j, i>> \in R
      BY <2>2
    <3> HIDE DEF j
    <3>3. Cardinality(Upto(i)) < Cardinality(Upto(j)) \/ Cardinality(Upto(j)) < Cardinality(Upto(i))
      BY <1>3, <2>2, <3>2
    <3>4. k = Cardinality(Upto(i))
      OBVIOUS
    <3> HIDE DEF k
    <3> QED
      BY <2>2, <3>1, <3>3, <3>4
  <2> QED
    BY <2>1, <2>3
<1>10. ASSUME NEW k \in 1..(n - 1) PROVE <<O[k], O[k + 1]>> \in R
  <2> DEFINE i == O[k]
             j == O[k + 1]
  <2>1. k \in 1..n /\ k + 1 \in 1..n /\ k \in Nat
    BY <1>1 DEF n
  <2>2. i \in S /\ j \in S /\ Cardinality(Upto(i)) = k /\ Cardinality(Upto(j)) = k + 1
    BY <1>7, <2>1
  <2> HIDE DEF i, j
  <2>3. i # j
    BY <2>1, <2>2
  <2>4. ~(<<j, i>> \in R)
    <3> SUFFICES ASSUME <<j, i>> \in R PROVE FALSE
      OBVIOUS
    <3>1. Cardinality(Upto(j)) < Cardinality(Upto(i))
      BY <1>3, <2>2, <2>3
    <3> QED
      BY <2>1, <2>2, <3>1
  <2> QED
    BY <2>2, <2>4 DEF i, j
<1> QED
  BY <1>1, <1>8, <1>9, <1>10 DEF O, n

\* A word at place i comes no later than that at place j.
NoLaterPlaces(words) ==
    {p \in (DOMAIN words) \X (DOMAIN words) :
        Before(words[p[1]], words[p[2]]) \/ (words[p[1]] = words[p[2]] /\ p[1] <= p[2])}

LEMMA PlacesFacts ==
  ASSUME NEW words, NEW i \in DOMAIN words, NEW j \in DOMAIN words
  PROVE  <<i, j>> \in NoLaterPlaces(words) <=>
             Before(words[i], words[j]) \/ (words[i] = words[j] /\ i <= j)
<1> DEFINE p == <<i, j>>
<1>1. p \in (DOMAIN words) \X (DOMAIN words) /\ p[1] = i /\ p[2] = j
  <2>1. p \in (DOMAIN words) \X (DOMAIN words)
    OBVIOUS
  <2>2. p[1] = i
    OBVIOUS
  <2>3. p[2] = j
    OBVIOUS
  <2> QED
    BY <2>1, <2>2, <2>3
<1> HIDE DEF p
<1>2. p \in NoLaterPlaces(words) <=>
          Before(words[p[1]], words[p[2]]) \/ (words[p[1]] = words[p[2]] /\ p[1] <= p[2])
  BY <1>1 DEF NoLaterPlaces
<1> QED
  BY <1>1, <1>2 DEF p

LEMMA SortedUnfolds ==
  ASSUME NEW words
  PROVE  sorted(words) =
             [k \in DOMAIN words |-> words[Ordered(DOMAIN words, NoLaterPlaces(words))[k]]]
BY DEF sorted, NoLaterPlaces

LEMMA PlacesAreOrdered ==
  ASSUME NEW words \in Seq(Words)
  PROVE  Orders(NoLaterPlaces(words), DOMAIN words)
<1> DEFINE n == Len(words)
           R == NoLaterPlaces(words)
<1>1. n \in Nat /\ DOMAIN words = 1..n /\ \A i \in 1..n : words[i] \in Words
  OBVIOUS
<1>2. \A i, j \in 1..n : <<i, j>> \in R <=>
          Before(words[i], words[j]) \/ (words[i] = words[j] /\ i <= j)
  BY <1>1, PlacesFacts
<1>3. IsFiniteSet(1..n)
  BY <1>1, FS_Interval
<1> HIDE DEF n, R
<1>4. ASSUME NEW i \in 1..n, NEW j \in 1..n PROVE <<i, j>> \in R \/ <<j, i>> \in R
  <2>1. words[i] \in Words /\ words[j] \in Words
    BY <1>1
  <2>2. words[i] = words[j] \/ Before(words[i], words[j]) \/ Before(words[j], words[i])
    BY <2>1, BeforeOrders
  <2> QED
    BY <1>1, <1>2, <2>2
<1>5. ASSUME NEW i \in 1..n, NEW j \in 1..n, <<i, j>> \in R, <<j, i>> \in R PROVE i = j
  <2>1. words[i] \in Words /\ words[j] \in Words
    BY <1>1
  <2>2. ~(Before(words[i], words[j]) /\ Before(words[j], words[i]))
        /\ ~Before(words[i], words[i])
    BY <2>1, BeforeOrders
  <2> QED
    BY <1>1, <1>2, <1>5, <2>2
<1>6. ASSUME NEW i \in 1..n, NEW j \in 1..n, NEW k \in 1..n, <<i, j>> \in R, <<j, k>> \in R
      PROVE  <<i, k>> \in R
  <2>1. words[i] \in Words /\ words[j] \in Words /\ words[k] \in Words
    BY <1>1
  <2>2. Before(words[i], words[j]) /\ Before(words[j], words[k]) => Before(words[i], words[k])
    BY <2>1, BeforeOrders
  <2> QED
    BY <1>1, <1>2, <1>6, <2>2
<1>7. Orders(R, 1..n)
  BY <1>3, <1>4, <1>5, <1>6 DEF Orders
<1> QED
  BY <1>1, <1>7 DEF R

\* sort keeps the words, and none comes before the one in front of it.
LEMMA SortedFacts ==
  ASSUME NEW words \in Seq(Words)
  PROVE  LET s == sorted(words) IN
         /\ s \in Seq(Words) /\ Len(s) = Len(words) /\ DOMAIN s = 1..Len(words)
         /\ ToSet(s) = ToSet(words)
         /\ \A k \in 1..(Len(words) - 1) : ~Before(s[k + 1], s[k])
<1> DEFINE n == Len(words)
           R == NoLaterPlaces(words)
           at == Ordered(DOMAIN words, R)
           s == sorted(words)
<1>1. n \in Nat /\ DOMAIN words = 1..n /\ \A i \in 1..n : words[i] \in Words
  OBVIOUS
<1>2. s = [k \in 1..n |-> words[at[k]]]
  BY <1>1, SortedUnfolds
<1>3. \A i, j \in 1..n : <<i, j>> \in R <=>
          Before(words[i], words[j]) \/ (words[i] = words[j] /\ i <= j)
  BY <1>1, PlacesFacts
<1>4. Orders(R, DOMAIN words)
  BY PlacesAreOrdered
<1>5. Cardinality(DOMAIN words) = n
  <2>1. Cardinality(1..n) = n
    <3>1. \A m \in Nat : Cardinality(1..m) = m
      BY FS_Interval
    <3> QED
      BY <1>1, <3>1
  <2> QED
    BY <1>1, <2>1
<1> HIDE DEF R
<1>6. /\ at \in [1..n -> 1..n]
      /\ \A i \in 1..n : \E k \in 1..n : at[k] = i
      /\ \A k \in 1..(n - 1) : <<at[k], at[k + 1]>> \in R
  BY <1>1, <1>4, <1>5, OrderedFacts, SMTT(30)
<1> HIDE DEF n, at, s
<1>7. s \in [1..n -> Words]
  BY <1>1, <1>2, <1>6
<1>8. s \in Seq(Words) /\ Len(s) = n /\ DOMAIN s = 1..n
  BY <1>1, <1>7
<1>9. \A k \in 1..n : s[k] = words[at[k]]
  BY <1>2
<1>10. ToSet(s) = ToSet(words)
  <2>1. \A k \in 1..n : \E i \in 1..n : s[k] = words[i]
    BY <1>6, <1>9
  <2>2. ASSUME NEW i \in 1..n PROVE \E k \in 1..n : words[i] = s[k]
    <3>1. PICK k \in 1..n : at[k] = i
      BY <1>6
    <3>2. s[k] = words[at[k]]
      BY <1>9
    <3> QED
      BY <3>1, <3>2
  <2> QED
    <3>1. ToSet(s) = {s[k] : k \in 1..n} /\ ToSet(words) = {words[i] : i \in 1..n}
      BY <1>1, <1>8 DEF ToSet
    <3> QED
      BY <2>1, <2>2, <3>1
<1>11. ASSUME NEW k \in 1..(n - 1) PROVE ~Before(s[k + 1], s[k])
  <2>1. k \in 1..n /\ k + 1 \in 1..n
    BY <1>1
  <2> DEFINE i == at[k]
             j == at[k + 1]
  <2>2. i \in 1..n /\ j \in 1..n /\ <<i, j>> \in R
    BY <1>6, <2>1
  <2>3. s[k] = words[i] /\ s[k + 1] = words[j]
    BY <1>9, <2>1
  <2> HIDE DEF i, j
  <2>4. words[i] \in Words /\ words[j] \in Words
    BY <1>1, <2>2
  <2>5. ~(Before(words[i], words[j]) /\ Before(words[j], words[i]))
        /\ ~Before(words[i], words[i])
    BY <2>4, BeforeOrders
  <2> QED
    BY <1>3, <2>2, <2>3, <2>5
<1> QED
  BY <1>1, <1>8, <1>10, <1>11 DEF n, s

----------------------------------------------------------------------------
(* A line.                                                                 *)

\* What LineIsRight says of a line whose own words and those of E_n are these.
RightLine(own, extra, name, words) ==
    LET line_words == IF words = <<Empty>> THEN <<>> ELSE words
    IN /\ ToSet(line_words) \subseteq ToSet(extra) \cup ToSet(own)
       /\ \A w \in ToSet(extra) \cup ToSet(own) : \E v \in ToSet(line_words) : find(v, w)
       /\ IF name = INHERITED
          THEN \A k \in 1..(Len(words) - 1) : ~Before(words[k + 1], words[k])
          ELSE /\ IsPrefix(own, line_words)
               /\ \A i, k \in DOMAIN line_words :
                     i < k /\ k > Len(own) => ~find(line_words[i], line_words[k])

\* The words are all there.
LEMMA GatheredWords ==
  ASSUME NEW all \in Words, NEW own \in Seq(Words), NEW extra \in Seq(Words),
         Gathers(all, own, extra, Len(extra)), \A k \in 1..Len(extra) : Solid(extra[k], Blanks)
  PROVE  \A w \in ToSet(extra) \cup ToSet(own) : \E v \in ToSet(Runs(all, Blanks)) : find(v, w)
<1> DEFINE words == Runs(all, Blanks)
<1>1. words \in Seq(Words)
  BY RunsAreSolid
<1>2. Len(words) \in Nat /\ DOMAIN words = 1..Len(words) /\ Len(own) \in Nat
  BY <1>1
<1>3. ASSUME NEW j \in 1..Len(extra) PROVE \E v \in ToSet(words) : find(v, extra[j])
  <2>1. find(all, extra[j]) /\ Solid(extra[j], Blanks)
    BY DEF Gathers
  <2>2. \E k \in 1..Len(words) : find(words[k], extra[j])
    BY <2>1, FindInRuns
  <2> QED
    BY <1>2, <2>2 DEF ToSet
<1>4. ASSUME NEW j \in 1..Len(own) PROVE \E v \in ToSet(words) : find(v, own[j])
  <2>1. IsPrefix(own, words)
    BY DEF Gathers
  <2> HIDE DEF words
  <2>2. Len(own) <= Len(words) /\ own[j] = words[j]
    BY <1>1, <1>2, <2>1 DEF IsPrefix
  <2>3. own[j] \in Words
    OBVIOUS
  <2>4. find(own[j], own[j])
    BY <2>3, FindsItself
  <2>5. j \in DOMAIN words
    BY <1>2, <2>2
  <2>6. own[j] \in ToSet(words)
    BY <2>2, <2>5 DEF ToSet
  <2> QED
    BY <2>4, <2>6
<1> QED
  BY <1>3, <1>4 DEF ToSet

\* The line of these words.
LineOf(runs, name) ==
    LET w == IF runs = <<>> THEN <<Empty>> ELSE runs
    IN IF name = INHERITED THEN sorted(w) ELSE w

SolidWords(runs) == runs \in Seq(Words) /\ \A k \in 1..Len(runs) : Solid(runs[k], Blanks)

\* split makes one empty word of a line without words.
LEMMA LineWords ==
  ASSUME NEW runs, SolidWords(runs), NEW name, NEW words, words = LineOf(runs, name)
  PROVE  LET line_words == IF words = <<Empty>> THEN <<>> ELSE words IN
         /\ ToSet(line_words) = ToSet(runs)
         /\ name # INHERITED => line_words = runs
         /\ name = INHERITED =>
               \A k \in 1..(Len(words) - 1) : ~Before(words[k + 1], words[k])
<1> DEFINE line_words == IF words = <<Empty>> THEN <<>> ELSE words
           none == <<Empty>>
           w == IF runs = <<>> THEN none ELSE runs
<1>0. runs \in Seq(Words) /\ \A k \in 1..Len(runs) : Solid(runs[k], Blanks)
  BY DEF SolidWords
<1>1. none \in Seq(Words) /\ Len(none) = 1 /\ none[1] = Empty
  BY WordsAssumption
<1>2. ASSUME NEW s \in Seq(Words), ToSet(s) = ToSet(runs), runs # <<>> PROVE s # none
  <2>1. \A k \in 1..Len(runs) : runs[k] # Empty
    BY <1>0, WordsAreCodes DEF Solid
  <2>2. Empty \notin ToSet(runs)
    BY <1>0, <2>1 DEF ToSet
  <2>3. Empty \in ToSet(none)
    BY <1>1 DEF ToSet
  <2> QED
    BY <1>2, <2>2, <2>3
<1>3. CASE name # INHERITED
  <2>1. words = w
    BY <1>3 DEF LineOf
  <2>2. CASE runs = <<>>
    BY <1>3, <2>1, <2>2
  <2>3. CASE runs # <<>>
    <3>1. words = runs
      BY <2>1, <2>3
    <3>2. runs # none
      BY <1>0, <1>2, <2>3
    <3> QED
      BY <1>3, <3>1, <3>2
  <2> QED
    BY <2>2, <2>3
<1>4. CASE name = INHERITED
  <2>1. words = sorted(w)
    BY <1>4 DEF LineOf
  <2>2. w \in Seq(Words)
    BY <1>0, <1>1
  <2>3. CASE runs = <<>>
    <3>1. w = none
      BY <2>3
    <3> HIDE DEF w
    <3>2. /\ words \in Seq(Words) /\ Len(words) = 1 /\ DOMAIN words = 1..1
          /\ ToSet(words) = ToSet(none)
      BY <1>1, <2>1, <3>1, SortedFacts
    <3>3. words[1] \in ToSet(words) /\ ToSet(none) = {Empty}
      <4>1. words[1] \in ToSet(words)
        BY <3>2 DEF ToSet
      <4>2. ToSet(none) = {Empty}
        BY <1>1 DEF ToSet
      <4> QED
        BY <4>1, <4>2
    <3>4. words = none
      BY <1>1, <3>2, <3>3, SeqEqual
    <3>5. line_words = runs
      BY <2>3, <3>4
    <3>6. \A k \in 1..(Len(words) - 1) : FALSE
      BY <3>2
    <3> QED
      BY <1>4, <3>5, <3>6
  <2>4. CASE runs # <<>>
    <3>1. w = runs
      BY <2>4
    <3> HIDE DEF w
    <3>2. /\ words \in Seq(Words) /\ Len(words) = Len(runs) /\ ToSet(words) = ToSet(runs)
          /\ \A k \in 1..(Len(runs) - 1) : ~Before(words[k + 1], words[k])
      BY <1>0, <2>1, <3>1, SortedFacts
    <3>3. words # none
      BY <1>2, <2>4, <3>2
    <3> QED
      BY <1>4, <3>2, <3>3
  <2> QED
    BY <2>3, <2>4
<1> QED
  BY <1>3, <1>4

LEMMA GatheredLine ==
  ASSUME NEW all \in Words, NEW own \in Seq(Words), NEW extra \in Seq(Words),
         Gathers(all, own, extra, Len(extra)), \A k \in 1..Len(extra) : Solid(extra[k], Blanks),
         NEW name
  PROVE  RightLine(own, extra, name,
                   IF name = INHERITED THEN sorted(blank_separated(all)) ELSE blank_separated(all))
<1> DEFINE runs == Runs(all, Blanks)
           words == IF name = INHERITED THEN sorted(blank_separated(all)) ELSE blank_separated(all)
           line_words == IF words = <<Empty>> THEN <<>> ELSE words
<1>1. runs \in Seq(Words) /\ \A k \in 1..Len(runs) : Solid(runs[k], Blanks)
  BY RunsAreSolid
<1>2. blank_separated(all) = IF runs = <<>> THEN <<Empty>> ELSE runs
  BY BlankSeparated
<1>3. /\ IsPrefix(own, runs)
      /\ ToSet(runs) \subseteq ToSet(own) \cup ToSet(extra)
      /\ \A j, k \in 1..Len(runs) : j < k /\ k > Len(own) => ~find(runs[j], runs[k])
  BY DEF Gathers
<1>4. \A w \in ToSet(extra) \cup ToSet(own) : \E v \in ToSet(runs) : find(v, w)
  BY GatheredWords
<1>5. DOMAIN runs = 1..Len(runs)
  BY <1>1
<1> HIDE DEF runs
<1>6. /\ ToSet(line_words) = ToSet(runs)
      /\ name # INHERITED => line_words = runs
      /\ name = INHERITED => \A k \in 1..(Len(words) - 1) : ~Before(words[k + 1], words[k])
  <2>1. words = LineOf(runs, name)
    BY <1>2 DEF LineOf
  <2>2. SolidWords(runs)
    BY <1>1 DEF SolidWords
  <2> HIDE DEF words
  <2> QED
    BY <2>1, <2>2, LineWords
<1> HIDE DEF words
<1>7. ToSet(line_words) \subseteq ToSet(extra) \cup ToSet(own)
  BY <1>3, <1>6
<1>8. \A w \in ToSet(extra) \cup ToSet(own) : \E v \in ToSet(line_words) : find(v, w)
  BY <1>4, <1>6
<1>9. CASE name = INHERITED
  <2>1. RightLine(own, extra, name, words)
    BY <1>6, <1>7, <1>8, <1>9 DEF RightLine
  <2> QED
    BY <2>1 DEF words
<1>10. CASE name # INHERITED
  <2>1. line_words = runs
    BY <1>6, <1>10
  <2>2. /\ IsPrefix(own, line_words)
        /\ \A i, k \in DOMAIN line_words :
              i < k /\ k > Len(own) => ~find(line_words[i], line_words[k])
    BY <1>3, <1>5, <2>1
  <2>3. RightLine(own, extra, name, words)
    BY <1>7, <1>8, <1>10, <2>2 DEF RightLine
  <2> QED
    BY <2>3 DEF words
<1> QED
  BY <1>9, <1>10

\* Nothing is gathered from a name that is not defined.
LEMMA NothingGathered ==
  ASSUME NEW value \in Words
  PROVE  Gathers(value, Runs(value, Blanks), <<>>, Len(<<>>))
<1> DEFINE runs == Runs(value, Blanks)
<1>1. runs \in Seq(Words)
  BY RunsAreSolid
<1> HIDE DEF runs
<1>2. IsPrefix(runs, runs) /\ Len(runs) \in Nat
  BY <1>1 DEF IsPrefix
<1>3. ToSet(runs) \subseteq ToSet(runs) \cup ToSet(<<>>)
  OBVIOUS
<1>4. \A j, k \in 1..Len(runs) : j < k /\ k > Len(runs) => ~find(runs[j], runs[k])
  BY <1>2
<1>5. \A j \in 1..Len(<<>>) : find(value, <<>>[j])
  OBVIOUS
<1> QED
  BY <1>2, <1>3, <1>4, <1>5 DEF Gathers, runs

\* The names of the phases are all there.
LEMMA PhasesFacts ==
  ASSUME NEW functions, IsFiniteSet(functions)
  PROVE  ToSet(phases_line(functions)) = {phases[f] : f \in functions \cap DOMAIN phases}
<1> DEFINE F == functions \cap DOMAIN phases
           names == {phases[f] : f \in F}
           R == {p \in names \X names : ~Before(p[2], p[1])}
           O == Ordered(names, R)
           g == [f \in F |-> phases[f]]
<1>1. IsFiniteSet(F)
  <2>1. F \in SUBSET functions
    OBVIOUS
  <2> QED
    BY <2>1, FS_Subset
<1>2. IsFiniteSet(names)
  <2>1. g \in Surjection(F, names)
    BY DEF Surjection
  <2> QED
    BY <1>1, <2>1, FS_Surjection
<1>3. names \subseteq Words
  BY PhasesAssumption
<1>4. phases_line(functions) = O
  BY DEF phases_line
<1> HIDE DEF names
<1>5. ASSUME NEW v \in names, NEW w \in names PROVE <<v, w>> \in R <=> ~Before(w, v)
  <2> DEFINE p == <<v, w>>
  <2>1. p \in names \X names /\ p[1] = v /\ p[2] = w
    OBVIOUS
  <2> HIDE DEF p
  <2>2. p \in R <=> ~Before(p[2], p[1])
    BY <2>1
  <2> QED
    BY <2>1, <2>2 DEF p
<1> HIDE DEF R
<1>6. Orders(R, names)
  <2>1. ASSUME NEW v \in names, NEW w \in names
        PROVE  /\ <<v, w>> \in R \/ <<w, v>> \in R
               /\ <<v, w>> \in R /\ <<w, v>> \in R => v = w
    <3>1. v \in Words /\ w \in Words
      BY <1>3
    <3>2. (v = w \/ Before(v, w) \/ Before(w, v)) /\ ~(Before(v, w) /\ Before(w, v))
      BY <3>1, BeforeOrders
    <3> QED
      BY <1>5, <3>2
  <2>2. ASSUME NEW v \in names, NEW w \in names, NEW x \in names, <<v, w>> \in R, <<w, x>> \in R
        PROVE  <<v, x>> \in R
    <3>1. v \in Words /\ w \in Words /\ x \in Words
      BY <1>3
    <3>2. ~Before(w, v) /\ ~Before(x, w)
      BY <1>5, <2>2
    <3>3. SUFFICES ~Before(x, v)
      BY <1>5
    <3>4. v = w \/ Before(v, w)
      BY <3>1, <3>2, BeforeOrders
    <3>5. w = x \/ Before(w, x)
      BY <3>1, <3>2, BeforeOrders
    <3>6. v = x \/ Before(v, x)
      <4>1. Before(v, w) /\ Before(w, x) => Before(v, x)
        BY <3>1, BeforeOrders
      <4> QED
        BY <3>4, <3>5, <4>1
    <3>7. ~Before(v, v) /\ ~(Before(v, x) /\ Before(x, v))
      BY <3>1, BeforeOrders
    <3> QED
      BY <3>6, <3>7
  <2> QED
    BY <1>2, <2>1, <2>2 DEF Orders
<1> DEFINE n == Cardinality(names)
<1>7. /\ n \in Nat /\ O \in [1..n -> names]
      /\ \A i \in names : \E k \in 1..n : O[k] = i
  BY <1>6, OrderedFacts
<1> HIDE DEF n, O
<1>8. ToSet(O) = names
  <2>1. ToSet(O) = {O[k] : k \in 1..n}
    BY <1>7 DEF ToSet
  <2> QED
    BY <1>7, <2>1
<1> QED
  BY <1>4, <1>8 DEF names

----------------------------------------------------------------------------
(* What a command gives to the variables of a cache.                       *)

\* SaysPlainly for one command.
IsPlain(c) ==
    /\ c.kind = "assign" /\ c.name \in MetadataVariables => c.index = 0 /\ c.value.how = "word"
    /\ c.kind = "printf" => c.name \notin MetadataVariables
    /\ c.kind = "read" => ToSet(c.names) \cap MetadataVariables = {}

Gives(c, n) == c.kind \in {"assign", "list"} /\ c.name = n

Given(c) == IF c.kind = "list" THEN c.words ELSE <<c.value.word>>

\* A variable holds what a script says of it: its first word is in element 0.
Holds(var, said) ==
    IF said = None THEN var = None
    ELSE /\ said \in Seq(Words) /\ var \in Variable
         /\ said = <<>> => Elements(var) = {}
         /\ said # <<>> => var.value[0] = said[1]

\* The variables outside of changed, and the functions, stay.
Keeps(w, v, changed) ==
    /\ \A n \in Names \ changed : v.vars[n] = w.vars[n]
    /\ v.functions = w.functions

\* Variable name becomes var, the others and the functions stay.
Sets(w, v, name, var) == Keeps(w, v, {name}) /\ v.vars[name] = var

LEMMA AssignedKeeps ==
  ASSUME NEW w \in Interpreter, NEW name \in Names, NEW value, NEW index, NEW status
  PROVE  Sets(w, Done(Assigned(w, name, value, index), status).walker, name,
              IF w.vars[name] = None THEN Scalar(value, FALSE, index)
              ELSE WithValue(w.vars[name], value, index))
<1> DEFINE new == IF w.vars[name] = None THEN Scalar(value, FALSE, index)
                  ELSE WithValue(w.vars[name], value, index)
           x == Assigned(w, name, value, index)
           v == Done(x, status).walker
           vars_ == w.vars
<1>1. x = [w EXCEPT !.vars[name] = new]
  BY DEF Assigned
<1>2. vars_ \in [Names -> Variable \cup {None}]
  BY DEF Interpreter
<1> HIDE DEF new
<1>3. x.vars = [vars_ EXCEPT ![name] = new] /\ x.functions = w.functions
      /\ {"vars", "functions", "status"} \subseteq DOMAIN x
  BY <1>1 DEF Interpreter
<1> HIDE DEF x
<1>4. v = [x EXCEPT !.status = status]
  BY DEF Done
<1>5. v.vars = x.vars /\ v.functions = x.functions
  BY <1>3, <1>4
<1> HIDE DEF v, vars_
<1>6. /\ \A n \in Names \ {name} : v.vars[n] = vars_[n]
      /\ v.vars[name] = new
  BY <1>2, <1>3, <1>5
<1>7. Keeps(w, v, {name})
  BY <1>3, <1>5, <1>6 DEF Keeps, vars_
<1> QED
  BY <1>6, <1>7 DEF Sets, v, x, new

\* A variable that is made anew.
LEMMA MadeKeeps ==
  ASSUME NEW w \in Interpreter, NEW name \in Names, NEW var, NEW status
  PROVE  Sets(w, Done([w EXCEPT !.vars[name] = var], status).walker, name, var)
<1> DEFINE x == [w EXCEPT !.vars[name] = var]
           v == Done(x, status).walker
           vars_ == w.vars
<1>1. vars_ \in [Names -> Variable \cup {None}]
  BY DEF Interpreter
<1>2. x.vars = [vars_ EXCEPT ![name] = var] /\ x.functions = w.functions
      /\ {"vars", "functions", "status"} \subseteq DOMAIN x
  BY DEF Interpreter
<1> HIDE DEF x
<1>3. v = [x EXCEPT !.status = status]
  BY DEF Done
<1>4. v.vars = x.vars /\ v.functions = x.functions
  BY <1>2, <1>3
<1> HIDE DEF v, vars_
<1>5. /\ \A n \in Names \ {name} : v.vars[n] = vars_[n]
      /\ v.vars[name] = var
  BY <1>1, <1>2, <1>4
<1>6. Keeps(w, v, {name})
  BY <1>2, <1>4, <1>5 DEF Keeps, vars_
<1> QED
  BY <1>5, <1>6 DEF Sets, v, x

\* set_value for several names changes no other one.
LEMMA AssignAllKeeps ==
  ASSUME NEW w \in Interpreter, NEW names \in Seq(Names), NEW values \in Seq(Words),
         Len(values) <= Len(names), NEW status \in {0, 1}
  PROVE  Keeps(w, AssignAll(w, names, values, status).walker, ToSet(names))
<1> DEFINE n == Len(values)
           changed == ToSet(names)
<1>1. PICK acc \in [0..n -> Outcomes] :
          /\ acc[0] = Done(w, status)
          /\ \A i \in 1..n : acc[i] = AssignAllStep(w, names, values, status, acc[i - 1], i)
          /\ acc[n] = AssignAll(w, names, values, status)
  BY AssignAllUnfolds
<1>2. n \in Nat /\ Len(names) \in Nat /\ n <= Len(names)
      /\ \A i \in 1..Len(names) : names[i] \in Names /\ names[i] \in changed
  <2>1. DOMAIN names = 1..Len(names)
    OBVIOUS
  <2> QED
    BY <2>1 DEF ToSet
<1> HIDE DEF n, changed
<1> DEFINE Q == {i \in 0..n : Keeps(w, acc[i].walker, changed)}
<1>3. 0 \in Q
  <2>1. Done(w, status).walker = [w EXCEPT !.status = status]
    BY DEF Done
  <2>2. [w EXCEPT !.status = status].vars = w.vars
        /\ [w EXCEPT !.status = status].functions = w.functions
    BY DEF Interpreter
  <2>3. Keeps(w, acc[0].walker, changed)
    BY <1>1, <2>1, <2>2 DEF Keeps
  <2> QED
    BY <1>2, <2>3
<1>4. ASSUME NEW i \in 0..n, i \in Q, i < n PROVE i + 1 \in Q
  <2> DEFINE k == i + 1
             all == acc[i]
  <2>1. k \in 1..n /\ k - 1 = i /\ k \in 0..n /\ names[k] \in Names /\ names[k] \in changed
    BY <1>2, <1>4
  <2>2. acc[k] = AssignAllStep(w, names, values, status, all, k)
    BY <1>1, <2>1
  <2>3. Keeps(w, all.walker, changed) /\ all.walker \in Interpreter
    BY <1>1, <1>4 DEF Outcomes
  <2> HIDE DEF k, all
  <2>4. ASSUME all.thrown # None PROVE acc[k] = all
    BY <2>2, <2>4 DEF AssignAllStep
  <2>5. ASSUME all.thrown = None, is_readonly(all.walker, names[k])
        PROVE  acc[k].walker = all.walker
    BY <2>2, <2>5 DEF AssignAllStep, Thrown
  <2>6. ASSUME all.thrown = None, ~is_readonly(all.walker, names[k])
        PROVE  Keeps(w, acc[k].walker, changed)
    <3> DEFINE x == all.walker
               v == Done(Assigned(x, names[k], values[k], 0), status).walker
    <3>1. acc[k].walker = v
      BY <2>2, <2>6 DEF AssignAllStep
    <3>2. Keeps(x, v, {names[k]})
      BY <2>1, <2>3, AssignedKeeps DEF Sets
    <3> HIDE DEF x, v
    <3>3. Keeps(w, v, changed)
      BY <2>1, <2>3, <3>2 DEF Keeps, x
    <3> QED
      BY <3>1, <3>3
  <2>7. Keeps(w, acc[k].walker, changed)
    BY <2>3, <2>4, <2>5, <2>6
  <2> QED
    BY <2>1, <2>7 DEF k
<1>5. n \in Q
  <2> HIDE DEF Q
  <2> QED
    BY <1>2, <1>3, <1>4, CountUp
<1> QED
  BY <1>1, <1>5 DEF changed

\* A command that does not throw keeps what is outside of changed.
OutcomeKeeps(outcome, w, changed) == outcome.thrown = None => Keeps(w, outcome.walker, changed)

LEMMA ThrownKeeps ==
  ASSUME NEW x, NEW w, NEW changed, NEW exception \in {InterpreterException, OtherException}
  PROVE  OutcomeKeeps(Thrown(x, exception), w, changed)
BY ExceptionsAssumption DEF OutcomeKeeps, Thrown

LEMMA SameKeeps ==
  ASSUME NEW w, NEW x, x.vars = w.vars, x.functions = w.functions, 
         {"vars", "functions", "status"} \subseteq DOMAIN x, NEW status, NEW changed
  PROVE  OutcomeKeeps(Done(x, status), w, changed)
<1> DEFINE v == Done(x, status).walker
<1>1. v = [x EXCEPT !.status = status]
  BY DEF Done
<1>2. v.vars = w.vars /\ v.functions = w.functions
  BY <1>1
<1> HIDE DEF v
<1>3. Keeps(w, v, changed)
  BY <1>2 DEF Keeps
<1> QED
  BY <1>3 DEF OutcomeKeeps, v

LEMMA ShoptKeeps ==
  ASSUME NEW w \in Interpreter, NEW letter, NEW names
  PROVE  OutcomeKeeps(shopt(w, letter, names), w, {})
<1> DEFINE wrong == {k \in DOMAIN names : names[k] \notin ShoptNames}
           applied == IF wrong = {} THEN names ELSE SubSeq(names, 1, Min(wrong) - 1)
           changed == CASE letter = "s" -> [w EXCEPT !.additional = @ \cup ToSet(applied)]
                        [] letter = "u" -> [w EXCEPT !.additional = @ \ ToSet(applied)]
                        [] letter = "p" -> [w EXCEPT !.listed = @ \cup ShoptNames]
<1>1. ASSUME letter \in {"s", "u", "p"}
      PROVE  /\ changed.vars = w.vars /\ changed.functions = w.functions
             /\ {"vars", "functions", "status"} \subseteq DOMAIN changed
  <2> DEFINE S == ToSet(applied)
  <2> HIDE DEF S
  <2>1. changed = CASE letter = "s" -> [w EXCEPT !.additional = @ \cup S]
                    [] letter = "u" -> [w EXCEPT !.additional = @ \ S]
                    [] letter = "p" -> [w EXCEPT !.listed = @ \cup ShoptNames]
    BY DEF S
  <2> HIDE DEF changed
  <2> QED
    BY <1>1, <2>1 DEF Interpreter
<1>2. shopt(w, letter, names)
        = IF letter \notin {"s", "u", "p"} THEN Thrown(w, InterpreterException)
          ELSE IF letter # "p" /\ wrong # {} THEN Thrown(changed, InterpreterException)
          ELSE Done(changed, 0)
  BY DEF shopt
<1> HIDE DEF changed, wrong
<1>3. /\ OutcomeKeeps(Thrown(w, InterpreterException), w, {})
      /\ OutcomeKeeps(Thrown(changed, InterpreterException), w, {})
  BY ThrownKeeps
<1>4. letter \in {"s", "u", "p"} => OutcomeKeeps(Done(changed, 0), w, {})
  BY <1>1, SameKeeps
<1> QED
  BY <1>2, <1>3, <1>4

LEMMA ListedKeeps ==
  ASSUME NEW w \in Interpreter, NEW names, NEW status
  PROVE  OutcomeKeeps(Done([w EXCEPT !.listed = @ \cup names], status), w, {})
<1> DEFINE x == [w EXCEPT !.listed = @ \cup names]
<1>1. x.vars = w.vars /\ x.functions = w.functions
      /\ {"vars", "functions", "status"} \subseteq DOMAIN x
  BY DEF Interpreter
<1> HIDE DEF x
<1>2. OutcomeKeeps(Done(x, status), w, {})
  BY <1>1, SameKeeps
<1> QED
  BY <1>2 DEF x

LEMMA DeclareKeeps ==
  ASSUME NEW w \in Interpreter, NEW names
  PROVE  OutcomeKeeps(declare_F(w, names), w, {}) /\ OutcomeKeeps(declare_p(w, names), w, {})
<1> DEFINE known == ToSet(names) \cap w.functions
           statusF == IF ToSet(names) \subseteq w.functions THEN 0 ELSE 1
           unset == {n \in ToSet(names) : w.vars[n] = None}
           throws == \E n \in ToSet(names) \ unset :
                         resolve(w.vars[n], 0, u(w)) = InterpreterException
           statusP == IF unset = {} THEN 0 ELSE 1
<1>1. declare_F(w, names)
        = IF names = <<>> THEN Done([w EXCEPT !.listed = @ \cup w.functions], 0)
          ELSE Done([w EXCEPT !.listed = @ \cup known], statusF)
  BY DEF declare_F
<1>2. declare_p(w, names)
        = IF names = <<>> \/ throws THEN Thrown(w, InterpreterException)
          ELSE Done([w EXCEPT !.listed = @ \cup ToSet(names)], statusP)
  BY DEF declare_p
<1> HIDE DEF known, statusF, throws, statusP
<1>3. /\ OutcomeKeeps(Done([w EXCEPT !.listed = @ \cup w.functions], 0), w, {})
      /\ OutcomeKeeps(Done([w EXCEPT !.listed = @ \cup known], statusF), w, {})
      /\ OutcomeKeeps(Done([w EXCEPT !.listed = @ \cup ToSet(names)], statusP), w, {})
  BY ListedKeeps
<1>4. OutcomeKeeps(Thrown(w, InterpreterException), w, {})
  BY ThrownKeeps
<1> QED
  BY <1>1, <1>2, <1>3, <1>4

LEMMA TestKeeps ==
  ASSUME NEW w \in Interpreter, NEW t
  PROVE  OutcomeKeeps(Test(w, t), w, {})
<1> DEFINE holds == IF t.binary THEN test_binary(t.operator, t.lhs, t.rhs)
                    ELSE test_unary(t.operator, t.lhs.word, t.lhs.tty, t.lhs)
           status == IF holds THEN 0 ELSE 1
<1>1. Test(w, t) = IF holds = InterpreterException THEN Thrown(w, InterpreterException)
                   ELSE Done(w, status)
  BY DEF Test
<1> HIDE DEF holds, status
<1>2. {"vars", "functions", "status"} \subseteq DOMAIN w
  BY DEF Interpreter
<1>3. OutcomeKeeps(Done(w, status), w, {})
  BY <1>2, SameKeeps
<1>4. OutcomeKeeps(Thrown(w, InterpreterException), w, {})
  BY ThrownKeeps
<1> QED
  BY <1>1, <1>3, <1>4

LEMMA WrittenKeeps ==
  ASSUME NEW w \in Interpreter, NEW text
  PROVE  OutcomeKeeps(Done([w EXCEPT !.output = @ \o text], 0), w, {})
<1> DEFINE x == [w EXCEPT !.output = @ \o text]
<1>1. x.vars = w.vars /\ x.functions = w.functions
      /\ {"vars", "functions", "status"} \subseteq DOMAIN x
  BY DEF Interpreter
<1> HIDE DEF x
<1>2. OutcomeKeeps(Done(x, 0), w, {})
  BY <1>1, SameKeeps
<1> QED
  BY <1>2 DEF x

LEMMA EchoKeeps ==
  ASSUME NEW w \in Interpreter, NEW es
  PROVE  OutcomeKeeps(echo_builtin(w, es), w, {})
<1> DEFINE args == Arguments(w, es)
           text == echo(args)
<1>1. echo_builtin(w, es) = IF args = InterpreterException THEN Thrown(w, InterpreterException)
                            ELSE Done([w EXCEPT !.output = @ \o text], 0)
  BY DEF echo_builtin
<1> HIDE DEF args, text
<1> QED
  BY <1>1, ThrownKeeps, WrittenKeeps

LEMMA PrintfKeeps ==
  ASSUME NEW w \in Interpreter, NEW es, AreArguments(es), NEW name \in Names
  PROVE  OutcomeKeeps(printf_builtin(w, es, name), w, {name})
<1> DEFINE args == Arguments(w, es)
           output == IF args = InterpreterException THEN args
                     ELSE IF args = <<>> THEN OtherException
                     ELSE printf(args)
<1>1. args \in Seq(Words) \cup {InterpreterException}
  BY ArgumentsType
<1>2. output \in Words \cup {InterpreterException, OtherException}
  <2> HIDE DEF args
  <2>1. (args # InterpreterException /\ args # <<>>)
          => printf(args) \in Words \cup {InterpreterException, OtherException}
    BY <1>1, PrintfType
  <2> QED
    BY <2>1
<1>3. printf_builtin(w, es, name)
        = IF output \in {InterpreterException, OtherException} THEN Thrown(w, output)
          ELSE IF args[1] = dash_v THEN AssignAll(w, <<name>>, <<output>>, 0)
          ELSE Done([w EXCEPT !.output = @ \o output], 0)
  BY DEF printf_builtin
<1> HIDE DEF args, output
<1>4. ASSUME output \in Words
      PROVE  OutcomeKeeps(AssignAll(w, <<name>>, <<output>>, 0), w, {name})
  <2> DEFINE names == <<name>>
             values == <<output>>
  <2>1. names \in Seq(Names) /\ values \in Seq(Words) /\ Len(values) <= Len(names)
    BY <1>4
  <2>2. ToSet(names) = {name}
    BY DEF ToSet
  <2> HIDE DEF names, values
  <2>3. Keeps(w, AssignAll(w, names, values, 0).walker, {name})
    BY <2>1, <2>2, AssignAllKeeps
  <2> QED
    BY <2>3 DEF OutcomeKeeps, names, values
<1>5. OutcomeKeeps(Done([w EXCEPT !.output = @ \o output], 0), w, {name})
  <2> DEFINE written == Done([w EXCEPT !.output = @ \o output], 0)
  <2>1. OutcomeKeeps(written, w, {})
    BY WrittenKeeps
  <2> HIDE DEF written
  <2>2. OutcomeKeeps(written, w, {name})
    BY <2>1 DEF OutcomeKeeps, Keeps
  <2> QED
    BY <2>2 DEF written
<1>6. output \in {InterpreterException, OtherException} => OutcomeKeeps(Thrown(w, output), w, {name})
  BY ThrownKeeps
<1> QED
  BY <1>2, <1>3, <1>4, <1>5, <1>6

LEMMA ReadKeeps ==
  ASSUME NEW w \in Interpreter, NEW args \in Seq(Names)
  PROVE  OutcomeKeeps(read_builtin(w, args), w, ToSet(args) \cup {REPLY})
<1> DEFINE names == IF args = <<>> THEN <<REPLY>> ELSE args
           got == read(names, w.input)
           ahead == [w EXCEPT !.input = got.rest]
           changed == ToSet(args) \cup {REPLY}
<1>1. names \in Seq(Names) /\ ToSet(names) \subseteq changed
  BY SpecialNamesAssumption DEF ToSet
<1> HIDE DEF names, changed
<1>2. w.input \in Seq(Seq(Nat))
  BY DEF Interpreter
<1>3. /\ got.values \in Seq(Words) /\ Len(got.values) <= Len(names)
      /\ got.rest \in Seq(Seq(Nat)) /\ got.status \in {0, 1}
  BY <1>1, <1>2, ReadType
<1> DEFINE values == got.values
           status == got.status
           rest == got.rest
<1>4. /\ values \in Seq(Words) /\ Len(values) <= Len(names) /\ status \in {0, 1}
      /\ rest \in Seq(Seq(Nat)) /\ ahead = [w EXCEPT !.input = rest]
  BY <1>3
<1>5. read_builtin(w, args) = IF got.suppressed THEN Thrown(ahead, OtherException)
                              ELSE AssignAll(ahead, names, values, status)
  BY DEF read_builtin, names
<1> HIDE DEF values, status, rest, ahead, got
<1>6. ahead \in Interpreter /\ ahead.vars = w.vars /\ ahead.functions = w.functions
  BY <1>4 DEF Interpreter
<1>7. Keeps(ahead, AssignAll(ahead, names, values, status).walker, ToSet(names))
  BY <1>1, <1>4, <1>6, AssignAllKeeps
<1>8. Keeps(w, AssignAll(ahead, names, values, status).walker, changed)
  BY <1>1, <1>6, <1>7 DEF Keeps
<1>9. OutcomeKeeps(AssignAll(ahead, names, values, status), w, changed)
  BY <1>8 DEF OutcomeKeeps
<1> QED
  BY <1>5, <1>9, ThrownKeeps DEF changed

LEMMA SetKeeps ==
  ASSUME NEW w \in Interpreter, NEW args \in Seq(Words)
  PROVE  OutcomeKeeps(set(w, args), w, {Star})
<1> DEFINE sign == args[1][1]
           letter == args[1][2]
           rest == ListFrom(1, Tail(args))
           list == Done([w EXCEPT !.vars[Star] = rest], 0)
           options == IF sign = Minus THEN w.options \cup {Letter_u} ELSE w.options \ {Letter_u}
           x == [w EXCEPT !.options = options]
           option == Done(x, 0)
<1>1. set(w, args)
        = IF args = <<>> THEN Thrown(w, InterpreterException)
          ELSE IF Len(args[1]) < 2 \/ sign \notin {Minus, 43} THEN Thrown(w, InterpreterException)
          ELSE IF letter = Minus /\ sign = Minus THEN list
          ELSE IF letter \in {97, 98, 101, 102, 104, 107, 109, 110, 112, 116, Letter_u} THEN option
          ELSE Thrown(w, InterpreterException)
  BY DEF set
<1> HIDE DEF rest, options, sign, letter
<1>2. OutcomeKeeps(list, w, {Star})
  BY MadeKeeps, SpecialNamesAssumption DEF OutcomeKeeps, Sets
<1>3. x.vars = w.vars /\ x.functions = w.functions
      /\ {"vars", "functions", "status"} \subseteq DOMAIN x
  BY DEF Interpreter
<1> HIDE DEF x, list
<1>4. OutcomeKeeps(option, w, {Star})
  BY <1>3, SameKeeps
<1> HIDE DEF option
<1>5. OutcomeKeeps(Thrown(w, InterpreterException), w, {Star})
  BY ThrownKeeps
<1> QED
  BY <1>1, <1>2, <1>4, <1>5, ZenonT(60)

LEMMA SetBuiltinKeeps ==
  ASSUME NEW w \in Interpreter, NEW es, AreArguments(es)
  PROVE  OutcomeKeeps(set_builtin(w, es), w, {Star})
<1> DEFINE args == Arguments(w, es)
<1>1. args \in Seq(Words) \cup {InterpreterException}
  BY ArgumentsType
<1>2. set_builtin(w, es) = IF args = InterpreterException THEN Thrown(w, args) ELSE set(w, args)
  BY DEF set_builtin
<1> HIDE DEF args
<1>3. args # InterpreterException => OutcomeKeeps(set(w, args), w, {Star})
  BY <1>1, SetKeeps
<1>4. OutcomeKeeps(Thrown(w, InterpreterException), w, {Star})
  BY ThrownKeeps
<1> QED
  BY <1>2, <1>3, <1>4, Zenon

\* What c gives to the variables of a cache, and the function it defines.
Does(c, w, v) ==
    /\ \A n \in MetadataVariables :
          IF Gives(c, n) THEN Holds(v.vars[n], Given(c)) ELSE v.vars[n] = w.vars[n]
    /\ v.functions = w.functions \cup (IF c.kind = "function" THEN {c.name} ELSE {})

LEMMA KeepsDoes ==
  ASSUME NEW w, NEW outcome, NEW changed, OutcomeKeeps(outcome, w, changed), outcome.thrown = None,
         changed \cap MetadataVariables = {}, NEW c, c.kind \notin {"assign", "list", "function"}
  PROVE  Does(c, w, outcome.walker)
<1>1. MetadataVariables \subseteq Names \ changed
  BY MetadataVariablesAssumption
<1>2. Keeps(w, outcome.walker, changed)
  BY DEF OutcomeKeeps
<1> HIDE DEF MetadataVariables
<1> QED
  BY <1>1, <1>2 DEF Does, Keeps, Gives

\* name=word: element 0 of the variable.
LEMMA AssignDoes ==
  ASSUME NEW w \in Interpreter, NEW c, IsCommand(c), IsPlain(c), c.kind = "assign",
         Execute(w, c).thrown = None
  PROVE  Does(c, w, Execute(w, c).walker)
<1> DEFINE outcome == Execute(w, c)
           name == c.name
           index == c.index
           e == c.value
           v == outcome.walker
           value == Expansion(w, e)
           status == w.status
<1>1. outcome = assign(w, name, index, e) /\ name \in Names /\ IsExpansion(e)
  BY DEF IsCommand, Execute
<1>2. outcome.thrown = None
  OBVIOUS
<1> HIDE DEF outcome, v
<1>3. outcome = Done(Assigned(w, name, value, index), status)
  BY <1>1, <1>2, AssignChanges
<1>4. /\ Keeps(w, outcome.walker, {name})
      /\ outcome.walker.vars[name] = IF w.vars[name] = None THEN Scalar(value, FALSE, index)
                                     ELSE WithValue(w.vars[name], value, index)
  <2> HIDE DEF value, name, index, status
  <2> DEFINE after == Done(Assigned(w, name, value, index), status)
             var == IF w.vars[name] = None THEN Scalar(value, FALSE, index)
                    ELSE WithValue(w.vars[name], value, index)
  <2>1. Sets(w, after.walker, name, var)
    BY <1>1, AssignedKeeps
  <2> HIDE DEF after
  <2>2. outcome = after
    BY <1>3 DEF after
  <2> QED
    BY <2>1, <2>2 DEF Sets
<1>5. ASSUME name \in MetadataVariables
      PROVE  Holds(outcome.walker.vars[name], <<e.word>>)
  <2>1. index = 0 /\ e.how = "word"
    BY <1>5 DEF IsPlain
  <2>2. value = e.word /\ e.word \in Words
    BY <1>1, <2>1 DEF Expansion, IsExpansion
  <2>3. 0 \in Indexes
    BY IndexAssumption DEF Indexes
  <2> DEFINE word == e.word
             var == w.vars[name]
             new == IF var = None THEN Scalar(word, FALSE, 0) ELSE WithValue(var, word, 0)
  <2>4. outcome.walker.vars[name] = new
    BY <1>4, <2>1, <2>2
  <2>5. word \in Words /\ var \in Variable \cup {None}
    BY <1>1, <2>2, InterpreterFacts
  <2> HIDE DEF word, var
  <2>6. Scalar(word, FALSE, 0) \in Variable /\ Scalar(word, FALSE, 0).value[0] = word
    <3>1. Scalar(word, FALSE, 0) \in Variable
      BY <2>3, <2>5, ScalarType
    <3>2. Scalar(word, FALSE, 0).value[0] = word
      BY <2>3 DEF Scalar, NoElements
    <3> QED
      BY <3>1, <3>2
  <2>7. ASSUME var \in Variable
        PROVE  WithValue(var, word, 0) \in Variable /\ WithValue(var, word, 0).value[0] = word
    <3>1. WithValue(var, word, 0) \in Variable
      BY <2>3, <2>5, <2>7, WithValueType
    <3>2. WithValue(var, word, 0).value[0] = word
      BY <2>3, <2>7 DEF WithValue, Variable, ValueMap
    <3> QED
      BY <3>1, <3>2
  <2>8. new \in Variable /\ new.value[0] = word
    BY <2>5, <2>6, <2>7
  <2>9. <<word>> \in Seq(Words) /\ <<word>> # <<>> /\ <<word>>[1] = word /\ <<word>> # None
    <3>1. <<word>> \in Seq(Words)
      BY <2>5
    <3>2. <<word>> # None
      BY <3>1, NoneIsNoList
    <3> QED
      BY <3>1, <3>2
  <2> HIDE DEF new
  <2>10. Holds(new, <<word>>)
    BY <2>8, <2>9 DEF Holds
  <2> QED
    BY <2>4, <2>10 DEF word
<1>6. Given(c) = <<e.word>> /\ \A n : Gives(c, n) <=> n = name
  BY DEF Given, Gives
<1>7. \A n \in MetadataVariables :
          IF Gives(c, n) THEN Holds(outcome.walker.vars[n], Given(c))
          ELSE outcome.walker.vars[n] = w.vars[n]
  <2>1. MetadataVariables \subseteq Names
    BY MetadataVariablesAssumption
  <2> HIDE DEF name, e
  <2> QED
    BY <1>4, <1>5, <1>6, <2>1 DEF Keeps
<1>8. outcome.walker.functions = w.functions
  BY <1>4 DEF Keeps
<1> QED
  BY <1>7, <1>8 DEF Does, outcome

\* name=(words): the elements from 0 on.
LEMMA ListHolds ==
  ASSUME NEW words \in Seq(Words)
  PROVE  Holds(ListFrom(0, words), words)
<1> DEFINE var == ListFrom(0, words)
<1>1. var \in Variable
  BY ListFromType
<1>2. var.value = [i \in Indexes |-> IF i - 0 + 1 \in DOMAIN words THEN words[i - 0 + 1] ELSE Absent]
  BY DEF ListFrom, ArrayOf
<1>3. 0 \in Indexes /\ Indexes \subseteq Nat
  BY IndexAssumption DEF Indexes
<1> HIDE DEF var
<1>4. words # None
  BY NoneIsNoList
<1>5. words = <<>> => Elements(var) = {}
  BY <1>2, <1>3 DEF Elements
<1>6. words # <<>> => var.value[0] = words[1]
  <2>1. words # <<>> => 1 \in DOMAIN words
    OBVIOUS
  <2>2. 0 - 0 + 1 = 1
    OBVIOUS
  <2> QED
    BY <1>2, <1>3, <2>1, <2>2
<1> QED
  BY <1>1, <1>4, <1>5, <1>6 DEF Holds, var

LEMMA ListDoes ==
  ASSUME NEW w \in Interpreter, NEW c, IsCommand(c), c.kind = "list"
  PROVE  Does(c, w, Execute(w, c).walker)
<1> DEFINE outcome == Execute(w, c)
           name == c.name
           words == c.words
           var == ListFrom(0, words)
           status == w.status
<1>1. outcome = Done([w EXCEPT !.vars[name] = var], status) /\ name \in Names
      /\ words \in Seq(Words)
  BY DEF IsCommand, Execute, assign_list
<1>2. Given(c) = words /\ \A n : Gives(c, n) <=> n = name
  BY DEF Given, Gives
<1>3. Holds(var, words)
  BY <1>1, ListHolds
<1>4. MetadataVariables \subseteq Names
  BY MetadataVariablesAssumption
<1> HIDE DEF outcome, name, words, var, status
<1>5. Keeps(w, outcome.walker, {name}) /\ outcome.walker.vars[name] = var
  <2> DEFINE after == Done([w EXCEPT !.vars[name] = var], status)
  <2>1. Sets(w, after.walker, name, var)
    BY <1>1, MadeKeeps
  <2> HIDE DEF after
  <2>2. outcome = after
    BY <1>1 DEF after
  <2> QED
    BY <2>1, <2>2 DEF Sets
<1>6. \A n \in MetadataVariables :
          IF Gives(c, n) THEN Holds(outcome.walker.vars[n], Given(c))
          ELSE outcome.walker.vars[n] = w.vars[n]
  BY <1>2, <1>3, <1>4, <1>5 DEF Keeps
<1>7. outcome.walker.functions = w.functions
  BY <1>5 DEF Keeps
<1> QED
  BY <1>6, <1>7 DEF Does, outcome

LEMMA FunctionDoes ==
  ASSUME NEW w \in Interpreter, NEW c, c.kind = "function", Execute(w, c).thrown = None
  PROVE  Does(c, w, Execute(w, c).walker)
<1> DEFINE outcome == Execute(w, c)
           name == c.name
           x == [w EXCEPT !.functions = @ \cup {name}]
           status == w.status
<1>1. outcome = define_function(w, name, c.spelled)
  BY DEF Execute
<1>2. outcome.thrown = None
  OBVIOUS
<1> HIDE DEF outcome
<1>3. outcome = Done(x, status)
  BY <1>1, <1>2, ExceptionsAssumption DEF define_function, Thrown
<1>4. x.vars = w.vars /\ x.functions = w.functions \cup {name}
      /\ {"vars", "functions", "status"} \subseteq DOMAIN x
  BY DEF Interpreter
<1> HIDE DEF x, status
<1>5. outcome.walker = [x EXCEPT !.status = status]
  BY <1>3 DEF Done
<1>6. outcome.walker.vars = w.vars /\ outcome.walker.functions = w.functions \cup {name}
  BY <1>4, <1>5
<1> HIDE DEF MetadataVariables
<1>7. Does(c, w, outcome.walker)
  BY <1>6 DEF Does, Gives
<1> QED
  BY <1>7 DEF outcome

\* A plain command gives the variables of a cache what it says, and nothing else.
LEMMA CommandGives ==
  ASSUME NEW w \in Interpreter, NEW c, IsCommand(c), IsPlain(c), Execute(w, c).thrown = None
  PROVE  Does(c, w, Execute(w, c).walker)
<1> DEFINE outcome == Execute(w, c)
<1>1. CASE c.kind \in {"assign", "list", "function"}
  BY <1>1, AssignDoes, ListDoes, FunctionDoes
<1>2. ASSUME c.kind \notin {"assign", "list", "function"},
             \E changed : OutcomeKeeps(outcome, w, changed) /\ changed \cap MetadataVariables = {}
      PROVE  Does(c, w, outcome.walker)
  <2>1. outcome.thrown = None
    OBVIOUS
  <2> HIDE DEF outcome
  <2> QED
    BY <1>2, <2>1, KeepsDoes
<1>3. CASE c.kind \in {"shopt", "declare -F", "declare -p", "echo", "test"}
  <2>1. CASE c.kind = "shopt"
    <3>1. OutcomeKeeps(outcome, w, {})
      BY <2>1, ShoptKeeps DEF Execute
    <3> QED
      BY <1>2, <2>1, <3>1
  <2>2. CASE c.kind = "declare -F"
    <3>1. OutcomeKeeps(outcome, w, {})
      BY <2>2, DeclareKeeps DEF Execute
    <3>2. c.kind # "assign"
      BY <2>2, Zenon
    <3>3. c.kind # "list"
      BY <2>2, Zenon
    <3>4. c.kind # "function"
      BY <2>2, Zenon
    <3> QED
      BY <1>2, <3>1, <3>2, <3>3, <3>4
  <2>3. CASE c.kind = "declare -p"
    <3>1. OutcomeKeeps(outcome, w, {})
      BY <2>3, DeclareKeeps DEF Execute
    <3>2. c.kind # "assign"
      BY <2>3, Zenon
    <3>3. c.kind # "list"
      BY <2>3, Zenon
    <3>4. c.kind # "function"
      BY <2>3, Zenon
    <3> QED
      BY <1>2, <3>1, <3>2, <3>3, <3>4
  <2>4. CASE c.kind = "echo"
    <3>1. OutcomeKeeps(outcome, w, {})
      BY <2>4, EchoKeeps DEF Execute
    <3> QED
      BY <1>2, <2>4, <3>1
  <2>5. CASE c.kind = "test"
    <3>1. OutcomeKeeps(outcome, w, {})
      BY <2>5, TestKeeps DEF Execute
    <3> QED
      BY <1>2, <2>5, <3>1
  <2> QED
    BY <1>3, <2>1, <2>2, <2>3, <2>4, <2>5
<1>4. CASE c.kind = "set"
  <2>1. OutcomeKeeps(outcome, w, {Star})
    BY <1>4, SetBuiltinKeeps DEF Execute, IsCommand
  <2>2. {Star} \cap MetadataVariables = {}
    BY MetadataVariablesAssumption
  <2> QED
    BY <1>2, <1>4, <2>1, <2>2
<1>5. CASE c.kind = "printf"
  <2>1. OutcomeKeeps(outcome, w, {c.name})
    BY <1>5, PrintfKeeps DEF Execute, IsCommand
  <2>2. {c.name} \cap MetadataVariables = {}
    BY <1>5 DEF IsPlain
  <2> QED
    BY <1>2, <1>5, <2>1, <2>2
<1>6. CASE c.kind = "read"
  <2>1. OutcomeKeeps(outcome, w, ToSet(c.names) \cup {REPLY})
    BY <1>6, ReadKeeps DEF Execute, IsCommand
  <2>2. (ToSet(c.names) \cup {REPLY}) \cap MetadataVariables = {}
    BY <1>6, MetadataVariablesAssumption DEF IsPlain
  <2> QED
    BY <1>2, <1>6, <2>1, <2>2
<1>7. c.kind # "jump"
  BY ExceptionsAssumption DEF Execute, Thrown
<1> QED
  BY <1>1, <1>3, <1>4, <1>5, <1>6, <1>7 DEF IsCommand

----------------------------------------------------------------------------
(* What the first commands of a script say.                                *)

Givers(s, k, n) == {i \in 1..k : Gives(s[i], n)}

LastUpTo(s, k, n) ==
    IF Givers(s, k, n) = {} THEN None ELSE Given(s[Max(Givers(s, k, n))])

DefinedUpTo(s, k) == {s[i].name : i \in {j \in 1..k : s[j].kind = "function"}}

LEMMA SaidAtStart ==
  ASSUME NEW s, NEW n
  PROVE  LastUpTo(s, 0, n) = None /\ DefinedUpTo(s, 0) = {}
<1>1. 1..0 = {}
  OBVIOUS
<1> QED
  BY <1>1 DEF LastUpTo, Givers, DefinedUpTo

LEMMA SaidByNext ==
  ASSUME NEW s, NEW n, NEW k \in Nat \ {0}
  PROVE  /\ LastUpTo(s, k, n) = IF Gives(s[k], n) THEN Given(s[k]) ELSE LastUpTo(s, k - 1, n)
         /\ DefinedUpTo(s, k) =
                DefinedUpTo(s, k - 1) \cup (IF s[k].kind = "function" THEN {s[k].name} ELSE {})
<1> DEFINE of == Givers(s, k, n)
           before == Givers(s, k - 1, n)
<1>1. \A i : i \in 1..k <=> (i = k \/ i \in 1..(k - 1))
  OBVIOUS
<1>0. /\ LastUpTo(s, k, n) = IF of = {} THEN None ELSE Given(s[Max(of)])
      /\ LastUpTo(s, k - 1, n) = IF before = {} THEN None ELSE Given(s[Max(before)])
  BY DEF LastUpTo
<1>2. ASSUME Gives(s[k], n) PROVE LastUpTo(s, k, n) = Given(s[k])
  <2>1. k \in of /\ \A i \in of : i \in Nat /\ i <= k
    BY <1>2 DEF Givers
  <2> HIDE DEF of
  <2>2. Max(of) = k
    <3>1. \A i \in of : k >= i
      BY <2>1
    <3>2. \A m \in of : (\A i \in of : m >= i) => m = k
      BY <2>1
    <3> QED
      BY <2>1, <3>1, <3>2 DEF Max
  <2> QED
    BY <1>0, <1>2, <2>1, <2>2
<1>3. ASSUME ~Gives(s[k], n) PROVE LastUpTo(s, k, n) = LastUpTo(s, k - 1, n)
  <2>1. of = before
    BY <1>1, <1>3 DEF Givers
  <2> HIDE DEF of, before
  <2> QED
    BY <1>0, <1>3, <2>1
<1>4. DefinedUpTo(s, k) =
          DefinedUpTo(s, k - 1) \cup (IF s[k].kind = "function" THEN {s[k].name} ELSE {})
  BY <1>1 DEF DefinedUpTo
<1> QED
  BY <1>2, <1>3, <1>4

LEMMA SaidAtEnd ==
  ASSUME NEW s, IsList(s), NEW n
  PROVE  /\ LastUpTo(s, Len(s), n) = LastWords(s, n)
         /\ DefinedUpTo(s, Len(s)) = DefinedBy(s)
         /\ IsFiniteSet(DefinedBy(s))
<1>1. s \in Seq(ToSet(s))
  BY DEF IsList
<1>2. DOMAIN s = 1..Len(s) /\ Len(s) \in Nat
  BY <1>1
<1> DEFINE of == {k \in DOMAIN s : s[k].kind \in {"assign", "list"} /\ s[k].name = n}
<1>3. of = Givers(s, Len(s), n)
  BY <1>2 DEF Givers, Gives
<1>4. LastWords(s, n) = IF of = {} THEN None ELSE Given(s[Max(of)])
  BY DEF LastWords, Given
<1>5. LastUpTo(s, Len(s), n) = LastWords(s, n)
  BY <1>3, <1>4 DEF LastUpTo
<1> DEFINE I == {i \in DOMAIN s : s[i].kind = "function"}
           D == DefinedBy(s)
           f == [i \in I |-> s[i].name]
<1>6. D = {s[i].name : i \in I}
  BY DEF DefinedBy
<1>7. DefinedUpTo(s, Len(s)) = D
  BY <1>2, <1>6 DEF DefinedUpTo
<1>8. IsFiniteSet(I)
  <2>1. IsFiniteSet(DOMAIN s)
    <3>1. IsFiniteSet(1..Len(s))
      BY <1>2, FS_Interval
    <3> QED
      BY <1>2, <3>1
  <2>2. I \in SUBSET DOMAIN s
    OBVIOUS
  <2> HIDE DEF I
  <2> QED
    BY <2>1, <2>2, FS_Subset
<1> HIDE DEF I, D
<1>9. IsFiniteSet(D)
  <2>1. f \in Surjection(I, D)
    BY <1>6 DEF Surjection
  <2> HIDE DEF f
  <2> QED
    BY <1>8, <2>1, FS_Surjection
<1> QED
  BY <1>5, <1>7, <1>9 DEF D

\* What an interpreter knows after k commands of s: base is what was said before,
\* and defined are the functions from before.
KnownOf(s, k, base, n) ==
    IF LastUpTo(s, k, n) # None THEN LastUpTo(s, k, n) ELSE base[n]

Knows(w, s, k, base, defined) ==
    /\ \A n \in MetadataVariables : Holds(w.vars[n], KnownOf(s, k, base, n))
    /\ w.functions = defined \cup DefinedUpTo(s, k)

\* What a plain command gives are words.
LEMMA GivenIsSaid ==
  ASSUME NEW c, IsCommand(c), IsPlain(c), NEW n \in MetadataVariables, Gives(c, n)
  PROVE  Given(c) # None
<1>1. Given(c) \in Seq(Words)
  <2>1. CASE c.kind = "list"
    BY <2>1 DEF IsCommand, Given
  <2>2. CASE c.kind = "assign"
    <3>1. c.value.how = "word"
      BY <2>2 DEF IsPlain, Gives
    <3>2. c.value.word \in Words
      BY <2>2, <3>1 DEF IsCommand, IsExpansion
    <3> QED
      BY <2>2, <3>2 DEF Given
  <2> QED
    BY <2>1, <2>2 DEF Gives
<1> QED
  BY <1>1, NoneIsNoList

LEMMA KnowsNext ==
  ASSUME NEW w \in Interpreter, NEW s, NEW k \in Nat \ {0}, NEW base, NEW defined,
         Knows(w, s, k - 1, base, defined),
         IsCommand(s[k]), IsPlain(s[k]), Execute(w, s[k]).thrown = None
  PROVE  Knows(Execute(w, s[k]).walker, s, k, base, defined)
<1> DEFINE c == s[k]
           v == Execute(w, c).walker
<1>1. Does(c, w, v)
  BY CommandGives
<1> HIDE DEF v
<1>2. ASSUME NEW n \in MetadataVariables PROVE Holds(v.vars[n], KnownOf(s, k, base, n))
  <2>1. Holds(w.vars[n], KnownOf(s, k - 1, base, n))
    BY <1>2 DEF Knows
  <2>2. CASE Gives(c, n)
    <3>1. Given(c) # None
      BY <1>2, <2>2, GivenIsSaid
    <3>2. KnownOf(s, k, base, n) = Given(c)
      BY <2>2, <3>1, SaidByNext DEF KnownOf
    <3>3. Holds(v.vars[n], Given(c))
      BY <1>1, <1>2, <2>2 DEF Does
    <3> QED
      BY <3>2, <3>3
  <2>3. CASE ~Gives(c, n)
    <3>1. LastUpTo(s, k, n) = LastUpTo(s, k - 1, n)
      BY <2>3, SaidByNext
    <3>2. v.vars[n] = w.vars[n]
      BY <1>1, <1>2, <2>3 DEF Does
    <3> QED
      BY <2>1, <3>1, <3>2 DEF KnownOf
  <2> QED
    BY <2>2, <2>3
<1>3. v.functions = defined \cup DefinedUpTo(s, k)
  <2>1. w.functions = defined \cup DefinedUpTo(s, k - 1)
    BY DEF Knows
  <2>2. v.functions = w.functions \cup (IF c.kind = "function" THEN {c.name} ELSE {})
    BY <1>1 DEF Does
  <2>3. DefinedUpTo(s, k) =
            DefinedUpTo(s, k - 1) \cup (IF c.kind = "function" THEN {c.name} ELSE {})
    BY SaidByNext
  <2> QED
    BY <2>1, <2>2, <2>3
<1> QED
  BY <1>2, <1>3 DEF Knows, v

----------------------------------------------------------------------------
(* The line of a name is that of what the scripts say.                     *)

\* The caller gets the words of n if the scripts say said of it.
Carries(variables, n, said) ==
    IF said = None THEN n \notin DOMAIN variables
    ELSE /\ said \in Seq(Words) /\ n \in DOMAIN variables
         /\ said = <<>> => variables[n] = <<>>
         /\ said # <<>> => variables[n] # <<>> /\ variables[n][1] = said[1]

\* Element 0 comes first.
LEMMA ValuesCarry ==
  ASSUME NEW var, NEW said, Holds(var, said), said # None
  PROVE  LET values == get_all_values(var) IN
         /\ said = <<>> => values = <<>>
         /\ said # <<>> => values # <<>> /\ values[1] = said[1]
<1> DEFINE S == Elements(var)
           A == Ascending(S)
           n == Cardinality(S)
           values == get_all_values(var)
<1>1. said \in Seq(Words) /\ var \in Variable
      /\ (said = <<>> => S = {}) /\ (said # <<>> => var.value[0] = said[1])
  BY DEF Holds
<1>2. values = [k \in 1..n |-> var.value[A[k]]]
  BY DEF get_all_values, get_array_length
<1>3. S \in SUBSET (0..MaxIndex) /\ MaxIndex \in Nat
  BY IndexAssumption DEF Elements, Indexes
<1>4. said # <<>> => 0 \in S
  <2>1. said # <<>> => said[1] \in Words
    BY <1>1
  <2> QED
    BY <1>1, <2>1, IndexAssumption, WordsAssumption DEF Elements, Indexes
<1> HIDE DEF S
<1>5. n \in Nat /\ A \in [1..n -> S] /\ \A k \in 1..n : Rank(S, A[k]) = k
  BY <1>3, AscendingRank, RankFacts
<1>6. /\ \A i \in S : Rank(S, i) \in 1..n
      /\ \A i, j \in S : i < j => Rank(S, i) < Rank(S, j)
  BY <1>3, RankFacts
<1>7. CASE said = <<>>
  <2>1. n = 0
    BY <1>1, <1>7, FS_EmptySet
  <2>2. values = <<>>
    BY <1>2, <2>1
  <2> QED
    BY <1>7, <2>2
<1>8. CASE said # <<>>
  <2>1. n >= 1 /\ 1 \in 1..n
    BY <1>4, <1>5, <1>6, <1>8
  <2>2. A[1] = 0
    <3>1. A[1] \in S /\ Rank(S, A[1]) = 1 /\ 0 \in S /\ Rank(S, 0) \in 1..n
      BY <1>4, <1>5, <1>6, <1>8, <2>1
    <3>2. ~(0 < A[1])
      BY <1>5, <1>6, <3>1
    <3>3. A[1] \in 0..MaxIndex
      BY <1>3, <3>1
    <3> QED
      BY <1>3, <3>2, <3>3
  <2> HIDE DEF A, n, values
  <2>3. DOMAIN values = 1..n /\ values[1] = var.value[0]
    BY <1>2, <2>1, <2>2
  <2>4. values # <<>>
    <3>1. DOMAIN values # {} /\ DOMAIN <<>> = {}
      BY <2>1, <2>3
    <3> QED
      BY <3>1
  <2> QED
    BY <1>1, <1>8, <2>3, <2>4 DEF values
<1> QED
  BY <1>7, <1>8

LEMMA NoRuns == Empty \in Words /\ Runs(Empty, Blanks) = <<>>
<1> DEFINE starts == RunStarts(Empty, Blanks)
<1>1. starts = {}
  BY WordsAreCodes DEF RunStarts
<1>2. Cardinality(starts) = 0
  BY <1>1, FS_EmptySet
<1> HIDE DEF starts
<1>3. Runs(Empty, Blanks) = [k \in 1..Cardinality(starts) |->
                                RunAt(Empty, Blanks, Ascending(starts)[k])]
  BY DEF Runs, starts
<1> QED
  BY <1>2, <1>3, WordsAssumption

\* The word that write_metadata reads of a name, and its parts.
ValueRead(variables, n) == IF Defined(variables, n) THEN variables[n][1] ELSE Empty

WordsOf(said) == IF said = None THEN <<>> ELSE Runs(said[1], Blanks)

LEMMA ReadsSaid ==
  ASSUME NEW variables, NEW n, NEW said, Carries(variables, n, said),
         ~ReadsElementZero(variables, n)
  PROVE  ValueRead(variables, n) \in Words /\ Runs(ValueRead(variables, n), Blanks) = WordsOf(said)
<1>1. CASE said = None
  BY <1>1, NoRuns DEF Carries, ValueRead, WordsOf, Defined
<1>2. CASE said # None
  <2>1. said # <<>> /\ Defined(variables, n) /\ variables[n][1] = said[1] /\ said \in Seq(Words)
    BY <1>2 DEF Carries, ReadsElementZero, Defined
  <2>2. said[1] \in Words
    BY <2>1
  <2> QED
    BY <1>2, <2>1, <2>2 DEF ValueRead, WordsOf
<1> QED
  BY <1>1, <1>2

\* RDEPEND is DEPEND at most, and all other names stay.
LEMMA RdependFacts ==
  ASSUME NEW variables
  PROVE  LET eapi == IF Defined(variables, EAPI) THEN number(variables[EAPI][1]) ELSE 0
             copied == eapi < 4 /\ ~Defined(variables, RDEPEND) /\ Defined(variables, DEPEND)
             V == WithRdepend(variables)
         IN /\ \A n : n # RDEPEND \/ ~copied =>
                  /\ Defined(V, n) <=> Defined(variables, n)
                  /\ Defined(variables, n) => V[n] = variables[n]
            /\ copied => Defined(V, RDEPEND) /\ V[RDEPEND] = variables[DEPEND]
<1> DEFINE eapi == IF Defined(variables, EAPI) THEN number(variables[EAPI][1]) ELSE 0
           copied == eapi < 4 /\ ~Defined(variables, RDEPEND) /\ Defined(variables, DEPEND)
           V == WithRdepend(variables)
<1>1. V = IF copied THEN [n \in DOMAIN variables \cup {RDEPEND} |->
                             variables[IF n = RDEPEND THEN DEPEND ELSE n]]
          ELSE variables
  BY DEF WithRdepend
<1> HIDE DEF copied
<1> HIDE DEF V
<1>2. CASE copied
  <2>1. DOMAIN V = DOMAIN variables \cup {RDEPEND}
        /\ \A n \in DOMAIN V : V[n] = variables[IF n = RDEPEND THEN DEPEND ELSE n]
    BY <1>1, <1>2
  <2> QED
    BY <1>2, <2>1 DEF Defined, V, copied
<1>3. CASE ~copied
  BY <1>1, <1>3 DEF V, copied
<1> QED
  BY <1>2, <1>3

\* What a caller holds of the scripts of package id.
CarriesAll(id, variables) ==
    \A n \in MetadataVariables : Carries(variables, n, Said(id, n))

\* The words of the ebuild on the line of a name.
LEMMA OwnIsRead ==
  ASSUME NEW id, NEW variables, CarriesAll(id, variables), ~BadEAPI(variables),
         NEW name \in DOMAIN Global, ~ReadsElementZero(WithRdepend(variables), name)
  PROVE  LET value == ValueRead(WithRdepend(variables), name)
         IN value \in Words /\ Own(id, name) = Runs(value, Blanks)
<1> DEFINE eapi == IF Defined(variables, EAPI) THEN number(variables[EAPI][1]) ELSE 0
           copied == eapi < 4 /\ ~Defined(variables, RDEPEND) /\ Defined(variables, DEPEND)
           V == WithRdepend(variables)
           early == Said(id, EAPI) = None \/ number(Said(id, EAPI)[1]) < 4
           value == ValueRead(V, name)
<1>1. /\ \A n : n # RDEPEND \/ ~copied =>
            /\ Defined(V, n) <=> Defined(variables, n)
            /\ Defined(variables, n) => V[n] = variables[n]
      /\ copied => Defined(V, RDEPEND) /\ V[RDEPEND] = variables[DEPEND]
  BY RdependFacts
<1>2. /\ {name, DEPEND, RDEPEND, EAPI} \subseteq MetadataVariables
      /\ Carries(variables, name, Said(id, name))
      /\ Carries(variables, DEPEND, Said(id, DEPEND))
      /\ Carries(variables, RDEPEND, Said(id, RDEPEND))
      /\ Carries(variables, EAPI, Said(id, EAPI))
  BY MetadataNamesAssumption DEF MetadataVariables, CarriesAll
<1>3. eapi < 4 <=> early
  <2>1. CASE Said(id, EAPI) = None
    BY <1>2, <2>1 DEF Carries, Defined
  <2>2. CASE Said(id, EAPI) # None
    <3>1. Defined(variables, EAPI) /\ variables[EAPI] # <<>>
      BY <1>2, <2>2 DEF Carries, Defined, BadEAPI
    <3>2. variables[EAPI][1] = Said(id, EAPI)[1]
      BY <1>2, <2>2, <3>1 DEF Carries
    <3> QED
      BY <2>2, <3>1, <3>2
  <2> QED
    BY <2>1, <2>2
<1>4. Own(id, name) = IF name = RDEPEND /\ Said(id, RDEPEND) = None /\ early
                      THEN WordsOf(Said(id, DEPEND)) ELSE WordsOf(Said(id, name))
  BY DEF Own, SaidWords, WordsOf
<1>5. ~ReadsElementZero(V, name)
  OBVIOUS
<1>6. /\ Defined(variables, RDEPEND) <=> Said(id, RDEPEND) # None
      /\ Defined(variables, DEPEND) <=> Said(id, DEPEND) # None
  BY <1>2 DEF Carries, Defined
<1>10. copied <=> (eapi < 4 /\ ~Defined(variables, RDEPEND) /\ Defined(variables, DEPEND))
  OBVIOUS
<1> HIDE DEF eapi, copied, V, early, value
<1>7. CASE name = RDEPEND /\ copied
  <2>1. Own(id, name) = WordsOf(Said(id, DEPEND))
    BY <1>3, <1>4, <1>6, <1>7, <1>10
  <2>2. value = ValueRead(variables, DEPEND) /\ ~ReadsElementZero(variables, DEPEND)
    BY <1>1, <1>5, <1>7, <1>10 DEF value, ValueRead, ReadsElementZero
  <2> QED
    BY <1>2, <2>1, <2>2, ReadsSaid DEF value, V
<1>8. CASE ~(name = RDEPEND /\ copied)
  <2>1. Own(id, name) = WordsOf(Said(id, name))
    <3>1. CASE name = RDEPEND /\ Said(id, RDEPEND) = None /\ early
      <4>1. Said(id, DEPEND) = None
        BY <1>3, <1>6, <1>8, <1>10, <3>1
      <4> QED
        BY <1>4, <3>1, <4>1
    <3>2. CASE ~(name = RDEPEND /\ Said(id, RDEPEND) = None /\ early)
      BY <1>4, <3>2
    <3> QED
      BY <3>1, <3>2
  <2>2. value = ValueRead(variables, name) /\ ~ReadsElementZero(variables, name)
    BY <1>1, <1>5, <1>8 DEF value, ValueRead, ReadsElementZero
  <2> QED
    BY <1>2, <2>1, <2>2, ReadsSaid DEF value, V
<1> QED
  BY <1>7, <1>8

\* The line of a name says what the scripts of the package say.
LEMMA MetadataLine ==
  ASSUME NEW id, NEW variables, CarriesAll(id, variables), ~BadEAPI(variables),
         NEW name \in DOMAIN Global, ~ReadsElementZero(WithRdepend(variables), name),
         ~ReadsElementZero(variables, Global[name])
  PROVE  LineIsRight(id, name, metadata_line(WithRdepend(variables), name))
<1> DEFINE V == WithRdepend(variables)
           G == Global[name]
           value == ValueRead(V, name)
           global == ValueRead(V, G)
           all == IF Defined(V, G) THEN with_global(value, global) ELSE value
           own == Own(id, name)
           extra == SaidWords(id, G)
           words == IF name = INHERITED THEN sorted(blank_separated(all)) ELSE blank_separated(all)
<1>1. metadata_line(V, name) = words
  BY DEF metadata_line, ValueRead
<1>2. value \in Words /\ own = Runs(value, Blanks)
  BY OwnIsRead
<1>3. G \in MetadataVariables /\ G # RDEPEND
  BY MetadataNamesAssumption DEF MetadataVariables
<1>4. /\ Defined(V, G) <=> Defined(variables, G)
      /\ global = ValueRead(variables, G)
  BY <1>3, RdependFacts DEF ValueRead
<1>5. global \in Words /\ extra = Runs(global, Blanks)
      /\ (Defined(V, G) <=> Said(id, G) # None)
  <2>1. Carries(variables, G, Said(id, G))
    BY <1>3 DEF CarriesAll
  <2>2. extra = WordsOf(Said(id, G))
    BY DEF SaidWords, WordsOf
  <2>3. Defined(variables, G) <=> Said(id, G) # None
    BY <2>1 DEF Carries, Defined
  <2> HIDE DEF G, extra, global, V
  <2>4. ~ReadsElementZero(variables, G)
    BY DEF G
  <2>5. ValueRead(variables, G) \in Words
        /\ Runs(ValueRead(variables, G), Blanks) = WordsOf(Said(id, G))
    BY <2>1, <2>4, ReadsSaid
  <2> QED
    BY <1>4, <2>2, <2>3, <2>5
<1>6. ~Defined(V, G) => extra = <<>>
  BY <1>5 DEF SaidWords
<1> HIDE DEF value, global, own, extra, G, V
<1>7. all \in Words /\ Gathers(all, own, extra, Len(extra))
  <2>1. CASE Defined(V, G)
    <3>1. with_global(value, global) \in Words
          /\ Gathers(with_global(value, global), own, extra, Len(extra))
      BY <1>2, <1>5, WithGlobalGathers
    <3> QED
      BY <2>1, <3>1
  <2>2. CASE ~Defined(V, G)
    <3>1. extra = <<>>
      BY <1>6, <2>2
    <3>2. Gathers(value, own, <<>>, Len(<<>>))
      BY <1>2, NothingGathered
    <3>3. Gathers(value, own, extra, Len(extra))
      BY <3>1, <3>2
    <3> QED
      BY <1>2, <2>2, <3>3
  <2> QED
    BY <2>1, <2>2
<1>8. own \in Seq(Words) /\ extra \in Seq(Words) /\ \A k \in 1..Len(extra) : Solid(extra[k], Blanks)
  BY <1>2, <1>5, RunsAreSolid
<1> HIDE DEF all
<1>9. RightLine(own, extra, name, words)
  BY <1>7, <1>8, GatheredLine
<1> HIDE DEF words
<1>10. LineIsRight(id, name, words)
  BY <1>9 DEF RightLine, LineIsRight, own, extra, G
<1> QED
  BY <1>1, <1>10 DEF V

----------------------------------------------------------------------------
(* What a job knows of the scripts of its package.                         *)

Plainly(id) == SaysPlainly(input.files[path(id)]) /\ SaysPlainly(input.files[Preload])

NothingBefore == [n \in MetadataVariables |-> None]

\* What is said before the ebuild is walked.
SaidBefore(id) ==
    [n \in MetadataVariables |->
        IF n \in DOMAIN environment(id) THEN environment(id)[n]
        ELSE LastWords(input.files[Preload], n)]

FunctionsOf(id) == DefinedBy(input.files[path(id)]) \cup DefinedBy(input.files[Preload])

\* Its interpreter knows what the commands so far have said, the caller what all
\* of them have said.
JobKnows(id, r) ==
    /\ r.stage = "preload" =>
          /\ r.functions = {}
          /\ Knows(r.walker, input.files[Preload], r.pc - 1, NothingBefore, {})
    /\ r.stage = "script" =>
          /\ r.functions = {} /\ IsFiniteSet(DefinedBy(input.files[Preload]))
          /\ Knows(r.walker, input.files[path(id)], r.pc - 1, SaidBefore(id),
                   DefinedBy(input.files[Preload]))
    /\ r.stage \in {"open", "write"} =>
          /\ CarriesAll(id, r.variables)
          /\ r.functions = FunctionsOf(id) /\ IsFiniteSet(r.functions)
    /\ r.stage = "write" => r.pc > 0 /\ (r.pc > 1 => ~BadEAPI(r.variables))

JobsKnow == Generates => \A id \in Packages : Plainly(id) => JobKnows(id, jobs[id])

\* A job that is not past the start, or past the file.
LEMMA NothingToKnow ==
  ASSUME NEW id, NEW r, r.stage \notin {"preload", "script", "open", "write"}
  PROVE  JobKnows(id, r)
BY DEF JobKnows

\* The job of one package moves on.
LEMMA KnowingBecomes ==
  ASSUME JobsAreRight, JobsKnow, NEW j \in Jobs, NEW r, Becomes(j, r), UNCHANGED input,
         (Generates /\ j \in Packages /\ Plainly(j)) => JobKnows(j, r)
  PROVE  JobsKnow'
<1>1. DOMAIN jobs' = Jobs /\ jobs'[j] = r /\ \A i \in Jobs \ {j} : jobs'[i] = jobs[i]
  BY DEF Becomes, JobsAreRight
<1>2. ASSUME NEW id \in Packages, Generates, Plainly(id) PROVE JobKnows(id, jobs'[id])
  BY <1>1, <1>2 DEF JobsKnow, Jobs
<1>3. ASSUME NEW id \in Packages, JobKnows(id, jobs'[id]) PROVE JobKnows(id, jobs[id])'
  BY <1>3 DEF JobKnows, SaidBefore, FunctionsOf, CarriesAll, Said
<1>4. Generates' = Generates /\ \A id : Plainly(id)' = Plainly(id)
  BY DEF Generates, Plainly
<1> QED
  BY <1>2, <1>3, <1>4 DEF JobsKnow

LEMMA KnowingStays ==
  ASSUME JobsKnow, UNCHANGED <<input, jobs>>
  PROVE  JobsKnow'
BY DEF JobsKnow, JobKnows, SaidBefore, FunctionsOf, CarriesAll, Said, Generates, Plainly

\* The interpreter that is made knows nothing.
LEMMA StartedKnows ==
  ASSUME NEW id \in Packages, Generates
  PROVE  JobKnows(id, Started(id))
<1> DEFINE s == input.files[Preload]
           w == interpreter(input.stdin)
           r == [NoJob EXCEPT !.stage = "preload", !.pc = 1, !.walker = w,
                              !.variables = Passed(id)]
<1>1. Started(id) = IF s = SyntaxError THEN Failed(r, InterpreterException) ELSE r
  BY DEF Started, Parsed, preloaded, Generates
<1>2. r.stage = "preload" /\ r.pc = 1 /\ r.functions = {} /\ r.walker = w
  BY DEF NoJob
<1>3. Failed(r, InterpreterException).stage = "thrown"
  BY DEF Failed, NoJob
<1>4. ASSUME NEW n \in MetadataVariables PROVE Holds(w.vars[n], KnownOf(s, 0, NothingBefore, n))
  <2>1. n \in Names /\ n # IFS /\ n # Dash
    BY MetadataVariablesAssumption
  <2>2. w.vars[n] = None
    BY <2>1 DEF interpreter
  <2>3. KnownOf(s, 0, NothingBefore, n) = None
    BY SaidAtStart DEF KnownOf, NothingBefore
  <2> QED
    BY <2>2, <2>3 DEF Holds
<1>5. w.functions = {} \cup DefinedUpTo(s, 0)
  BY SaidAtStart DEF interpreter
<1>6. Knows(w, s, 0, NothingBefore, {})
  BY <1>4, <1>5 DEF Knows
<1>7. JobKnows(id, Failed(r, InterpreterException))
  BY <1>3, NothingToKnow
<1> HIDE DEF w, r
<1>8. JobKnows(id, r)
  BY <1>2, <1>6 DEF JobKnows, s
<1> QED
  BY <1>1, <1>7, <1>8

----------------------------------------------------------------------------
(* The walks.                                                              *)

LEMMA RunCommandKnows ==
  ASSUME TInv, JobsKnow, NEW j \in Jobs, RunCommand(j)
  PROVE  JobsKnow'
<1> DEFINE r == jobs[j]
           s == script(j)
           c == s[r.pc]
           outcome == Execute(r.walker, c)
           failed == Failed(r, outcome.thrown)
           next == [r EXCEPT !.walker = outcome.walker, !.pc = @ + 1]
<1>1. /\ r.stage \in {"preload", "script"} /\ r.pc <= Len(s) /\ UNCHANGED input
      /\ Becomes(j, IF outcome.thrown # None THEN failed ELSE next)
      /\ JobsAreRight
  BY DEF RunCommand, TInv
<1>2. IsJob(r)
  BY <1>1 DEF JobsAreRight, JobIsRight, JobTypes
<1>3. /\ Len(s) \in Nat /\ r.pc \in 1..(Len(s) + 1) /\ r.walker \in Interpreter
      /\ \A i \in 1..Len(s) : IsCommand(s[i]) /\ s[i] \in ToSet(s)
  BY <1>1, WalkFacts
<1>4. r.pc \in 1..Len(s) /\ r.pc \in Nat \ {0} /\ IsCommand(c) /\ c \in ToSet(s)
  BY <1>1, <1>3
<1>5. /\ r.stage = "preload" => s = preloaded
      /\ r.stage = "script" => s = input.files[path(j)]
  BY DEF script
<1>6. c = s[r.pc]
  OBVIOUS
<1> HIDE DEF r, s, c
<1>7. ASSUME Generates, j \in Packages, Plainly(j), outcome.thrown = None
      PROVE  JobKnows(j, next)
  <2>1. JobKnows(j, r)
    BY <1>7 DEF JobsKnow, r
  <2>2. s = input.files[path(j)] \/ s = input.files[Preload]
    BY <1>1, <1>5, <1>7 DEF preloaded, Generates
  <2>3. IsPlain(c)
    BY <1>4, <1>7, <2>2 DEF Plainly, SaysPlainly, IsPlain
  <2>4. ASSUME NEW base, NEW defined, Knows(r.walker, s, r.pc - 1, base, defined)
        PROVE  Knows(outcome.walker, s, r.pc, base, defined)
    BY <1>3, <1>4, <1>6, <1>7, <2>3, <2>4, KnowsNext
  <2> HIDE DEF outcome
  <2>5. /\ next.stage = r.stage /\ next.functions = r.functions /\ next.walker = outcome.walker
        /\ next.pc - 1 = r.pc
    BY <1>2, <1>4 DEF IsJob
  <2> HIDE DEF next
  <2>6. r.stage = "preload" => s = input.files[Preload]
    BY <1>5, <1>7 DEF preloaded, Generates
  <2> QED
    BY <1>1, <1>5, <2>1, <2>4, <2>5, <2>6 DEF JobKnows
<1>8. ASSUME outcome.thrown # None PROVE JobKnows(j, failed)
  <2>1. failed.stage = "thrown"
    BY <1>2 DEF Failed, IsJob
  <2> HIDE DEF failed
  <2> QED
    BY <2>1, NothingToKnow
<1> HIDE DEF outcome, failed, next
<1> QED
  BY <1>1, <1>7, <1>8, KnowingBecomes

\* The variables of a task are words.
LEMMA EnvironmentHolds ==
  ASSUME NEW id \in Packages, NEW n \in DOMAIN environment(id)
  PROVE  Holds(Scalar(environment(id)[n][1], FALSE, 0), environment(id)[n])
<1> DEFINE said == environment(id)[n]
           var == Scalar(said[1], FALSE, 0)
<1>1. \E v : said = <<v>>
  BY DEF environment
<1>2. said[1] \in Words
  BY EnvironmentType
<1> HIDE DEF said
<1>3. PICK v : said = <<v>>
  BY <1>1
<1>4. v \in Words /\ said \in Seq(Words) /\ said # <<>> /\ said[1] = v
  BY <1>2, <1>3
<1>5. said # None
  BY <1>4, NoneIsNoList
<1>6. 0 \in Indexes
  BY IndexAssumption DEF Indexes
<1>7. var \in Variable
  BY <1>4, <1>6, ScalarType
<1>8. var.value[0] = v
  BY <1>4, <1>6 DEF Scalar, NoElements
<1> HIDE DEF var
<1>9. Holds(var, said)
  BY <1>4, <1>5, <1>7, <1>8 DEF Holds
<1> QED
  BY <1>9 DEF var, said

\* The walk of the preloaded script is over.
LEMMA PreparedKnows ==
  ASSUME TInv, JobsKnow, NEW j \in Packages, Generates, Plainly(j),
         jobs[j].stage = "preload", jobs[j].pc > Len(script(j))
  PROVE  JobKnows(j, Prepared(j))
<1> DEFINE r == jobs[j]
           s == input.files[Preload]
           e == input.files[path(j)]
           E == environment(j)
           w == WithEnvironment(r.walker, E, path_word(j))
           next == [r EXCEPT !.stage = "script", !.pc = 1, !.variables = NoVariables, !.walker = w]
<1>1. j \in Jobs /\ JobIsRight(j, r)
  BY DEF Jobs, TInv, JobsAreRight
<1>2. IsJob(r) /\ r.variables = Passed(j)
  BY <1>1 DEF JobIsRight, JobTypes
<1>3. Passed(j) = E
  BY MainAssumption DEF Passed
<1>4. script(j) = s
  BY DEF script, preloaded, Generates
<1>5. IsList(s) /\ r.pc \in 1..(Len(s) + 1) /\ Len(s) \in Nat /\ r.walker \in Interpreter
  BY <1>1, <1>4, WalkFacts
<1>6. r.pc - 1 = Len(s)
  BY <1>4, <1>5
<1>7. JobKnows(j, r)
  BY DEF JobsKnow
<1>8. /\ \A n \in MetadataVariables : Holds(r.walker.vars[n], KnownOf(s, Len(s), NothingBefore, n))
      /\ r.walker.functions = {} \cup DefinedUpTo(s, Len(s)) /\ r.functions = {}
  <2>1. r.functions = {} /\ Knows(r.walker, s, r.pc - 1, NothingBefore, {})
    BY <1>7 DEF JobKnows
  <2>2. Knows(r.walker, s, Len(s), NothingBefore, {})
    BY <1>6, <2>1
  <2> QED
    BY <2>1, <2>2 DEF Knows
<1>9. Prepared(j) = IF e = SyntaxError THEN Failed(next, InterpreterException) ELSE next
  BY <1>2, <1>3 DEF Prepared, Parsed
<1>10. w.functions = r.walker.functions
       /\ w.vars = [n \in Names |-> IF n \in DOMAIN E THEN Scalar(E[n][1], FALSE, 0)
                       ELSE IF n = Zero THEN Scalar(path_word(j), TRUE, 0) ELSE r.walker.vars[n]]
  <2>1. {"vars", "functions"} \subseteq DOMAIN r.walker
    BY <1>5 DEF Interpreter
  <2> HIDE DEF r, E
  <2> QED
    BY <2>1 DEF WithEnvironment
<1>11. \A n \in DOMAIN E : Holds(Scalar(E[n][1], FALSE, 0), E[n])
  BY EnvironmentHolds
<1>12. SaidBefore(j) = [n \in MetadataVariables |-> IF n \in DOMAIN E THEN E[n] ELSE LastWords(s, n)]
  BY DEF SaidBefore
<1>13. next.stage = "script" /\ next.pc = 1 /\ next.walker = w /\ next.functions = r.functions
       /\ IsJob(next)
  BY <1>2 DEF IsJob
<1>14. Failed(next, InterpreterException).stage = "thrown"
  BY <1>13 DEF Failed, IsJob
<1>15. JobKnows(j, Failed(next, InterpreterException))
  BY <1>14, NothingToKnow
<1> HIDE DEF r, s, e, E, w, next
<1>16. ASSUME NEW n \in MetadataVariables PROVE Holds(w.vars[n], KnownOf(e, 0, SaidBefore(j), n))
  <2>1. n \in Names /\ n # Zero
    BY MetadataVariablesAssumption
  <2>2. KnownOf(e, 0, SaidBefore(j), n) = IF n \in DOMAIN E THEN E[n] ELSE LastWords(s, n)
    BY <1>12, SaidAtStart DEF KnownOf
  <2>3. CASE n \in DOMAIN E
    BY <1>10, <1>11, <2>1, <2>2, <2>3
  <2>4. CASE n \notin DOMAIN E
    <3>1. w.vars[n] = r.walker.vars[n]
      BY <1>10, <2>1, <2>4
    <3>2. KnownOf(s, Len(s), NothingBefore, n) = LastWords(s, n)
      BY <1>5, SaidAtEnd DEF KnownOf, NothingBefore
    <3> QED
      BY <1>8, <2>2, <2>4, <3>1, <3>2
  <2> QED
    BY <2>3, <2>4
<1>17. w.functions = DefinedBy(s) \cup DefinedUpTo(e, 0) /\ IsFiniteSet(DefinedBy(s))
  BY <1>5, <1>8, <1>10, SaidAtEnd, SaidAtStart
<1>18. Knows(w, e, 0, SaidBefore(j), DefinedBy(s))
  BY <1>16, <1>17 DEF Knows
<1>19. JobKnows(j, next)
  BY <1>8, <1>13, <1>17, <1>18 DEF JobKnows, s, e
<1> QED
  BY <1>9, <1>15, <1>19

\* The walk of the ebuild is over.
LEMMA CollectedKnows ==
  ASSUME TInv, JobsKnow, NEW j \in Packages, Generates, Plainly(j),
         jobs[j].stage = "script", jobs[j].pc > Len(script(j))
  PROVE  JobKnows(j, Collected(j))
<1> DEFINE r == jobs[j]
           s == input.files[Preload]
           e == input.files[path(j)]
           w == r.walker
           values == [n \in {m \in Names : w.vars[m] # None} |-> get_all_values(w.vars[n])]
           next == Collected(j)
<1>1. j \in Jobs /\ JobIsRight(j, r)
  BY DEF Jobs, TInv, JobsAreRight
<1>2. IsJob(r)
  BY <1>1 DEF JobIsRight, JobTypes
<1>4. script(j) = e
  BY DEF script
<1>5. IsList(e) /\ r.pc \in 1..(Len(e) + 1) /\ Len(e) \in Nat /\ w \in Interpreter
  BY <1>1, <1>4, WalkFacts
<1>6. r.pc - 1 = Len(e)
  BY <1>4, <1>5
<1>7. JobKnows(j, r)
  BY DEF JobsKnow
<1>8. /\ \A n \in MetadataVariables : Holds(w.vars[n], KnownOf(e, Len(e), SaidBefore(j), n))
      /\ w.functions = DefinedBy(s) \cup DefinedUpTo(e, Len(e)) /\ r.functions = {}
      /\ IsFiniteSet(DefinedBy(s))
  <2>1. r.functions = {} /\ IsFiniteSet(DefinedBy(s)) /\ Knows(w, e, r.pc - 1, SaidBefore(j), DefinedBy(s))
    BY <1>7 DEF JobKnows
  <2>2. Knows(w, e, Len(e), SaidBefore(j), DefinedBy(s))
    BY <1>6, <2>1
  <2> QED
    BY <2>1, <2>2 DEF Knows
<1>9. next.stage = "open" /\ next.functions = r.functions \cup w.functions /\ next.variables = values
  BY <1>2 DEF Collected, IsJob
<1>10. FunctionsOf(j) = DefinedBy(e) \cup DefinedBy(s)
  BY DEF FunctionsOf
<1>11. \A n : Said(j, n) = IF LastWords(e, n) # None THEN LastWords(e, n)
                           ELSE IF n \in DOMAIN environment(j) THEN environment(j)[n] ELSE LastWords(s, n)
  BY DEF Said
<1>12. SaidBefore(j) = [n \in MetadataVariables |->
            IF n \in DOMAIN environment(j) THEN environment(j)[n] ELSE LastWords(s, n)]
  BY DEF SaidBefore
<1> HIDE DEF r, s, e, w, next
<1>13. ASSUME NEW n \in MetadataVariables PROVE Carries(values, n, Said(j, n))
  <2>1. KnownOf(e, Len(e), SaidBefore(j), n) = Said(j, n)
    BY <1>5, <1>11, <1>12, SaidAtEnd DEF KnownOf
  <2>2. Holds(w.vars[n], Said(j, n))
    BY <1>8, <2>1
  <2>3. n \in Names
    BY MetadataVariablesAssumption
  <2>4. CASE Said(j, n) = None
    BY <2>2, <2>4 DEF Holds, Carries
  <2>5. CASE Said(j, n) # None
    <3>1. Said(j, n) \in Seq(Words) /\ w.vars[n] \in Variable
      BY <2>2, <2>5 DEF Holds
    <3>2. w.vars[n] # None
      BY <3>1, NoneIsNoVariable
    <3>3. n \in DOMAIN values /\ values[n] = get_all_values(w.vars[n])
      BY <2>3, <3>2
    <3> HIDE DEF values
    <3> QED
      BY <2>2, <2>5, <3>1, <3>3, ValuesCarry DEF Carries
  <2> QED
    BY <2>4, <2>5
<1> HIDE DEF values
<1>14. CarriesAll(j, next.variables)
  BY <1>9, <1>13 DEF CarriesAll
<1>15. next.functions = FunctionsOf(j)
  BY <1>5, <1>8, <1>9, <1>10, SaidAtEnd
<1>16. IsFiniteSet(FunctionsOf(j))
  BY <1>5, <1>8, <1>10, SaidAtEnd, FS_Union
<1>17. JobKnows(j, next)
  BY <1>9, <1>14, <1>15, <1>16 DEF JobKnows
<1> QED
  BY <1>17 DEF next

LEMMA EndWalkKnows ==
  ASSUME TInv, JobsKnow, NEW j \in Jobs, EndWalk(j)
  PROVE  JobsKnow'
<1> DEFINE r == IF jobs[j].stage = "preload" THEN Prepared(j) ELSE Collected(j)
<1>1. /\ jobs[j].stage \in {"preload", "script"} /\ jobs[j].pc > Len(script(j))
      /\ Becomes(j, r) /\ UNCHANGED input /\ JobsAreRight
  BY DEF EndWalk, TInv
<1>2. ASSUME Generates, j \in Packages, Plainly(j) PROVE JobKnows(j, r)
  BY <1>1, <1>2, PreparedKnows, CollectedKnows
<1> HIDE DEF r
<1> QED
  BY <1>1, <1>2, KnowingBecomes

----------------------------------------------------------------------------
(* The files.                                                              *)

\* What a file of package id holds, as far as it is written.
FileIsRight(id, file) ==
    /\ \A k \in DOMAIN file.lines \cap DOMAIN metadata_names :
          LineIsRight(id, metadata_names[k], file.lines[k])
    /\ LinesOfCache \in DOMAIN file.lines =>
          ToSet(file.lines[LinesOfCache]) = {phases[f] : f \in FunctionsOf(id) \cap DOMAIN phases}

FilesAreRight ==
    Generates => \A id \in Packages :
        caches[output_path(id)].state = "new" /\ Plainly(id) => FileIsRight(id, caches[output_path(id)])

LEMMA FilesMatch == FilesAreRight <=> CacheMatchesEbuild
BY DEF FilesAreRight, CacheMatchesEbuild, FileIsRight, Plainly, FunctionsOf

\* The files of the other packages stay as they are.
LEMMA FileBecomes ==
  ASSUME TInv, FilesAreRight, UNCHANGED input, NEW j \in Jobs, NEW file,
         caches' = caches \/ caches' = [caches EXCEPT ![output_path(j)] = file],
         (Generates /\ j \in Packages /\ Plainly(j) /\ file.state = "new") => FileIsRight(j, file)
  PROVE  FilesAreRight'
<1>1. DOMAIN caches = Outputs /\ \A i \in Jobs : output_path(i) \in Outputs
  BY DEF TInv, PlacesAreRight, Outputs
<1>2. Generates' = Generates /\ \A id : Plainly(id)' = Plainly(id)
  BY DEF Generates, Plainly
<1>3. ASSUME NEW id \in Packages, Generates, Plainly(id), caches'[output_path(id)].state = "new"
      PROVE  FileIsRight(id, caches'[output_path(id)])
  <2>1. id \in Jobs
    BY DEF Jobs
  <2>2. CASE id = j /\ caches' # caches
    BY <1>1, <1>3, <2>1, <2>2
  <2>3. CASE caches' = caches
    BY <1>3, <2>3 DEF FilesAreRight
  <2>4. CASE id # j /\ caches' # caches
    <3>1. output_path(id) # output_path(j)
      BY <2>1, <2>4, OutputsAssumption
    <3>2. caches'[output_path(id)] = caches[output_path(id)]
      BY <1>1, <2>1, <2>4, <3>1
    <3> QED
      BY <1>3, <3>2 DEF FilesAreRight
  <2> QED
    BY <2>2, <2>3, <2>4
<1>4. ASSUME NEW id \in Packages, FileIsRight(id, caches'[output_path(id)])
      PROVE  FileIsRight(id, caches[output_path(id)])'
  <2>1. \A n : Said(id, n)' = Said(id, n)
    BY DEF Said
  <2>2. \A n : SaidWords(id, n)' = SaidWords(id, n)
    BY <2>1 DEF SaidWords
  <2>3. \A n : Own(id, n)' = Own(id, n)
    BY <2>1, <2>2 DEF Own
  <2>4. \A n, words : LineIsRight(id, n, words)' = LineIsRight(id, n, words)
    BY <2>2, <2>3 DEF LineIsRight
  <2>5. FunctionsOf(id)' = FunctionsOf(id)
    BY DEF FunctionsOf
  <2> QED
    BY <1>4, <2>4, <2>5 DEF FileIsRight
<1> QED
  BY <1>2, <1>3, <1>4 DEF FilesAreRight

LEMMA FilesStay ==
  ASSUME TInv, FilesAreRight, UNCHANGED <<input, caches>>
  PROVE  FilesAreRight'
<1> DEFINE file == EmptyFile("none")
<1>1. Main \in Jobs /\ file.state # "new"
  BY DEF Jobs, EmptyFile
<1> HIDE DEF file
<1> QED
  BY <1>1, FileBecomes

LEMMA OpenKnows ==
  ASSUME TInv, JobsKnow, FilesAreRight, NEW j \in Jobs, Open(j)
  PROVE  JobsKnow' /\ FilesAreRight'
<1> DEFINE r == jobs[j]
           begun == [r EXCEPT !.stage = "write", !.pc = 1]
           over == [r EXCEPT !.stage = "done"]
           next == IF input.program \in {"instruo", "metadata_generator"} THEN begun ELSE over
           file == EmptyFile("new")
<1>1. /\ r.stage = "open" /\ UNCHANGED input /\ Becomes(j, next)
      /\ caches' = caches \/ caches' = [caches EXCEPT ![output_path(j)] = file]
      /\ JobsAreRight
  BY DEF Open, TInv
<1>2. IsJob(r)
  BY <1>1 DEF JobsAreRight, JobIsRight, JobTypes
<1>3. /\ begun.stage = "write" /\ begun.pc = 1 /\ begun.variables = r.variables
      /\ begun.functions = r.functions /\ over.stage = "done"
  BY <1>2 DEF IsJob
<1>4. file.lines = <<>>
  BY DEF EmptyFile
<1> HIDE DEF r, begun, over, file
<1>5. ASSUME Generates, j \in Packages, Plainly(j) PROVE JobKnows(j, begun)
  <2>1. JobKnows(j, r)
    BY <1>5 DEF JobsKnow, r
  <2> QED
    BY <1>1, <1>3, <2>1 DEF JobKnows
<1>6. JobKnows(j, over)
  BY <1>3, NothingToKnow
<1>7. FileIsRight(j, file)
  BY <1>4, LinesOfCacheIsNat DEF FileIsRight
<1>8. JobsKnow'
  BY <1>1, <1>5, <1>6, KnowingBecomes
<1>9. FilesAreRight'
  BY <1>1, <1>7, FileBecomes
<1> QED
  BY <1>8, <1>9

\* Line k of the cache of a package.
LEMMA LineOfCache ==
  ASSUME NEW id, NEW r, CarriesAll(id, r.variables), ~BadEAPI(r.variables),
         r.functions = FunctionsOf(id), IsFiniteSet(r.functions),
         NEW k \in 1..LinesOfCache, ~EndsAt(r.variables, k)
  PROVE  LET line == write_metadata(r.variables, r.functions)[k] IN
         /\ k \in DOMAIN metadata_names => LineIsRight(id, metadata_names[k], line)
         /\ k = LinesOfCache => ToSet(line) = {phases[f] : f \in FunctionsOf(id) \cap DOMAIN phases}
<1> DEFINE V == WithRdepend(r.variables)
           all == [i \in DOMAIN metadata_names |-> metadata_line(V, metadata_names[i])]
           last == phases_line(r.functions)
           line == write_metadata(r.variables, r.functions)[k]
           n == Len(metadata_names)
<1>1. write_metadata(r.variables, r.functions) = Append(all, last)
  BY DEF write_metadata
<1>2. DOMAIN metadata_names = 1..n /\ n \in Nat /\ \A i \in 1..n : metadata_names[i] \in DOMAIN Global
  BY MetadataNamesAssumption
<1>3. \A i \in 1..n : all[i] = metadata_line(V, metadata_names[i])
  BY <1>2
<1>4. IsList(all) /\ Len(all) = n
  <2>1. all = [i \in 1..n |-> all[i]]
    BY <1>2
  <2> DEFINE S == {all[i] : i \in 1..n}
  <2>2. all \in [1..n -> S]
    BY <1>2
  <2> HIDE DEF all, n
  <2>3. all \in Seq(S) /\ Len(all) = n
    BY <1>2, <2>2
  <2> QED
    BY <2>3, SequencesAreLists
<1>5. LinesOfCache = n + 1
  BY DEF LinesOfCache
<1> HIDE DEF all, last, n, V
<1>6. all \in Seq(ToSet(all))
  BY <1>4 DEF IsList
<1>7. (k \in 1..n => line = all[k]) /\ (k = n + 1 => line = last)
  <2> DEFINE S == ToSet(all) \cup {last}
  <2>1. all \in Seq(S) /\ last \in S
    BY <1>6
  <2> HIDE DEF S
  <2>2. /\ \A i \in 1..n : Append(all, last)[i] = all[i]
        /\ Append(all, last)[n + 1] = last
    BY <1>2, <1>4, <2>1
  <2> QED
    BY <1>1, <2>2
<1>8. ASSUME k \in 1..n PROVE LineIsRight(id, metadata_names[k], line)
  <2>1. /\ metadata_names[k] \in DOMAIN Global
        /\ ~ReadsElementZero(V, metadata_names[k])
        /\ ~ReadsElementZero(r.variables, Global[metadata_names[k]])
    BY <1>2, <1>8 DEF EndsAt, V
  <2>2. line = metadata_line(V, metadata_names[k])
    BY <1>3, <1>7, <1>8
  <2> HIDE DEF line
  <2> QED
    BY <2>1, <2>2, MetadataLine DEF V
<1>9. ASSUME k = LinesOfCache
      PROVE  ToSet(line) = {phases[f] : f \in FunctionsOf(id) \cap DOMAIN phases}
  <2>1. line = last
    BY <1>5, <1>7, <1>9
  <2> HIDE DEF line
  <2> QED
    BY <2>1, PhasesFacts DEF last
<1> QED
  BY <1>2, <1>8, <1>9

LEMMA WriteLineKnows ==
  ASSUME TInv, IInv, JobsKnow, FilesAreRight, NEW j \in Jobs, WriteLine(j)
  PROVE  JobsKnow' /\ FilesAreRight'
<1> DEFINE r == jobs[j]
           failed == Failed(r, OtherException)
           next == [r EXCEPT !.pc = @ + 1]
           line == write_metadata(r.variables, r.functions)[r.pc]
           old == caches[output_path(j)]
           file == [old EXCEPT !.lines = Append(@, line)]
<1>1. r.stage = "write" /\ r.pc <= LinesOfCache /\ UNCHANGED input /\ JobsAreRight
  BY DEF WriteLine, TInv
<1>2. IsJob(r) /\ r.pc \in Nat
  BY <1>1 DEF JobsAreRight, JobIsRight, JobTypes
<1>3. CASE EndsAt(r.variables, r.pc)
  <2>1. Becomes(j, failed) /\ caches' = caches
    BY <1>3 DEF WriteLine
  <2>2. failed.stage = "thrown"
    BY <1>2 DEF Failed, IsJob
  <2> HIDE DEF r, failed
  <2>3. JobKnows(j, failed)
    BY <2>2, NothingToKnow
  <2>4. JobsKnow'
    BY <1>1, <2>1, <2>3, KnowingBecomes
  <2>5. FilesAreRight'
    BY <1>1, <2>1, FilesStay
  <2> QED
    BY <2>4, <2>5
<1>4. CASE ~EndsAt(r.variables, r.pc)
  <2>1. /\ Becomes(j, next)
        /\ caches' = IF ~Written(j) THEN caches
                     ELSE [caches EXCEPT ![output_path(j)].lines = Append(@, line)]
    BY <1>4 DEF WriteLine
  <2>2. next.stage = "write" /\ next.pc = r.pc + 1 /\ next.variables = r.variables
        /\ next.functions = r.functions
    BY <1>1, <1>2 DEF IsJob
  <2>3. DOMAIN caches = Outputs /\ output_path(j) \in Outputs /\ DOMAIN old = {"state", "lines"}
    BY DEF IInv, Shape, Outputs
  <2>4. caches' = IF ~Written(j) THEN caches ELSE [caches EXCEPT ![output_path(j)] = file]
    BY <2>1, <2>3
  <2>5. file.state = old.state /\ file.lines = Append(old.lines, line)
    BY <2>3
  <2>6. ASSUME Generates, j \in Packages, Plainly(j)
        PROVE  /\ CarriesAll(j, r.variables) /\ ~BadEAPI(r.variables)
               /\ r.functions = FunctionsOf(j) /\ IsFiniteSet(r.functions)
    <3>1. JobKnows(j, r)
      BY <2>6 DEF JobsKnow
    <3>2. r.pc > 0 /\ (r.pc > 1 => ~BadEAPI(r.variables))
      BY <1>1, <3>1 DEF JobKnows
    <3>3. r.pc = 1 => ~BadEAPI(r.variables)
      BY <1>4 DEF EndsAt
    <3>4. r.pc = 1 \/ r.pc > 1
      BY <1>2, <3>2
    <3> QED
      BY <1>1, <3>1, <3>2, <3>3, <3>4 DEF JobKnows
  <2>7. ASSUME Generates, j \in Packages, Plainly(j), file.state = "new", Written(j)
        PROVE  FileIsRight(j, file)
    <3>1. FileIsRight(j, old)
      BY <2>5, <2>7 DEF FilesAreRight
    <3>2. LinesInOrder(j)
      BY DEF IInv
    <3>3. IsList(old.lines) /\ Len(old.lines) = r.pc - 1 /\ r.pc \in Nat /\ r.pc > 0
      <4>1. JobKnows(j, r)
        BY <2>7 DEF JobsKnow
      <4> QED
        BY <1>1, <1>2, <2>7, <3>2, <4>1 DEF LinesInOrder, Generates, JobKnows
    <3>4. r.pc \in 1..LinesOfCache
      BY <1>1, <3>3, LinesOfCacheIsNat
    <3>5. /\ r.pc \in DOMAIN metadata_names => LineIsRight(j, metadata_names[r.pc], line)
          /\ r.pc = LinesOfCache =>
                ToSet(line) = {phases[f] : f \in FunctionsOf(j) \cap DOMAIN phases}
      BY <1>4, <2>6, <2>7, <3>4, LineOfCache
    <3> DEFINE lines == old.lines
    <3>6. file.lines = Append(lines, line)
      BY <2>5
    <3> HIDE DEF r, line, old, file
    <3>7. /\ DOMAIN file.lines = 1..r.pc
          /\ \A i \in 1..(r.pc - 1) : i \in DOMAIN lines /\ file.lines[i] = lines[i]
          /\ file.lines[r.pc] = line
      <4> DEFINE S == ToSet(lines) \cup {line}
                 m == r.pc - 1
      <4>1. lines \in Seq(S) /\ line \in S /\ Len(lines) = m
        BY <3>3 DEF IsList
      <4>2. m \in Nat /\ r.pc = m + 1
        BY <3>3
      <4> HIDE DEF S, lines, m
      <4>3. /\ DOMAIN Append(lines, line) = 1..(m + 1)
            /\ \A i \in 1..m : i \in DOMAIN lines /\ Append(lines, line)[i] = lines[i]
            /\ Append(lines, line)[m + 1] = line
        BY <4>1, <4>2
      <4> QED
        BY <3>6, <4>2, <4>3 DEF m
    <3>8. \A i \in DOMAIN file.lines : i = r.pc \/ i \in 1..(r.pc - 1)
      BY <3>3, <3>7
    <3>9. ASSUME NEW i \in DOMAIN file.lines \cap DOMAIN metadata_names
          PROVE  LineIsRight(j, metadata_names[i], file.lines[i])
      <4>1. CASE i = r.pc
        BY <3>5, <3>7, <3>9, <4>1
      <4>2. CASE i \in 1..(r.pc - 1)
        BY <3>1, <3>7, <3>9, <4>2 DEF FileIsRight, lines
      <4> QED
        BY <3>8, <4>1, <4>2
    <3>10. ASSUME LinesOfCache \in DOMAIN file.lines
           PROVE  ToSet(file.lines[LinesOfCache]) = {phases[f] : f \in FunctionsOf(j) \cap DOMAIN phases}
      <4>1. LinesOfCache = r.pc
        BY <3>4, <3>7, <3>10, LinesOfCacheIsNat
      <4> QED
        BY <3>5, <3>7, <4>1
    <3> QED
      BY <3>9, <3>10 DEF FileIsRight
  <2> HIDE DEF r, next, line, file, old
  <2>8. ASSUME Generates, j \in Packages, Plainly(j) PROVE JobKnows(j, next)
    <3>1. next.pc > 0
      BY <1>2, <2>2
    <3> QED
      BY <2>2, <2>6, <2>8, <3>1 DEF JobKnows
  <2>9. JobsKnow'
    BY <1>1, <2>1, <2>8, KnowingBecomes
  <2>10. FilesAreRight'
    <3>1. CASE Written(j)
      BY <1>1, <2>4, <2>7, <3>1, FileBecomes
    <3>2. CASE ~Written(j)
      BY <1>1, <2>4, <3>2, FilesStay
    <3> QED
      BY <3>1, <3>2
  <2> QED
    BY <2>9, <2>10
<1> QED
  BY <1>3, <1>4

----------------------------------------------------------------------------
(* The invariant.                                                          *)

Kept == JobsKnow /\ FilesAreRight

LEMMA InitKnows ==
  ASSUME Init
  PROVE  Kept
<1>1. \A id \in Packages : jobs[id] = NoJob /\ caches[output_path(id)].state # "new"
  BY DEF Init, Jobs, Outputs, EmptyFile
<1>2. \A id : JobKnows(id, NoJob)
  BY NothingToKnow DEF NoJob
<1> QED
  BY <1>1, <1>2 DEF Kept, JobsKnow, FilesAreRight

\* Neither a job nor a file changes.
LEMMA KeptStays ==
  ASSUME TInv, Kept, UNCHANGED <<input, jobs, caches>>
  PROVE  Kept'
BY KnowingStays, FilesStay DEF Kept

\* Job j comes to a stage in which it holds nothing, the files stay.
LEMMA KeptLater ==
  ASSUME TInv, Kept, NEW j \in Jobs, NEW r, Becomes(j, r), UNCHANGED <<input, caches>>,
         (Generates /\ j \in Packages) => JobKnows(j, r)
  PROVE  Kept'
BY KnowingBecomes, FilesStay DEF Kept, TInv

LEMMA JobStepKnows ==
  ASSUME TInv, IInv, Kept, NEW j \in Jobs, JobStep(j)
  PROVE  Kept'
<1>1. CASE RunCommand(j) \/ EndWalk(j)
  <2>1. UNCHANGED <<input, caches>>
    BY <1>1 DEF RunCommand, EndWalk
  <2> QED
    BY <1>1, <2>1, RunCommandKnows, EndWalkKnows, FilesStay DEF Kept
<1>2. CASE Open(j)
  BY <1>2, OpenKnows DEF Kept
<1>3. CASE WriteLine(j)
  BY <1>3, WriteLineKnows DEF Kept
<1>4. ASSUME Becomes(j, [jobs[j] EXCEPT !.stage = "done"]), UNCHANGED <<input, caches>>
      PROVE  Kept'
  <2> DEFINE r == [jobs[j] EXCEPT !.stage = "done"]
  <2>1. r.stage = "done"
    BY DEF TInv, JobsAreRight, JobIsRight, JobTypes, IsJob
  <2>2. Becomes(j, r)
    BY <1>4
  <2> HIDE DEF r
  <2>3. JobKnows(j, r)
    BY <2>1, NothingToKnow
  <2> QED
    BY <1>4, <2>2, <2>3, KeptLater
<1>5. CASE Close(j)
  BY <1>4, <1>5 DEF Close
<1>6. CASE Catch(j)
  <2>1. UNCHANGED <<input, caches>>
        /\ (UNCHANGED jobs \/ Becomes(j, [jobs[j] EXCEPT !.stage = "done"]))
    BY <1>6 DEF Catch
  <2> QED
    BY <1>4, <2>1, KeptStays
<1>7. CASE Terminate(j)
  BY <1>7, KeptStays DEF Terminate
<1> QED
  BY <1>1, <1>2, <1>3, <1>5, <1>6, <1>7 DEF JobStep

\* A task that waits holds nothing, and that of Main is none of a package.
LEMMA MainStepKnows ==
  ASSUME TInv, QueueIsFresh, Kept, MainStep
  PROVE  Kept'
<1>1. CASE StartInstruo \/ Join \/ EndScript \/ StartAstPrinter \/ PrintFile \/ EndAstPrinter
  <2>1. UNCHANGED <<input, jobs, caches>>
    BY <1>1 DEF StartInstruo, Join, EndScript, StartAstPrinter, PrintFile, EndAstPrinter
  <2> QED
    BY <2>1, KeptStays
<1>2. CASE Schedule
  <2> DEFINE id == Head(queue)
             r == [jobs[id] EXCEPT !.stage = "queued"]
  <2>1. /\ input.program = "instruo" /\ queue # <<>>
        /\ jobs' = [jobs EXCEPT ![id].stage = "queued"]
        /\ UNCHANGED <<input, caches>>
    BY <1>2 DEF Schedule
  <2>2. queue \in Seq(Packages)
    BY <2>1 DEF TInv, PlacesAreRight
  <2>3. id \in Jobs
    BY <2>1, <2>2 DEF Jobs
  <2>4. DOMAIN jobs = Jobs /\ IsJob(jobs[id])
    BY <2>3 DEF TInv, JobsAreRight, JobIsRight, JobTypes
  <2> HIDE DEF id
  <2>5. Becomes(id, r) /\ r.stage = "queued"
    BY <2>1, <2>3, <2>4 DEF Becomes, IsJob
  <2> HIDE DEF r
  <2>6. JobKnows(id, r)
    BY <2>5, NothingToKnow
  <2> QED
    BY <2>1, <2>3, <2>5, <2>6, KeptLater
<1>3. CASE StartScript
  <2>1. UNCHANGED <<input, caches>> /\ (UNCHANGED jobs \/ Becomes(Main, Started(Main)))
    BY <1>3 DEF StartScript
  <2>2. Main \in Jobs /\ Main \notin Packages
    BY MainAssumption DEF Jobs
  <2> QED
    BY <2>1, <2>2, KeptStays, KeptLater
<1> QED
  BY <1>1, <1>2, <1>3 DEF MainStep

LEMMA NextKnows ==
  ASSUME TInv, QueueIsFresh, IInv, Kept, [Next]_vars
  PROVE  Kept'
<1>1. CASE UNCHANGED vars
  BY <1>1, KeptStays DEF vars
<1>2. CASE MainStep
  BY <1>2, MainStepKnows
<1>3. ASSUME NEW id \in Packages, StartTask(id) PROVE Kept'
  <2>1. Becomes(id, Started(id)) /\ UNCHANGED <<input, caches>> /\ id \in Jobs
    BY <1>3 DEF StartTask, Jobs
  <2>2. Generates => JobKnows(id, Started(id))
    BY StartedKnows
  <2> QED
    BY <2>1, <2>2, KeptLater
<1>4. ASSUME NEW j \in Jobs, JobStep(j) PROVE Kept'
  BY <1>4, JobStepKnows
<1> QED
  BY <1>1, <1>2, <1>3, <1>4 DEF Next, Terminated

\* A cache file that a task has begun holds, line by line, the metadata of its own
\* ebuild, for any packages, scripts, names and team, whatever the other tasks do.
THEOREM CachesMatchEbuilds == Spec => []CacheMatchesEbuild
<1> DEFINE Inv == (TInv /\ QueueIsFresh) /\ IInv /\ Kept
<1>1. Init => Inv
  BY InitTypes, InitIsFresh, InitInvariant, InitKnows
<1>2. Inv /\ [Next]_vars => Inv'
  <2> SUFFICES ASSUME Inv, [Next]_vars PROVE Inv'
    OBVIOUS
  <2>1. (TInv /\ QueueIsFresh)'
    BY CommandDoes, NextIsRight
  <2>2. IInv'
    BY NextInvariant
  <2>3. Kept'
    BY NextKnows
  <2> QED
    BY <2>1, <2>2, <2>3
<1>3. Inv => CacheMatchesEbuild
  BY FilesMatch DEF Kept
<1> HIDE DEF Inv
<1> QED
  BY <1>1, <1>2, <1>3, PTL DEF Spec
=============================================================================
