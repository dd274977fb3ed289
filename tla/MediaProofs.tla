----------------------------- MODULE MediaProofs -----------------------------
(***************************************************************************)
(* Proofs about the media path: Mp4Parser, for any files, streams and      *)
(* widths of its counters, and WebStreaming, for any viewers, browser      *)
(* peers, streams, requests and capacities of the channels.                *)
(***************************************************************************)
EXTENDS Mp4Parser, WebStreaming, FiniteSetTheorems, SequenceTheorems, NaturalsInduction,
        WellFoundedInduction, TLAPS

-----------------------------------------------------------------------------
(* Induction and sums *)

\* Induction over the naturals, as a fact about a set of them
LEMMA NatSets ==
    ASSUME NEW P \in SUBSET Nat, 0 \in P, \A n \in P : n + 1 \in P
    PROVE  P = Nat
  <1> DEFINE T == Nat \ P
  <1>1. ASSUME T # {} PROVE FALSE
    <2>1. PICK x \in T : \A y \in T : ~(<<y, x>> \in OpToRel(<, Nat))
      BY <1>1, NatLessThanWellFounded, WFMin
    <2>2. \A y \in T : ~(y < x)
      BY <2>1 DEF OpToRel
    <2>3. x - 1 \in P /\ x \notin P
      BY <2>2
    <2> QED
      BY <2>3
  <1> QED
    BY <1>1

\* The form in which it is used: up to a bound
LEMMA UpTo ==
    ASSUME NEW n \in Nat, NEW P, 0 \in P, \A i \in 0 .. n - 1 : i \in P => i + 1 \in P
    PROVE  \A i \in 0..n : i \in P
  <1> DEFINE Q == {i \in Nat : i <= n => i \in P}
  <1>1. 0 \in Q /\ \A i \in Q : i + 1 \in Q
    OBVIOUS
  <1>2. Q = Nat
    <2>1. Q \in SUBSET Nat
      OBVIOUS
    <2> HIDE DEF Q
    <2> QED
      BY <1>1, <2>1, NatSets
  <1> QED
    BY <1>2

\* The loop that adds up, round by round
Plus(s, w, i) == s[i - 1] + w[i]
IsSum(s, w, n) == s = [i \in 0..n |-> IF i = 0 THEN 0 ELSE Plus(s, w, i)]

\* Running sums exist: a prefix of them can always be carried on
LEMMA SumExists ==
    ASSUME NEW w, NEW n \in Nat
    PROVE  \E s : IsSum(s, w, n)
  <1> DEFINE P == {j \in Nat : \E s : IsSum(s, w, j)}
  <1>1. 0 \in P
    <2> DEFINE s == [i \in 0..0 |-> 0]
    <2>1. s = [i \in 0..0 |-> IF i = 0 THEN 0 ELSE Plus(s, w, i)]
      OBVIOUS
    <2> QED
      BY <2>1 DEF IsSum
  <1>2. ASSUME NEW j \in P PROVE j + 1 \in P
    <2>1. j \in Nat
      OBVIOUS
    <2>2. PICK s : IsSum(s, w, j)
      OBVIOUS
    <2> DEFINE last == Plus(s, w, j + 1)
               t == [i \in 0 .. j + 1 |-> IF i = j + 1 THEN last ELSE s[i]]
    <2>3. \A i \in 0..j : s[i] = IF i = 0 THEN 0 ELSE Plus(s, w, i)
      BY <2>2 DEF IsSum
    <2>4. \A i \in 0..j : t[i] = s[i]
      BY <2>1
    <2>5. \A i \in 1 .. j + 1 : Plus(t, w, i) = Plus(s, w, i)
      <3> TAKE i \in 1 .. j + 1
      <3>1. i - 1 \in 0..j
        BY <2>1
      <3>2. t[i - 1] = s[i - 1]
        BY <3>1, <2>4
      <3> QED
        BY <3>2 DEF Plus
    <2>6. t[j + 1] = last
      BY <2>1
    <2>7. ASSUME NEW i \in 0 .. j + 1
          PROVE  t[i] = IF i = 0 THEN 0 ELSE Plus(t, w, i)
      <3>1. CASE i = j + 1
        <4>1. i # 0 /\ i \in 1 .. j + 1
          BY <2>1, <3>1
        <4> HIDE DEF t
        <4> QED
          BY <2>5, <2>6, <3>1, <4>1
      <3>2. CASE i # j + 1
        <4>1. i \in 0..j /\ (i = 0 \/ i \in 1 .. j + 1)
          BY <2>1, <3>2
        <4> HIDE DEF t
        <4> QED
          BY <2>3, <2>4, <2>5, <4>1
      <3> QED
        BY <3>1, <3>2
    <2>8. t = [i \in 0 .. j + 1 |-> t[i]]
      OBVIOUS
    <2> HIDE DEF t
    <2>9. IsSum(t, w, j + 1)
      BY <2>7, <2>8 DEF IsSum
    <2> QED
      BY <2>1, <2>9
  <1> HIDE DEF P
  <1>3. P \subseteq Nat
    BY DEF P
  <1>4. P = Nat
    BY <1>1, <1>2, <1>3, NatSets
  <1> QED
    BY <1>4 DEF P

\* What Sums computes: nothing at first, then one weight more each round
LEMMA SumRecursion ==
    ASSUME NEW w, NEW n \in Nat
    PROVE  /\ Sums(w, n)[0] = 0
           /\ \A i \in 1..n : Sums(w, n)[i] = Sums(w, n)[i - 1] + w[i]
  <1>1. \E s : s = [i \in 0..n |-> IF i = 0 THEN 0 ELSE s[i - 1] + w[i]]
    <2>1. \E s : IsSum(s, w, n)
      BY SumExists
    <2> QED
      BY <2>1, Zenon DEF IsSum, Plus
  <1>2. Sums(w, n) = [i \in 0..n |-> IF i = 0 THEN 0 ELSE Sums(w, n)[i - 1] + w[i]]
    BY <1>1, Zenon DEF Sums
  <1> DEFINE s == Sums(w, n)
  <1>3. s = [i \in 0..n |-> IF i = 0 THEN 0 ELSE s[i - 1] + w[i]]
    BY <1>2
  <1> HIDE DEF s
  <1>4. s[0] = 0 /\ \A i \in 1..n : s[i] = s[i - 1] + w[i]
    BY <1>3
  <1> QED
    BY <1>4 DEF s

\* Sums of naturals are naturals ...
LEMMA SumNat ==
    ASSUME NEW w, NEW n \in Nat, \A i \in 1..n : w[i] \in Nat
    PROVE  \A i \in 0..n : Sums(w, n)[i] \in Nat
  <1> DEFINE s == Sums(w, n)
             P == {i \in 0..n : s[i] \in Nat}
  <1>1. s[0] = 0 /\ \A i \in 1..n : s[i] = s[i - 1] + w[i]
    BY SumRecursion
  <1> HIDE DEF s
  <1>2. 0 \in P
    BY <1>1
  <1>3. ASSUME NEW i \in 0 .. n - 1, i \in P PROVE i + 1 \in P
    <2>1. i + 1 \in 1..n /\ (i + 1) - 1 = i
      OBVIOUS
    <2>2. s[i + 1] = s[i] + w[i + 1]
      BY <1>1, <2>1
    <2> QED
      BY <1>3, <2>1, <2>2
  <1>4. \A i \in 0..n : i \in P
    <2> HIDE DEF P
    <2> QED
      BY <1>2, <1>3, UpTo
  <1> QED
    BY <1>4 DEF s

\* ... and never fall
LEMMA SumMonotone ==
    ASSUME NEW w, NEW n \in Nat, \A i \in 1..n : w[i] \in Nat,
           NEW a \in 0..n, NEW b \in 0..n, a <= b
    PROVE  Sums(w, n)[a] <= Sums(w, n)[b]
  <1> DEFINE s == Sums(w, n)
             P == {i \in 0..n : a <= i => s[a] <= s[i]}
  <1>1. \A i \in 1..n : s[i] = s[i - 1] + w[i]
    BY SumRecursion
  <1>2. \A i \in 0..n : s[i] \in Nat
    BY SumNat
  <1> HIDE DEF s
  <1>3. 0 \in P
    BY <1>2
  <1>4. ASSUME NEW i \in 0 .. n - 1, i \in P PROVE i + 1 \in P
    <2>1. i + 1 \in 1..n /\ (i + 1) - 1 = i /\ i \in 0..n
      OBVIOUS
    <2>2. s[i + 1] = s[i] + w[i + 1] /\ w[i + 1] \in Nat
      BY <1>1, <2>1
    <2>3. s[i] \in Nat /\ s[a] \in Nat /\ s[i + 1] \in Nat
      BY <1>2, <2>1
    <2>4. CASE a <= i
      BY <1>4, <2>1, <2>2, <2>3, <2>4
    <2>5. CASE ~(a <= i)
      BY <2>1, <2>3, <2>5
    <2> QED
      BY <2>4, <2>5
  <1>5. \A i \in 0..n : i \in P
    <2> HIDE DEF P
    <2> QED
      BY <1>3, <1>4, UpTo
  <1> QED
    BY <1>5 DEF s

\* Sums of the same summands are the same
Agree(w, n, v, m, k) ==
    {n, m, k} \subseteq Nat /\ k <= n /\ k <= m /\ \A i \in 1..k : w[i] = v[i]

\* A sum depends on the weights up to it only
LEMMA SumSame ==
    ASSUME NEW w, NEW v, NEW n, NEW m, NEW k, Agree(w, n, v, m, k)
    PROVE  Sums(w, n)[k] = Sums(v, m)[k]
  <1>0. n \in Nat /\ m \in Nat /\ k \in Nat /\ k <= n /\ k <= m
    BY DEF Agree
  <1> DEFINE s == Sums(w, n)
             t == Sums(v, m)
             P == {i \in 0..k : s[i] = t[i]}
  <1>1. /\ s[0] = 0 /\ \A i \in 1..n : s[i] = s[i - 1] + w[i]
        /\ t[0] = 0 /\ \A i \in 1..m : t[i] = t[i - 1] + v[i]
    BY <1>0, SumRecursion
  <1> HIDE DEF s, t
  <1>2. 0 \in P
    BY <1>0, <1>1
  <1>3. ASSUME NEW i \in 0 .. k - 1, i \in P PROVE i + 1 \in P
    <2>1. i + 1 \in 1..k /\ i + 1 \in 1..n /\ i + 1 \in 1..m /\ (i + 1) - 1 = i
      BY <1>0
    <2>2. s[i + 1] = s[i] + w[i + 1] /\ t[i + 1] = t[i] + v[i + 1] /\ w[i + 1] = v[i + 1]
      BY <1>1, <2>1 DEF Agree
    <2> QED
      BY <1>3, <2>1, <2>2
  <1>4. \A i \in 0..k : i \in P
    <2> HIDE DEF P
    <2> QED
      BY <1>0, <1>2, <1>3, UpTo
  <1> QED
    BY <1>0, <1>4 DEF s, t

\* The lesser of two, the least and the greatest of many
LEMMA MinOfTwo ==
    ASSUME NEW a \in Int, NEW b \in Int
    PROVE  Min({a, b}) = IF a <= b THEN a ELSE b
  BY DEF Min

\* Non-empty sets of naturals have a least element, bounded ones a greatest
LEMMA LeastOf ==
    ASSUME NEW S \in SUBSET Nat, S # {}
    PROVE  Min(S) \in S /\ \A x \in S : Min(S) <= x
  <1>1. PICK x \in S : \A y \in S : ~(<<y, x>> \in OpToRel(<, Nat))
    BY NatLessThanWellFounded, WFMin
  <1>2. \A y \in S : ~(y < x)
    BY <1>1 DEF OpToRel
  <1>3. \A y \in S : x <= y
    BY <1>2
  <1> QED
    BY <1>3 DEF Min

LEMMA GreatestOf ==
    ASSUME NEW n \in Nat, NEW S \in SUBSET (0..n), S # {}
    PROVE  Max(S) \in S /\ \A x \in S : x <= Max(S)
  <1> DEFINE T == {k \in 0..n : n - k \in S}
  <1>1. T \subseteq Nat
    OBVIOUS
  <1>2. ASSUME NEW x \in S PROVE n - x \in T
    <2>1. x \in 0..n
      OBVIOUS
    <2>2. n - x \in 0..n /\ n - (n - x) = x
      BY <2>1
    <2> QED
      BY <2>2
  <1>3. T # {}
    BY <1>2
  <1> DEFINE z == Min(T)
  <1>4. z \in T /\ \A y \in T : z <= y
    <2> HIDE DEF T
    <2> QED
      BY <1>1, <1>3, LeastOf
  <1>5. n - z \in S /\ z \in 0..n
    BY <1>4
  <1>6. ASSUME NEW y \in S PROVE n - z >= y
    <2>1. z <= n - y
      BY <1>2, <1>4
    <2>2. y \in 0..n
      OBVIOUS
    <2> HIDE DEF z
    <2> QED
      BY <1>5, <2>1, <2>2
  <1>7. \E x \in S : \A y \in S : x >= y
    BY <1>5, <1>6
  <1>8. Max(S) \in S /\ \A y \in S : Max(S) >= y
    BY <1>7 DEF Max
  <1> QED
    BY <1>8

-----------------------------------------------------------------------------
(* The sample table *)

\* The loop of resolve_sample_offsets over the chunks, round by round
Place(p, t, c) == p[c - 1] \o ChunkEntries(t, c, Len(p[c - 1]))
IsPlaced(p, t, n) == p = [c \in 0..n |-> IF c = 0 THEN <<>> ELSE Place(p, t, c)]

\* Its results exist, and follow the loop
LEMMA PlacedExists ==
    ASSUME NEW t, NEW n \in Nat
    PROVE  \E p : IsPlaced(p, t, n)
  <1> DEFINE P == {j \in Nat : \E p : IsPlaced(p, t, j)}
  <1>1. 0 \in P
    <2> DEFINE p == [c \in 0..0 |-> <<>>]
    <2>1. p = [c \in 0..0 |-> IF c = 0 THEN <<>> ELSE Place(p, t, c)]
      OBVIOUS
    <2> QED
      BY <2>1 DEF IsPlaced
  <1>2. ASSUME NEW j \in P PROVE j + 1 \in P
    <2>1. j \in Nat
      OBVIOUS
    <2>2. PICK p : IsPlaced(p, t, j)
      OBVIOUS
    <2> DEFINE last == Place(p, t, j + 1)
               q == [c \in 0 .. j + 1 |-> IF c = j + 1 THEN last ELSE p[c]]
    <2>3. \A c \in 0..j : p[c] = IF c = 0 THEN <<>> ELSE Place(p, t, c)
      BY <2>2 DEF IsPlaced
    <2>4. \A c \in 0..j : q[c] = p[c]
      BY <2>1
    <2>5. \A c \in 1 .. j + 1 : Place(q, t, c) = Place(p, t, c)
      <3> TAKE c \in 1 .. j + 1
      <3>1. c - 1 \in 0..j
        BY <2>1
      <3>2. q[c - 1] = p[c - 1]
        BY <3>1, <2>4
      <3> QED
        BY <3>2 DEF Place
    <2>6. q[j + 1] = last
      BY <2>1
    <2>7. ASSUME NEW c \in 0 .. j + 1
          PROVE  q[c] = IF c = 0 THEN <<>> ELSE Place(q, t, c)
      <3>1. CASE c = j + 1
        <4>1. c # 0 /\ c \in 1 .. j + 1
          BY <2>1, <3>1
        <4> HIDE DEF q
        <4> QED
          BY <2>5, <2>6, <3>1, <4>1
      <3>2. CASE c # j + 1
        <4>1. c \in 0..j /\ (c = 0 \/ c \in 1 .. j + 1)
          BY <2>1, <3>2
        <4> HIDE DEF q
        <4> QED
          BY <2>3, <2>4, <2>5, <4>1
      <3> QED
        BY <3>1, <3>2
    <2>8. q = [c \in 0 .. j + 1 |-> q[c]]
      OBVIOUS
    <2> HIDE DEF q
    <2>9. IsPlaced(q, t, j + 1)
      BY <2>7, <2>8 DEF IsPlaced
    <2> QED
      BY <2>1, <2>9
  <1> HIDE DEF P
  <1>3. P \subseteq Nat
    BY DEF P
  <1>4. P = Nat
    BY <1>1, <1>2, <1>3, NatSets
  <1> QED
    BY <1>4 DEF P

LEMMA PlacedRecursion ==
    ASSUME NEW t, Len(t.chunk_offsets) \in Nat
    PROVE  /\ Placed(t)[0] = <<>>
           /\ \A c \in 1..Len(t.chunk_offsets) :
                 Placed(t)[c] = Placed(t)[c - 1] \o ChunkEntries(t, c, Len(Placed(t)[c - 1]))
  <1> DEFINE n == Len(t.chunk_offsets)
  <1>1. \E p : p = [c \in 0..n |-> IF c = 0 THEN <<>> ELSE p[c - 1] \o ChunkEntries(t, c, Len(p[c - 1]))]
    <2>1. \E p : IsPlaced(p, t, n)
      BY PlacedExists
    <2> QED
      BY <2>1, Zenon DEF IsPlaced, Place
  <1>2. Placed(t) = [c \in 0..n |-> IF c = 0 THEN <<>>
                                    ELSE Placed(t)[c - 1] \o ChunkEntries(t, c, Len(Placed(t)[c - 1]))]
    BY <1>1, Zenon DEF Placed
  <1> DEFINE p == Placed(t)
  <1>3. p = [c \in 0..n |-> IF c = 0 THEN <<>> ELSE Place(p, t, c)]
    BY <1>2, Zenon DEF Place
  <1>4. n \in Nat
    OBVIOUS
  <1> HIDE DEF p, n
  <1>5. p[0] = <<>> /\ \A c \in 1..n : p[c] = Place(p, t, c)
    BY <1>3, <1>4
  <1> QED
    BY <1>5 DEF p, n, Place

\* The entries of a sample table are naturals
LEMMA TableFacts ==
    ASSUME NEW t \in SampleTables
    PROVE  /\ Len(t.sample_sizes) \in Nat /\ \A i \in 1..Len(t.sample_sizes) : t.sample_sizes[i] \in Nat
           /\ Len(t.chunk_offsets) \in Nat /\ \A c \in 1..Len(t.chunk_offsets) : t.chunk_offsets[c] \in Nat
           /\ \A c \in 1..Len(t.chunk_offsets) : SamplesPerChunk(t)[c] \in Nat
  <1>1. /\ t.sample_sizes \in Seq(Nat) /\ t.chunk_offsets \in Seq(Nat)
        /\ t.sample_to_chunk \in Seq([first_chunk : Nat, samples_per_chunk : Nat])
    BY DEF SampleTables
  <1>2. ASSUME NEW c \in 1..Len(t.chunk_offsets) PROVE SamplesPerChunk(t)[c] \in Nat
    <2> DEFINE runs == {i \in 1..Len(t.sample_to_chunk) : c \in RunChunks(t, i)}
    <2>1. SamplesPerChunk(t)[c] = IF runs = {} THEN 0 ELSE t.sample_to_chunk[Max(runs)].samples_per_chunk
      BY DEF SamplesPerChunk
    <2>2. CASE runs # {}
      <3>1. Len(t.sample_to_chunk) \in Nat /\ runs \subseteq 1..Len(t.sample_to_chunk)
        BY <1>1
      <3>2. runs \in SUBSET (0..Len(t.sample_to_chunk))
        BY <3>1
      <3>3. Max(runs) \in runs
        <4> HIDE DEF runs
        <4> QED
          BY <2>2, <3>1, <3>2, GreatestOf
      <3> DEFINE m == Max(runs)
                 s == t.sample_to_chunk
      <3>4. m \in 1..Len(s) /\ s \in Seq([first_chunk : Nat, samples_per_chunk : Nat])
        BY <1>1, <3>1, <3>3
      <3>5. s[m].samples_per_chunk \in Nat
        <4> HIDE DEF m, s
        <4>1. s[m] \in [first_chunk : Nat, samples_per_chunk : Nat]
          BY <3>4, ElementOfSeq
        <4> QED
          BY <4>1
      <3> QED
        BY <2>1, <2>2, <3>5
    <2> QED
      BY <2>1, <2>2
  <1> QED
    BY <1>1, <1>2

PlacedEntries == [offset : Nat, size : Nat]

\* The samples of one chunk lie behind one another from the chunk's offset on
LEMMA ChunkFacts ==
    ASSUME NEW t \in SampleTables, NEW c \in 1..Len(t.chunk_offsets), NEW done \in 0..Len(t.sample_sizes)
    PROVE  /\ ChunkEntries(t, c, done) \in Seq(PlacedEntries)
           /\ Len(ChunkEntries(t, c, done)) =
                 IF SamplesPerChunk(t)[c] <= Len(t.sample_sizes) - done THEN SamplesPerChunk(t)[c]
                 ELSE Len(t.sample_sizes) - done
           /\ \A j \in 1..Len(ChunkEntries(t, c, done)) :
                 /\ ChunkEntries(t, c, done)[j].size = t.sample_sizes[done + j]
                 /\ j = 1 => ChunkEntries(t, c, done)[j].offset = t.chunk_offsets[c]
                 /\ j > 1 => ChunkEntries(t, c, done)[j].offset =
                                ChunkEntries(t, c, done)[j - 1].offset + ChunkEntries(t, c, done)[j - 1].size
  <1> DEFINE S == Len(t.sample_sizes)
             per == SamplesPerChunk(t)[c]
             n == Min({per, S - done})
             w == [j \in 1..n |-> t.sample_sizes[done + j]]
             o == Sums(w, n)
             at == t.chunk_offsets[c]
             E == [j \in 1..n |-> [offset |-> at + o[j - 1], size |-> t.sample_sizes[done + j]]]
  <1>1. /\ S \in Nat /\ per \in Nat /\ done \in 0..S /\ at \in Nat
        /\ \A i \in 1..S : t.sample_sizes[i] \in Nat
    BY TableFacts
  <1>2. ChunkEntries(t, c, done) = E
    BY DEF ChunkEntries
  <1>3. n = IF per <= S - done THEN per ELSE S - done
    <2>1. per \in Int /\ S - done \in Int
      BY <1>1
    <2> HIDE DEF per, S
    <2> QED
      BY <2>1, MinOfTwo
  <1>4. n \in Nat /\ done + n <= S
    <2> HIDE DEF n, per, S
    <2> QED
      BY <1>1, <1>3
  <1>5. \A j \in 1..n : t.sample_sizes[done + j] \in Nat
    <2> HIDE DEF n
    <2>1. \A j \in 1..n : done + j \in 1..S
      <3> HIDE DEF S
      <3> QED
        BY <1>1, <1>4
    <2> QED
      BY <1>1, <2>1
  <1> HIDE DEF n
  <1>6. \A j \in 1..n : w[j] = t.sample_sizes[done + j] /\ w[j] \in Nat
    BY <1>5
  <1> HIDE DEF w
  <1>7. o[0] = 0 /\ (\A j \in 1..n : o[j] = o[j - 1] + w[j]) /\ \A j \in 0..n : o[j] \in Nat
    BY <1>4, <1>6, SumRecursion, SumNat
  <1> HIDE DEF o, at
  <1>8. E \in Seq(PlacedEntries) /\ Len(E) = n
    <2>1. \A j \in 1..n : o[j - 1] \in Nat
      BY <1>4, <1>7
    <2>2. \A j \in 1..n : [offset |-> at + o[j - 1], size |-> t.sample_sizes[done + j]] \in PlacedEntries
      BY <1>1, <1>5, <2>1 DEF PlacedEntries
    <2> QED
      BY <1>4, <2>2
  <1>9. ASSUME NEW j \in 1..n
        PROVE  /\ E[j].size = t.sample_sizes[done + j]
               /\ j = 1 => E[j].offset = at
               /\ j > 1 => E[j].offset = E[j - 1].offset + E[j - 1].size
    <2>1. E[j].size = t.sample_sizes[done + j] /\ E[j].offset = at + o[j - 1]
      OBVIOUS
    <2>2. j = 1 => E[j].offset = at
      BY <1>1, <1>7, <2>1
    <2>3. ASSUME j > 1 PROVE E[j].offset = E[j - 1].offset + E[j - 1].size
      <3>1. j - 1 \in 1..n
        BY <1>4, <2>3
      <3>2. E[j - 1].size = w[j - 1] /\ E[j - 1].offset = at + o[(j - 1) - 1]
        BY <1>6, <3>1
      <3>3. o[j - 1] = o[(j - 1) - 1] + w[j - 1] /\ o[(j - 1) - 1] \in Nat /\ w[j - 1] \in Nat
        <4>1. (j - 1) - 1 \in 0..n
          BY <1>4, <3>1
        <4> QED
          BY <1>6, <1>7, <3>1, <4>1
      <3> QED
        BY <1>1, <2>1, <3>2, <3>3
    <2> QED
      BY <2>1, <2>2, <2>3
  <1> HIDE DEF E, per, S
  <1> QED
    BY <1>2, <1>3, <1>8, <1>9 DEF S, per, at

LEMMA ConcatFacts ==
    ASSUME NEW X, NEW p \in Seq(X), NEW r \in Seq(X),
           NEW q, q = p \o r, NEW done, done = Len(p), NEW n, n = Len(r)
    PROVE  /\ q \in Seq(X) /\ done \in Nat /\ n \in Nat /\ Len(q) = done + n
           /\ \A i \in 1..done : q[i] = p[i]
           /\ \A j \in 1..n : q[done + j] = r[j]
           /\ \A i \in 1..Len(q) : i > done =>
                 i - done \in 1..n /\ done + (i - done) = i /\ q[i] = r[i - done]
  OBVIOUS

\* A chunk gets the samples that are left, or as many as it has room for
LEMMA ShareOf ==
    ASSUME NEW S \in Nat, NEW U \in Nat, NEW per \in Nat, NEW done, NEW n,
           done = IF S <= U THEN S ELSE U, n = IF per <= S - done THEN per ELSE S - done
    PROVE  /\ done + n = IF S <= U + per THEN S ELSE U + per
           /\ n > 0 => done = U
           /\ done <= U /\ done \in Nat /\ n \in Nat
  <1>1. CASE S <= U
    BY <1>1
  <1>2. CASE ~(S <= U)
    BY <1>2
  <1> QED
    BY <1>1, <1>2

\* The entries p after c chunks, u[d] of which the first d chunks have room for
WellPlaced(t, u, p, c) ==
    /\ p \in Seq(PlacedEntries)
    /\ Len(p) = IF Len(t.sample_sizes) <= u[c] THEN Len(t.sample_sizes) ELSE u[c]
    /\ \A i \in 1..Len(p) : p[i].size = t.sample_sizes[i]
    /\ \A d \in 1..c, i \in 1..Len(p) : u[d - 1] < i /\ i <= u[d] =>
          p[i].offset = IF i - 1 > u[d - 1] THEN p[i - 1].offset + p[i - 1].size ELSE t.chunk_offsets[d]

\* One round keeps the samples well placed
LEMMA ChunkPlaced ==
    ASSUME NEW t \in SampleTables, NEW u, NEW p, NEW c \in 0 .. Len(t.chunk_offsets) - 1,
           WellPlaced(t, u, p, c), \A d \in 0..Len(t.chunk_offsets) : u[d] \in Nat,
           \A d \in 0..Len(t.chunk_offsets), e \in 0..Len(t.chunk_offsets) : d <= e => u[d] <= u[e],
           u[c + 1] = u[c] + SamplesPerChunk(t)[c + 1]
    PROVE  WellPlaced(t, u, p \o ChunkEntries(t, c + 1, Len(p)), c + 1)
  <1> DEFINE N == Len(t.chunk_offsets)
             S == Len(t.sample_sizes)
             per == SamplesPerChunk(t)[c + 1]
             done == Len(p)
             E == ChunkEntries(t, c + 1, done)
             n == Len(E)
             q == p \o E
  <1>1. /\ N \in Nat /\ S \in Nat /\ c + 1 \in 1..N /\ c \in 0..N /\ c + 1 \in 0..N /\ c \in Nat
        /\ per \in Nat
    BY TableFacts
  <1>2. /\ u[c] \in Nat /\ u[c + 1] \in Nat /\ u[c + 1] = u[c] + per
        /\ done = IF S <= u[c] THEN S ELSE u[c]
        /\ p \in Seq(PlacedEntries)
    BY <1>1 DEF WellPlaced
  <1>3. done \in 0..S
    <2> HIDE DEF done, S
    <2> QED
      BY <1>1, <1>2
  <1>4. /\ E \in Seq(PlacedEntries)
        /\ n = IF per <= S - done THEN per ELSE S - done
        /\ \A j \in 1..n :
             /\ E[j].size = t.sample_sizes[done + j]
             /\ j = 1 => E[j].offset = t.chunk_offsets[c + 1]
             /\ j > 1 => E[j].offset = E[j - 1].offset + E[j - 1].size
    BY <1>1, <1>3, ChunkFacts
  <1> HIDE DEF E, per
  <1>5. /\ q \in Seq(PlacedEntries) /\ Len(q) = done + n /\ n \in Nat /\ done \in Nat
        /\ \A i \in 1..done : q[i] = p[i]
        /\ \A j \in 1..n : q[done + j] = E[j]
        /\ \A i \in 1..Len(q) : i > done =>
              i - done \in 1..n /\ done + (i - done) = i /\ q[i] = E[i - done]
    <2>1. p \in Seq(PlacedEntries) /\ E \in Seq(PlacedEntries) /\ q = p \o E /\ done = Len(p) /\ n = Len(E)
      BY <1>2, <1>4
    <2> HIDE DEF q, n, done
    <2> QED
      BY <2>1, ConcatFacts
  <1> HIDE DEF q, n, done, S, N
  <1>6. /\ Len(q) = IF S <= u[c + 1] THEN S ELSE u[c + 1]
        /\ n > 0 => done = u[c]
        /\ done <= u[c]
    <2> DEFINE U == u[c]
    <2>1. /\ S \in Nat /\ U \in Nat /\ per \in Nat /\ done = IF S <= U THEN S ELSE U
          /\ n = IF per <= S - done THEN per ELSE S - done
      BY <1>1, <1>2, <1>4
    <2> HIDE DEF U
    <2>2. /\ done + n = IF S <= U + per THEN S ELSE U + per
          /\ n > 0 => done = U
          /\ done <= U
      BY <2>1, ShareOf
    <2> QED
      BY <1>2, <1>5, <2>2 DEF U
  <1>8. ASSUME NEW i \in 1..Len(q) PROVE q[i].size = t.sample_sizes[i]
    <2>1. CASE i <= done
      <3>1. i \in 1..done
        BY <1>5, <2>1
      <3> QED
        BY <1>5, <3>1 DEF WellPlaced, done
    <2>2. CASE i > done
      <3>1. i - done \in 1..n /\ done + (i - done) = i /\ q[i] = E[i - done]
        BY <1>5, <2>2
      <3>2. E[i - done].size = t.sample_sizes[done + (i - done)]
        BY <1>4, <3>1
      <3> QED
        BY <3>1, <3>2
    <2> QED
      BY <1>5, <2>1, <2>2
  <1>9. ASSUME NEW d \in 1 .. c + 1, NEW i \in 1..Len(q), u[d - 1] < i, i <= u[d]
        PROVE  q[i].offset = IF i - 1 > u[d - 1] THEN q[i - 1].offset + q[i - 1].size ELSE t.chunk_offsets[d]
    <2>1. d \in 0..N /\ d - 1 \in 0..N /\ d \in Nat /\ u[d] \in Nat /\ u[d - 1] \in Nat
      <3>1. d \in 0..N /\ d - 1 \in 0..N /\ d \in Nat
        BY <1>1
      <3> QED
        BY <3>1 DEF N
    <2>2. CASE i <= done
      <3>1. i \in 1..done
        BY <1>5, <2>2
      <3>2. ASSUME d = c + 1 PROVE FALSE
        <4>1. d - 1 = c
          BY <1>1, <3>2
        <4>2. u[c] < i /\ done <= u[c] /\ i <= done
          BY <1>6, <1>9, <2>2, <4>1
        <4> QED
          BY <1>2, <1>5, <4>2
      <3>3. d \in 1..c
        BY <1>1, <2>1, <3>2
      <3>4. p[i].offset = IF i - 1 > u[d - 1] THEN p[i - 1].offset + p[i - 1].size ELSE t.chunk_offsets[d]
        BY <1>9, <3>1, <3>3 DEF WellPlaced, done
      <3>5. CASE i - 1 > u[d - 1]
        <4>1. i - 1 \in 1..done
          BY <1>5, <2>1, <3>1, <3>5
        <4>2. q[i] = p[i] /\ q[i - 1] = p[i - 1]
          BY <1>5, <3>1, <4>1
        <4> QED
          BY <3>4, <3>5, <4>2
      <3>6. CASE ~(i - 1 > u[d - 1])
        <4>1. q[i] = p[i]
          BY <1>5, <3>1
        <4> QED
          BY <3>4, <3>6, <4>1
      <3> QED
        BY <3>5, <3>6
    <2>3. CASE i > done
      <3> DEFINE j == i - done
      <3>1. j \in 1..n /\ done + j = i /\ n > 0
        BY <1>5, <2>3
      <3>2. done = u[c]
        BY <1>6, <3>1
      <3>3. d = c + 1
        <4>1. ASSUME d # c + 1 PROVE FALSE
          <5>1. d \in 0..N /\ d <= c
            BY <1>1, <2>1, <4>1
          <5>2. u[d] <= u[c]
            BY <1>1, <5>1 DEF N
          <5> QED
            BY <1>2, <1>5, <1>9, <2>1, <2>3, <3>2, <5>2
        <4> QED
          BY <4>1
      <3>4. d - 1 = c
        BY <1>1, <3>3
      <3>5. q[i] = E[j]
        BY <1>5, <3>1
      <3>6. CASE j = 1
        <4>1. ~(i - 1 > u[d - 1])
          BY <1>5, <3>1, <3>2, <3>4, <3>6
        <4> QED
          BY <1>4, <3>1, <3>3, <3>5, <3>6, <4>1
      <3>7. CASE j > 1
        <4>0. u[d - 1] = done /\ j \in Nat /\ i \in Nat
          BY <1>5, <3>1, <3>2, <3>4
        <4>1. i - 1 > u[d - 1] /\ j - 1 \in 1..n /\ done + (j - 1) = i - 1
          <5> HIDE DEF j
          <5> QED
            BY <1>5, <3>1, <3>7, <4>0
        <4>2. q[i - 1] = E[j - 1]
          BY <1>5, <4>1
        <4>3. E[j].offset = E[j - 1].offset + E[j - 1].size
          BY <1>4, <3>1, <3>7
        <4> QED
          BY <3>5, <4>1, <4>2, <4>3
      <3> QED
        BY <1>5, <3>1, <3>6, <3>7
    <2> QED
      BY <1>5, <2>2, <2>3
  <1>10. WellPlaced(t, u, q, c + 1)
    BY <1>5, <1>6, <1>8, <1>9 DEF WellPlaced, S
  <1> QED
    BY <1>10 DEF q, E, done

\* How many samples the chunks up to each one have room for
Room(t) == Sums(SamplesPerChunk(t), Len(t.chunk_offsets))

LEMMA RoomFacts ==
    ASSUME NEW t \in SampleTables
    PROVE  /\ Room(t)[0] = 0
           /\ \A c \in 0 .. Len(t.chunk_offsets) - 1 : Room(t)[c + 1] = Room(t)[c] + SamplesPerChunk(t)[c + 1]
           /\ \A c \in 0..Len(t.chunk_offsets) : Room(t)[c] \in Nat
           /\ \A c \in 0..Len(t.chunk_offsets), d \in 0..Len(t.chunk_offsets) :
                 c <= d => Room(t)[c] <= Room(t)[d]
  <1> DEFINE N == Len(t.chunk_offsets)
             w == SamplesPerChunk(t)
             u == Sums(w, N)
  <1>1. N \in Nat /\ \A c \in 1..N : w[c] \in Nat
    BY TableFacts
  <1> HIDE DEF N, w
  <1>2. u[0] = 0 /\ \A c \in 1..N : u[c] = u[c - 1] + w[c]
    BY <1>1, SumRecursion
  <1>3. \A c \in 0..N : u[c] \in Nat
    BY <1>1, SumNat
  <1>4. ASSUME NEW c \in 0..N, NEW d \in 0..N, c <= d PROVE u[c] <= u[d]
    BY <1>1, <1>4, SumMonotone
  <1> HIDE DEF u
  <1>5. ASSUME NEW c \in 0 .. N - 1 PROVE u[c + 1] = u[c] + w[c + 1]
    <2>1. c + 1 \in 1..N /\ (c + 1) - 1 = c
      BY <1>1
    <2> QED
      BY <1>2, <2>1
  <1> QED
    BY <1>2, <1>3, <1>4, <1>5 DEF Room, u, N, w

\* After any number of chunks the samples are well placed
LEMMA PlacedGood ==
    ASSUME NEW t \in SampleTables
    PROVE  WellPlaced(t, Room(t), Placed(t)[Len(t.chunk_offsets)], Len(t.chunk_offsets))
  <1> DEFINE N == Len(t.chunk_offsets)
             u == Room(t)
             p == Placed(t)
             P == {c \in 0..N : WellPlaced(t, u, p[c], c)}
  <1>1. N \in Nat /\ Len(t.sample_sizes) \in Nat
    BY TableFacts
  <1>2. p[0] = <<>> /\ \A c \in 1..N : p[c] = p[c - 1] \o ChunkEntries(t, c, Len(p[c - 1]))
    BY <1>1, PlacedRecursion
  <1>3. /\ u[0] = 0 /\ \A c \in 0 .. N - 1 : u[c + 1] = u[c] + SamplesPerChunk(t)[c + 1]
        /\ \A c \in 0..N : u[c] \in Nat
        /\ \A c \in 0..N, d \in 0..N : c <= d => u[c] <= u[d]
    BY RoomFacts
  <1> HIDE DEF u, p
  <1>4. 0 \in P
    <2>1. <<>> \in Seq(PlacedEntries) /\ Len(<<>>) = 0
      OBVIOUS
    <2>2. WellPlaced(t, u, <<>>, 0)
      <3> DEFINE S == Len(t.sample_sizes)
      <3>1. 0 = IF S <= u[0] THEN S ELSE u[0]
        <4> HIDE DEF S
        <4> QED
          BY <1>1, <1>3 DEF S
      <3> QED
        BY <2>1, <3>1 DEF WellPlaced
    <2> QED
      BY <1>1, <1>2, <2>2
  <1>5. ASSUME NEW c \in 0 .. N - 1, c \in P PROVE c + 1 \in P
    <2>1. c + 1 \in 1..N /\ (c + 1) - 1 = c /\ c + 1 \in 0..N
      BY <1>1
    <2>2. WellPlaced(t, u, p[c], c)
      BY <1>5
    <2> DEFINE pc == p[c]
    <2>3. p[c + 1] = pc \o ChunkEntries(t, c + 1, Len(pc))
      BY <1>2, <2>1
    <2>4. WellPlaced(t, u, pc \o ChunkEntries(t, c + 1, Len(pc)), c + 1)
      <3>1. WellPlaced(t, u, pc, c)
        BY <2>2
      <3> HIDE DEF pc
      <3> QED
        BY <1>3, <3>1, ChunkPlaced
    <2> QED
      BY <2>1, <2>3, <2>4
  <1>6. \A c \in 0..N : c \in P
    <2> HIDE DEF P, N
    <2> QED
      BY <1>1, <1>4, <1>5, UpTo
  <1>7. N \in P
    BY <1>1, <1>6
  <1> QED
    BY <1>7 DEF u, p

\* Sample i is one of chunk c
HasChunk(t, i, c) == c \in 1..Len(t.chunk_offsets) /\ Room(t)[c - 1] < i /\ i <= Room(t)[c]

\* A placed sample is one of exactly one chunk: the one ChunkOf finds
LEMMA ChunkFound ==
    ASSUME NEW t \in SampleTables, NEW i \in Nat, i > 0, i <= Room(t)[Len(t.chunk_offsets)]
    PROVE  HasChunk(t, i, ChunkOf(t, i))
  <1> DEFINE N == Len(t.chunk_offsets)
             u == Room(t)
             T == {d \in 0..N : i <= u[d]}
             m == Min(T)
  <1>1. N \in Nat /\ i <= u[N]
    BY TableFacts
  <1>2. u[0] = 0 /\ \A c \in 0..N : u[c] \in Nat
    BY RoomFacts
  <1>0. ChunkOf(t, i) = CHOOSE c \in 1..N : u[c - 1] < i /\ i <= u[c]
    BY DEF ChunkOf, Room
  <1> HIDE DEF N, u
  <1>3. T \in SUBSET Nat /\ N \in T
    BY <1>1
  <1>4. m \in T /\ \A x \in T : m <= x
    <2> HIDE DEF T
    <2> QED
      BY <1>3, LeastOf
  <1>5. m \in 0..N /\ i <= u[m]
    BY <1>4
  <1>6. m # 0
    BY <1>2, <1>5
  <1> HIDE DEF m
  <1>7. m \in 1..N /\ m - 1 \in 0..N /\ m - 1 < m
    BY <1>1, <1>5, <1>6
  <1>8. m - 1 \notin T
    <2> HIDE DEF T
    <2> QED
      BY <1>4, <1>7, <1>5
  <1>9. u[m - 1] < i
    BY <1>2, <1>7, <1>8
  <1>10. \E c \in 1..N : u[c - 1] < i /\ i <= u[c]
    BY <1>5, <1>7, <1>9
  <1> QED
    BY <1>0, <1>10 DEF HasChunk, N, u

LEMMA OneChunk ==
    ASSUME NEW t \in SampleTables, NEW i \in Nat, NEW c, NEW d, HasChunk(t, i, c), HasChunk(t, i, d)
    PROVE  c = d
  <1> DEFINE N == Len(t.chunk_offsets)
             u == Room(t)
  <1>1. N \in Nat /\ c \in 1..N /\ d \in 1..N
    BY TableFacts DEF HasChunk
  <1>2. u[c - 1] < i /\ i <= u[c] /\ u[d - 1] < i /\ i <= u[d]
    BY DEF HasChunk
  <1>3. /\ \A e \in 0..N : u[e] \in Nat
        /\ \A e \in 0..N, f \in 0..N : e <= f => u[e] <= u[f]
    BY RoomFacts
  <1> HIDE DEF N, u
  <1>4. c \in 0..N /\ d \in 0..N /\ c - 1 \in 0..N /\ d - 1 \in 0..N
    BY <1>1
  <1>5. u[c] \in Nat /\ u[d] \in Nat /\ u[c - 1] \in Nat /\ u[d - 1] \in Nat
    BY <1>3, <1>4
  <1>6. CASE c < d
    <2>1. c <= d - 1
      BY <1>1, <1>6
    <2>2. u[c] <= u[d - 1]
      BY <1>3, <1>4, <2>1
    <2> QED
      BY <1>2, <1>5, <2>2
  <1>7. CASE d < c
    <2>1. d <= c - 1
      BY <1>1, <1>7
    <2>2. u[d] <= u[c - 1]
      BY <1>3, <1>4, <2>1
    <2> QED
      BY <1>2, <1>5, <2>2
  <1> QED
    BY <1>1, <1>6, <1>7

\* What the samples resolve to, without the fields that only depend on their number
LEMMA ResolvedPlaces ==
    ASSUME NEW t \in SampleTables, t.sample_sizes # <<>>
    PROVE  LET p == Placed(t)[Len(t.chunk_offsets)]
               e == resolve_sample_offsets(t)
           IN  /\ p \in Seq(PlacedEntries) => e \in Seq(Range(e)) /\ Len(e) = Len(p)
               /\ \A i \in 1..Len(p) : e[i].offset = p[i].offset /\ e[i].size = p[i].size
  <1> DEFINE p == Placed(t)[Len(t.chunk_offsets)]
             n == Len(p)
             e == resolve_sample_offsets(t)
             durs == Expand(t.time_to_sample, n)
             ctts == Expand(t.composition_offsets, n)
             syncs == ToSet(t.sync_samples)
  <1> HIDE DEF p, durs, ctts, syncs
  <1>1. e = [i \in 1..n |->
                [offset |-> p[i].offset, size |-> p[i].size,
                 duration |-> durs[i], is_keyframe |-> syncs = {} \/ i \in syncs,
                 composition_offset |-> ctts[i]]]
    BY DEF resolve_sample_offsets, p, durs, ctts, syncs
  <1> HIDE DEF e
  <1>2. \A i \in 1..n : e[i].offset = p[i].offset /\ e[i].size = p[i].size
    BY <1>1
  <1>3. ASSUME p \in Seq(PlacedEntries) PROVE e \in Seq(Range(e)) /\ Len(e) = n
    <2>1. n \in Nat
      BY <1>3
    <2>2. DOMAIN e = 1..n /\ \A i \in 1..n : e[i] \in Range(e)
      BY <1>1 DEF Range
    <2> HIDE DEF n
    <2> QED
      BY <1>1, <2>1, <2>2
  <1> QED
    BY <1>2, <1>3 DEF p, e

\* All chunks read: the samples are where the table says
LEMMA TableInPlace ==
    ASSUME NEW t \in SampleTables
    PROVE  InPlace(t, resolve_sample_offsets(t))
  <1> DEFINE N == Len(t.chunk_offsets)
             S == Len(t.sample_sizes)
             u == Room(t)
             p == Placed(t)[N]
             e == resolve_sample_offsets(t)
  <1>1. N \in Nat /\ S \in Nat
    BY TableFacts
  <1>2. WellPlaced(t, u, p, N)
    BY PlacedGood
  <1>3. u[N] \in Nat /\ \A c \in 0..N : u[c] \in Nat
    BY <1>1, RoomFacts
  <1>4. Min({S, u[N]}) = IF S <= u[N] THEN S ELSE u[N]
    <2> DEFINE U == u[N]
    <2>1. S \in Int /\ U \in Int
      BY <1>1, <1>3
    <2> HIDE DEF S, U
    <2>2. Min({S, U}) = IF S <= U THEN S ELSE U
      BY <2>1, MinOfTwo
    <2> QED
      BY <2>2 DEF U
  <1>5. CASE t.sample_sizes = <<>>
    <2>1. e = <<>> /\ S = 0
      BY <1>5 DEF resolve_sample_offsets
    <2>2. Len(e) = Min({S, u[N]})
      <3> HIDE DEF S, u
      <3> QED
        BY <1>3, <1>4, <2>1
    <2> HIDE DEF e
    <2> QED
      BY <2>1, <2>2 DEF InPlace, Room, e
  <1>6. CASE t.sample_sizes # <<>>
    <2>1. p \in Seq(PlacedEntries) /\ Len(p) \in Nat
      BY <1>2 DEF WellPlaced
    <2>2. Len(e) = Len(p) /\ \A i \in 1..Len(p) : e[i].offset = p[i].offset /\ e[i].size = p[i].size
      BY <1>6, <2>1, ResolvedPlaces
    <2>3. Len(e) = Min({S, u[N]}) /\ Len(e) \in Nat /\ Len(e) <= u[N]
      <3>1. Len(e) = IF S <= u[N] THEN S ELSE u[N]
        BY <1>2, <2>2 DEF WellPlaced
      <3> HIDE DEF S, u, e
      <3> QED
        BY <1>1, <1>3, <1>4, <3>1
    <2> HIDE DEF e, u, p, N, S
    <2>4. ASSUME NEW i \in 1..Len(e)
          PROVE  /\ e[i].size = t.sample_sizes[i]
                 /\ e[i].offset = IF i > 1 /\ ChunkOf(t, i) = ChunkOf(t, i - 1)
                                  THEN e[i - 1].offset + e[i - 1].size
                                  ELSE t.chunk_offsets[ChunkOf(t, i)]
      <3> DEFINE d == ChunkOf(t, i)
      <3>1. e[i].size = t.sample_sizes[i]
        BY <1>2, <2>2, <2>4 DEF WellPlaced
      <3>2. i \in Nat /\ i > 0 /\ i <= u[N] /\ i \in 1..Len(p)
        BY <1>3, <2>2, <2>3
      <3>3. HasChunk(t, i, d)
        BY <3>2, ChunkFound DEF u, N
      <3> HIDE DEF d
      <3>4. d \in 1..N /\ u[d - 1] < i /\ i <= u[d] /\ d \in 0..N /\ d - 1 \in 0..N
        BY <1>1, <3>3 DEF HasChunk, u, N
      <3>5. u[d] \in Nat /\ u[d - 1] \in Nat
        BY <1>3, <3>4
      <3>6. p[i].offset = IF i - 1 > u[d - 1] THEN p[i - 1].offset + p[i - 1].size ELSE t.chunk_offsets[d]
        BY <1>2, <3>2, <3>4 DEF WellPlaced
      <3>7. (i > 1 /\ d = ChunkOf(t, i - 1)) <=> i - 1 > u[d - 1]
        <4>1. ASSUME i > 1, d = ChunkOf(t, i - 1) PROVE i - 1 > u[d - 1]
          <5> DEFINE k == i - 1
          <5>1. k \in Nat /\ k > 0 /\ k <= u[N]
            BY <1>3, <3>2, <4>1
          <5> HIDE DEF k
          <5>2. HasChunk(t, k, ChunkOf(t, k))
            BY <5>1, ChunkFound DEF u, N
          <5>3. u[d - 1] < k
            BY <4>1, <5>2 DEF HasChunk, u, k
          <5> QED
            BY <3>2, <3>5, <5>1, <5>3 DEF k
        <4>2. ASSUME i - 1 > u[d - 1] PROVE i > 1 /\ d = ChunkOf(t, i - 1)
          <5> DEFINE k == i - 1
          <5>1. k \in Nat /\ k > 0 /\ k <= u[N] /\ k <= u[d] /\ u[d - 1] < k /\ i > 1
            BY <1>3, <3>2, <3>4, <3>5, <4>2
          <5> HIDE DEF k
          <5>2. HasChunk(t, k, ChunkOf(t, k))
            BY <5>1, ChunkFound DEF u, N
          <5>3. HasChunk(t, k, d)
            BY <3>4, <5>1 DEF HasChunk, u, N
          <5>4. d = ChunkOf(t, k)
            BY <5>1, <5>2, <5>3, OneChunk
          <5> QED
            BY <5>1, <5>4 DEF k
        <4> QED
          BY <4>1, <4>2
      <3>8. e[i].offset = p[i].offset
        BY <2>2, <3>2
      <3>9. CASE i - 1 > u[d - 1]
        <4>1. i - 1 \in 1..Len(p)
          BY <2>1, <3>2, <3>5, <3>9
        <4>2. e[i - 1].offset = p[i - 1].offset /\ e[i - 1].size = p[i - 1].size
          BY <2>2, <4>1
        <4>3. e[i].offset = e[i - 1].offset + e[i - 1].size
          BY <3>6, <3>8, <3>9, <4>2
        <4>4. i > 1 /\ ChunkOf(t, i) = ChunkOf(t, i - 1)
          BY <3>7, <3>9 DEF d
        <4> QED
          BY <3>1, <4>3, <4>4
      <3>10. CASE ~(i - 1 > u[d - 1])
        <4>1. e[i].offset = t.chunk_offsets[d]
          BY <3>6, <3>8, <3>10
        <4>2. ~(i > 1 /\ ChunkOf(t, i) = ChunkOf(t, i - 1))
          BY <3>7, <3>10 DEF d
        <4> QED
          BY <3>1, <4>1, <4>2 DEF d
      <3> QED
        BY <3>9, <3>10
    <2> QED
      BY <2>3, <2>4 DEF InPlace, Room, u, N, S, e
  <1> QED
    BY <1>5, <1>6

-----------------------------------------------------------------------------
(* Sequences of whatever they hold *)

\* A sequence, whatever it holds
IsSeq(s) == s \in Seq(ToSet(s))

LEMMA SeqFacts ==
    ASSUME NEW s, IsSeq(s)
    PROVE  /\ Len(s) \in Nat /\ DOMAIN s = 1..Len(s)
           /\ \A i \in 1..Len(s) : s[i] \in ToSet(s)
  BY DEF IsSeq

LEMMA InSeq ==
    ASSUME NEW X, NEW s \in Seq(X)
    PROVE  IsSeq(s) /\ ToSet(s) \subseteq X
  BY DEF IsSeq, ToSet

LEMMA MadeSeq ==
    ASSUME NEW n \in Nat, NEW s, s = [i \in 1..n |-> s[i]]
    PROVE  IsSeq(s) /\ Len(s) = n
  <1>1. DOMAIN s = 1..n /\ \A i \in 1..n : s[i] \in ToSet(s)
    BY DEF ToSet
  <1>2. s \in Seq(ToSet(s))
    <2> DEFINE X == ToSet(s)
    <2>1. s \in [1..n -> X]
      BY <1>1
    <2> HIDE DEF X
    <2>2. s \in Seq(X)
      BY <2>1
    <2> QED
      BY <2>2 DEF X
  <1> QED
    BY <1>1, <1>2 DEF IsSeq

LEMMA NoneSeq ==
    ASSUME NEW s, s = <<>>
    PROVE  IsSeq(s) /\ Len(s) = 0 /\ ToSet(s) = {}
  <1>1. ToSet(s) = {}
    BY DEF ToSet
  <1> QED
    BY <1>1 DEF IsSeq

LEMMA OneSeq ==
    ASSUME NEW x, NEW s, s = <<x>>
    PROVE  IsSeq(s) /\ Len(s) = 1 /\ ToSet(s) = {x} /\ s[1] = x
  <1>1. ToSet(s) = {x}
    BY DEF ToSet
  <1> QED
    BY <1>1 DEF IsSeq

\* q is p followed by r
IsConcat(q, p, r, done, n) ==
    IsSeq(p) /\ IsSeq(r) /\ q = p \o r /\ done = Len(p) /\ n = Len(r)

LEMMA Joining ==
    ASSUME NEW p, NEW r, NEW q, NEW done, NEW n, IsConcat(q, p, r, done, n)
    PROVE  /\ IsSeq(q) /\ done \in Nat /\ n \in Nat /\ Len(q) = done + n
           /\ ToSet(q) = ToSet(p) \cup ToSet(r)
           /\ \A i \in 1..done : q[i] = p[i]
           /\ \A j \in 1..n : q[done + j] = r[j]
           /\ \A i \in 1..Len(q) : i > done =>
                 i - done \in 1..n /\ done + (i - done) = i /\ q[i] = r[i - done]
  <1> DEFINE X == ToSet(p) \cup ToSet(r)
  <1>1. p \in Seq(X) /\ r \in Seq(X)
    <2> DEFINE A == ToSet(p)
               B == ToSet(r)
    <2>1. p \in Seq(A) /\ r \in Seq(B)
      BY DEF IsSeq, IsConcat
    <2> HIDE DEF A, B
    <2>2. p \in Seq(A \cup B) /\ r \in Seq(A \cup B)
      BY <2>1
    <2> QED
      BY <2>2 DEF A, B
  <1> HIDE DEF X
  <1>2. /\ q \in Seq(X) /\ done \in Nat /\ n \in Nat /\ Len(q) = done + n
        /\ \A i \in 1..done : q[i] = p[i]
        /\ \A j \in 1..n : q[done + j] = r[j]
        /\ \A i \in 1..Len(q) : i > done =>
              i - done \in 1..n /\ done + (i - done) = i /\ q[i] = r[i - done]
    <2>1. q = p \o r /\ done = Len(p) /\ n = Len(r)
      BY DEF IsConcat
    <2> QED
      BY <1>1, <2>1, ConcatFacts
  <1>3. DOMAIN q = 1..Len(q) /\ DOMAIN p = 1..done /\ DOMAIN r = 1..n
    BY <1>1, <1>2 DEF IsConcat
  <1>4. ASSUME NEW x \in ToSet(q) PROVE x \in ToSet(p) \cup ToSet(r)
    <2>1. PICK i \in 1..Len(q) : x = q[i]
      BY <1>3 DEF ToSet
    <2>2. CASE i <= done
      <3>1. i \in 1..done
        BY <1>2, <2>2
      <3> QED
        BY <1>2, <1>3, <2>1, <3>1 DEF ToSet
    <2>3. CASE i > done
      <3>1. i - done \in 1..n /\ q[i] = r[i - done]
        BY <1>2, <2>3
      <3> QED
        BY <1>3, <2>1, <3>1 DEF ToSet
    <2> QED
      BY <1>2, <2>2, <2>3
  <1>5. ASSUME NEW x \in ToSet(p) PROVE x \in ToSet(q)
    <2>1. PICK i \in 1..done : x = p[i]
      BY <1>3 DEF ToSet
    <2>2. i \in 1..Len(q) /\ q[i] = x
      BY <1>2, <2>1
    <2> QED
      BY <1>3, <2>2 DEF ToSet
  <1>6. ASSUME NEW x \in ToSet(r) PROVE x \in ToSet(q)
    <2>1. PICK j \in 1..n : x = r[j]
      BY <1>3 DEF ToSet
    <2>2. done + j \in 1..Len(q) /\ q[done + j] = x
      BY <1>2, <2>1
    <2> QED
      BY <1>3, <2>2 DEF ToSet
  <1>7. IsSeq(q)
    BY <1>2, InSeq
  <1> QED
    BY <1>2, <1>4, <1>5, <1>6, <1>7

Appended(q, p, x) == q = Append(p, x)

LEMMA Appending ==
    ASSUME NEW p, IsSeq(p), NEW x, NEW q, Appended(q, p, x)
    PROVE  /\ IsSeq(q) /\ Len(q) = Len(p) + 1 /\ Len(p) \in Nat /\ ToSet(q) = ToSet(p) \cup {x}
           /\ (\A i \in 1..Len(p) : q[i] = p[i]) /\ q[Len(p) + 1] = x
  <1> DEFINE A == ToSet(p)
             X == A \cup {x}
  <1>1. p \in Seq(A)
    BY DEF IsSeq
  <1> HIDE DEF A
  <1>2. p \in Seq(X) /\ x \in X
    BY <1>1
  <1> HIDE DEF X
  <1>3. /\ q \in Seq(X) /\ Len(q) = Len(p) + 1 /\ Len(p) \in Nat
        /\ \A i \in 1..Len(p) : q[i] = p[i]
        /\ q[Len(p) + 1] = x
    BY <1>2 DEF Appended
  <1> DEFINE m == Len(p)
  <1>4. DOMAIN q = 1 .. m + 1 /\ DOMAIN p = 1..m /\ m \in Nat
    BY <1>2, <1>3
  <1>5. ASSUME NEW y \in ToSet(q) PROVE y \in ToSet(p) \cup {x}
    <2>1. PICK i \in 1 .. m + 1 : y = q[i]
      BY <1>4 DEF ToSet
    <2>2. i = m + 1 \/ i \in 1..m
      BY <1>4
    <2> QED
      BY <1>3, <1>4, <2>1, <2>2 DEF ToSet
  <1>6. ASSUME NEW y \in ToSet(p) \cup {x} PROVE y \in ToSet(q)
    <2>1. CASE y = x
      <3>1. m + 1 \in 1 .. m + 1
        BY <1>4
      <3> QED
        BY <1>3, <1>4, <2>1, <3>1 DEF ToSet
    <2>2. CASE y \in ToSet(p)
      <3>1. PICK i \in 1..m : y = p[i]
        BY <1>4, <2>2 DEF ToSet
      <3>2. i \in 1 .. m + 1
        BY <1>4
      <3> QED
        BY <1>3, <1>4, <3>1, <3>2 DEF ToSet
    <2> QED
      BY <2>1, <2>2
  <1>7. IsSeq(q)
    BY <1>3, InSeq
  <1> QED
    BY <1>3, <1>5, <1>6, <1>7

-----------------------------------------------------------------------------
(* Reading a file *)

\* What parse keeps: the boxes are those of the file up to the cursor, and everything read
\* has its type
FileInv ==
    /\ file \in Files /\ cursor \in Nat \ {0}
    /\ IsSeq(boxes) /\ ToSet(boxes) \subseteq ToSet(file)
    /\ Len(boxes) = cursor - 1 /\ \A i \in 1..Len(boxes) : boxes[i] = file[i]
    /\ mdat_payload_offset \in Nat
    /\ TypedTracks(tracks)

\* What the files are assumed to be
LEMMA FileFacts ==
    ASSUME NEW f \in Files
    PROVE  /\ IsSeq(f) /\ \A b \in ToSet(f) : b.bytes \in Nat /\ TypedBox(b)
           /\ \A b \in ToSet(f) : b.type = "moov" => TypedTracks(parse_moov_box(b.kids))
  BY FilesAssumption DEF IsSeq

\* The tracks of a further moov
LEMMA MoreTracks ==
    ASSUME NEW a, NEW b, TypedTracks(a), TypedTracks(b)
    PROVE  TypedTracks(a \o b)
  <1> DEFINE q == a \o b
  <1>1. IsSeq(a) /\ IsSeq(b)
    BY DEF IsSeq, TypedTracks
  <1> HIDE DEF q
  <1>2. IsSeq(q) /\ ToSet(q) = ToSet(a) \cup ToSet(b)
    <2>1. IsConcat(q, a, b, Len(a), Len(b))
      BY <1>1 DEF q, IsConcat
    <2> QED
      BY <2>1, Joining
  <1>3. TypedTracks(q)
    BY <1>2 DEF TypedTracks, IsSeq
  <1> QED
    BY <1>3 DEF q

\* The position of a box in the file is a natural
LEMMA PositionNat ==
    ASSUME FileInv, cursor <= Len(file)
    PROVE  Position(cursor) \in Nat
  <1> DEFINE n == cursor - 1
             w == [i \in 1..n |-> Header(file[i]) + file[i].bytes]
  <1>1. n \in Nat /\ Len(file) \in Nat /\ n <= Len(file)
    BY FileFacts, SeqFacts DEF FileInv
  <1>2. ASSUME NEW i \in 1..n PROVE w[i] \in Nat
    <2>1. i \in 1..Len(file)
      BY <1>1
    <2>2. file[i] \in ToSet(file)
      BY <2>1, FileFacts, SeqFacts DEF FileInv
    <2>3. file[i].bytes \in Nat
      BY <2>2, FileFacts DEF FileInv
    <2>4. Header(file[i]) \in Nat
      BY DEF Header
    <2> HIDE DEF n
    <2> QED
      BY <2>3, <2>4
  <1>3. Len(w) = n
    <2> HIDE DEF n
    <2>1. w = [i \in 1..n |-> w[i]]
      OBVIOUS
    <2> HIDE DEF w
    <2> QED
      BY <1>1, <2>1, MadeSeq
  <1>4. Position(cursor) = Sums(w, n)[n]
    BY <1>3 DEF Position, SumOf
  <1> HIDE DEF w, n
  <1>5. n \in 0..n
    BY <1>1
  <1> QED
    BY <1>1, <1>2, <1>4, <1>5, SumNat

LEMMA FileInvInit == ParserInit => FileInv
  <1> SUFFICES ASSUME ParserInit PROVE FileInv
    OBVIOUS
  <1>1. boxes = <<>> /\ tracks = <<>>
    BY DEF ParserInit
  <1>2. /\ IsSeq(boxes) /\ ToSet(boxes) = {} /\ Len(boxes) = 0
        /\ IsSeq(tracks) /\ ToSet(tracks) = {}
    BY <1>1, NoneSeq
  <1>3. TypedTracks(tracks)
    BY <1>2 DEF TypedTracks, IsSeq
  <1> QED
    BY <1>2, <1>3 DEF ParserInit, FileInv

LEMMA FileInvNext == FileInv /\ [ParserNext]_parserVars => FileInv'
  <1> SUFFICES ASSUME FileInv, [ParserNext]_parserVars PROVE FileInv'
    OBVIOUS
  <1>1. CASE parse_box
    <2> DEFINE b == file[cursor]
    <2>1. IsSeq(file) /\ cursor \in 1..Len(file)
      BY <1>1, FileFacts, SeqFacts DEF FileInv, parse_box
    <2>2. b \in ToSet(file)
      BY <2>1, SeqFacts
    <2>3. b.bytes \in Nat /\ (b.type = "moov" => TypedTracks(parse_moov_box(b.kids)))
      BY <2>2, FileFacts DEF FileInv
    <2>4. /\ boxes' = Append(boxes, b) /\ file' = file /\ cursor' = cursor + 1
          /\ tracks' = IF b.type = "moov" THEN tracks \o parse_moov_box(b.kids) ELSE tracks
          /\ mdat_payload_offset' = IF b.type = "mdat" THEN Position(cursor) + Header(b)
                                    ELSE mdat_payload_offset
      BY <1>1 DEF parse_box
    <2>5. Position(cursor) \in Nat /\ Header(b) \in Nat
      <3>1. cursor <= Len(file)
        BY <1>1 DEF parse_box
      <3> QED
        BY <3>1, PositionNat DEF Header
    <2> HIDE DEF b
    <2>6. IsSeq(boxes') /\ ToSet(boxes') \subseteq ToSet(file)
      <3>1. IsSeq(boxes') /\ ToSet(boxes') = ToSet(boxes) \cup {b}
        <4>1. Appended(boxes', boxes, b) /\ IsSeq(boxes)
          BY <2>4 DEF Appended, FileInv
        <4> QED
          BY <4>1, Appending
      <3> QED
        BY <2>2, <3>1 DEF FileInv
    <2>7. TypedTracks(tracks')
      BY <2>3, <2>4, MoreTracks DEF FileInv
    <2>8. mdat_payload_offset' \in Nat
      BY <2>4, <2>5 DEF FileInv
    <2>9. Len(boxes') = cursor' - 1 /\ \A i \in 1..Len(boxes') : boxes'[i] = file'[i]
      <3>1. /\ Len(boxes) = cursor - 1 /\ cursor \in Nat
            /\ \A i \in 1..Len(boxes) : boxes[i] = file[i]
        BY DEF FileInv
      <3>2. /\ Len(boxes') = Len(boxes) + 1 /\ Len(boxes) \in Nat
            /\ \A i \in 1..Len(boxes) : boxes'[i] = boxes[i]
            /\ boxes'[Len(boxes) + 1] = b
        <4>1. Appended(boxes', boxes, b) /\ IsSeq(boxes)
          BY <2>4 DEF Appended, FileInv
        <4> QED
          BY <4>1, Appending
      <3>3. boxes'[cursor] = file[cursor]
        BY <3>1, <3>2 DEF b
      <3>4. ASSUME NEW i \in 1..Len(boxes') PROVE boxes'[i] = file[i]
        <4>1. i \in 1..Len(boxes) \/ i = cursor
          BY <3>1, <3>2
        <4> QED
          BY <3>1, <3>2, <3>3, <4>1
      <3> QED
        BY <2>4, <3>1, <3>2, <3>4
    <2> QED
      BY <2>4, <2>6, <2>7, <2>8, <2>9 DEF FileInv
  <1>2. ASSUME UNCHANGED <<file, cursor, boxes, tracks, mdat_payload_offset>> PROVE FileInv'
    BY <1>2 DEF FileInv
  <1>3. CASE parse_end
    BY <1>2, <1>3 DEF parse_end
  <1>4. CASE parse_box_to_end
    BY <1>2, <1>4 DEF parse_box_to_end
  <1>5. CASE \E stream \in StreamIds : generate_stream_segments(stream)
    BY <1>2, <1>5 DEF generate_stream_segments
  <1>6. CASE generate_separate_init_segments
    BY <1>2, <1>6 DEF generate_separate_init_segments
  <1>7. CASE UNCHANGED parserVars
    BY <1>2, <1>7 DEF parserVars
  <1> QED
    BY <1>1, <1>3, <1>4, <1>5, <1>6, <1>7 DEF ParserNext

\* For any file: resolving a sample table that does not overflow finds as many samples as
\* sizes and chunks account for, the first of a chunk at the chunk's offset and every other
\* behind its predecessor, each with its own size (resolve_sample_offsets).
THEOREM SamplesAlwaysWhereTheyAre == ParserSpec => []SamplesWhereTheyAre
  <1>1. FileInv => SamplesWhereTheyAre
    <2> SUFFICES ASSUME FileInv, NEW t \in Tables PROVE InPlace(t, resolve_sample_offsets(t))
      BY DEF SamplesWhereTheyAre
    <2>1. PICK i \in DOMAIN tracks : t \in ToSet(tracks[i].sample_table)
      BY DEF Tables
    <2> DEFINE x == tracks[i]
    <2>2. x \in ToSet(tracks)
      BY DEF ToSet
    <2>3. x.sample_table # NoTable =>
             x.sample_table = <<x.sample_table[1]>> /\ x.sample_table[1] \in SampleTables
      BY <2>2 DEF FileInv, TypedTracks
    <2> HIDE DEF x
    <2>4. t \in ToSet(x.sample_table)
      BY <2>1 DEF x
    <2>5. t \in SampleTables
      <3>1. x.sample_table # <<>>
        <4> DEFINE y == x.sample_table
        <4> HIDE DEF y
        <4>1. y # <<>>
          BY <2>4, NoneSeq DEF y
        <4> QED
          BY <4>1 DEF y
      <3>2. x.sample_table = <<x.sample_table[1]>> /\ x.sample_table[1] \in SampleTables
        BY <2>3, <3>1 DEF NoTable
      <3> DEFINE y == x.sample_table[1]
      <3>3. ToSet(<<y>>) = {y}
        <4> HIDE DEF y
        <4> QED
          BY DEF ToSet
      <3> QED
        BY <2>4, <3>2, <3>3
    <2> QED
      BY <2>5, TableInPlace
  <1> QED
    BY <1>1, FileInvInit, FileInvNext, PTL DEF ParserSpec

-----------------------------------------------------------------------------
(* The loops of the parser, round by round *)

\* One round of the GOP loop
CloseGop(f, e, i) ==
    IF i = Len(e) \/ e[i + 1].is_keyframe
    THEN Append(f[i - 1], [first |-> IF f[i - 1] = <<>> THEN 1 ELSE Last(f[i - 1]).last + 1, last |-> i])
    ELSE f[i - 1]
IsGops(f, e, n) == f = [i \in 0..n |-> IF i = 0 THEN <<>> ELSE CloseGop(f, e, i)]

\* The recursion of the loop that groups the samples
LEMMA GopsExists ==
    ASSUME NEW e, NEW n \in Nat
    PROVE  \E f : IsGops(f, e, n)
  <1> DEFINE P == {j \in Nat : \E f : IsGops(f, e, j)}
             base == <<>>
  <1> HIDE DEF base
  <1>1. 0 \in P
    <2> DEFINE f == [i \in 0..0 |-> base]
    <2>1. f = [i \in 0..0 |-> IF i = 0 THEN base ELSE CloseGop(f, e, i)]
      OBVIOUS
    <2> QED
      BY <2>1 DEF IsGops, base
  <1>2. ASSUME NEW j \in P PROVE j + 1 \in P
    <2>1. j \in Nat
      OBVIOUS
    <2>2. PICK f : IsGops(f, e, j)
      OBVIOUS
    <2> DEFINE last == CloseGop(f, e, j + 1)
               g == [i \in 0 .. j + 1 |-> IF i = j + 1 THEN last ELSE f[i]]
    <2>3. \A i \in 0..j : f[i] = IF i = 0 THEN base ELSE CloseGop(f, e, i)
      BY <2>2 DEF IsGops, base
    <2>4. \A i \in 0..j : g[i] = f[i]
      BY <2>1
    <2>5. \A i \in 1 .. j + 1 : CloseGop(g, e, i) = CloseGop(f, e, i)
      <3> TAKE i \in 1 .. j + 1
      <3>1. i - 1 \in 0..j
        BY <2>1
      <3>2. g[i - 1] = f[i - 1]
        BY <3>1, <2>4
      <3> HIDE DEF g
      <3> QED
        BY <3>2, Zenon DEF CloseGop
    <2>6. g[j + 1] = last
      BY <2>1
    <2>7. ASSUME NEW i \in 0 .. j + 1
          PROVE  g[i] = IF i = 0 THEN base ELSE CloseGop(g, e, i)
      <3>1. CASE i = j + 1
        <4>1. i # 0 /\ i \in 1 .. j + 1
          BY <2>1, <3>1
        <4> HIDE DEF g
        <4> QED
          BY <2>5, <2>6, <3>1, <4>1
      <3>2. CASE i # j + 1
        <4>1. i \in 0..j /\ (i = 0 \/ i \in 1 .. j + 1)
          BY <2>1, <3>2
        <4> HIDE DEF g
        <4> QED
          BY <2>3, <2>4, <2>5, <4>1
      <3> QED
        BY <3>1, <3>2
    <2>8. g = [i \in 0 .. j + 1 |-> g[i]]
      OBVIOUS
    <2> HIDE DEF g
    <2>9. IsGops(g, e, j + 1)
      BY <2>7, <2>8 DEF IsGops, base
    <2> QED
      BY <2>1, <2>9
  <1> HIDE DEF P
  <1>3. P \subseteq Nat
    BY DEF P
  <1>4. P = Nat
    BY <1>1, <1>2, <1>3, NatSets
  <1> QED
    BY <1>4 DEF P

LEMMA GopsRecursion ==
    ASSUME NEW e, Len(e) \in Nat
    PROVE  /\ GopsUpto(e)[0] = <<>>
           /\ \A i \in 1..Len(e) : GopsUpto(e)[i] = CloseGop(GopsUpto(e), e, i)
  <1> DEFINE n == Len(e)
             f == GopsUpto(e)
  <1>1. \E g : IsGops(g, e, n)
    BY GopsExists
  <1>2. f = CHOOSE g : IsGops(g, e, n)
    BY Zenon DEF GopsUpto, IsGops, CloseGop
  <1> HIDE DEF f, n
  <1>3. IsGops(f, e, n)
    BY <1>1, <1>2, Zenon
  <1> DEFINE base == <<>>
  <1>4. f = [i \in 0..n |-> IF i = 0 THEN base ELSE CloseGop(f, e, i)]
    BY <1>3 DEF IsGops
  <1>5. n \in Nat
    BY DEF n
  <1> HIDE DEF base
  <1>6. f[0] = base /\ \A i \in 1..n : f[i] = CloseGop(f, e, i)
    BY <1>4, <1>5
  <1> QED
    BY <1>6 DEF f, n, base

\* One round of the loop over the boxes of a fragmented file
AddPair(f, frame, timescale, i) ==
    IF IsPair(i) THEN Append(f[i - 1], PairSegment(i, Len(f[i - 1]), frame, timescale))
    ELSE f[i - 1]
IsPairs(f, frame, timescale, n) ==
    f = [i \in 0..n |-> IF i = 0 THEN <<>> ELSE AddPair(f, frame, timescale, i)]

\* The recursion of the loop over moof and mdat
LEMMA PairsExists ==
    ASSUME NEW frame, NEW timescale, NEW n \in Nat
    PROVE  \E f : IsPairs(f, frame, timescale, n)
  <1> DEFINE P == {j \in Nat : \E f : IsPairs(f, frame, timescale, j)}
             base == <<>>
  <1> HIDE DEF base
  <1>1. 0 \in P
    <2> DEFINE f == [i \in 0..0 |-> base]
    <2>1. f = [i \in 0..0 |-> IF i = 0 THEN base ELSE AddPair(f, frame, timescale, i)]
      OBVIOUS
    <2> QED
      BY <2>1 DEF IsPairs, base
  <1>2. ASSUME NEW j \in P PROVE j + 1 \in P
    <2>1. j \in Nat
      OBVIOUS
    <2>2. PICK f : IsPairs(f, frame, timescale, j)
      OBVIOUS
    <2> DEFINE last == AddPair(f, frame, timescale, j + 1)
               g == [i \in 0 .. j + 1 |-> IF i = j + 1 THEN last ELSE f[i]]
    <2>3. \A i \in 0..j : f[i] = IF i = 0 THEN base ELSE AddPair(f, frame, timescale, i)
      BY <2>2 DEF IsPairs, base
    <2>4. \A i \in 0..j : g[i] = f[i]
      BY <2>1
    <2>5. \A i \in 1 .. j + 1 : AddPair(g, frame, timescale, i) = AddPair(f, frame, timescale, i)
      <3> TAKE i \in 1 .. j + 1
      <3>1. i - 1 \in 0..j
        BY <2>1
      <3>2. g[i - 1] = f[i - 1]
        BY <3>1, <2>4
      <3> HIDE DEF g
      <3> QED
        BY <3>2, Zenon DEF AddPair
    <2>6. g[j + 1] = last
      BY <2>1
    <2>7. ASSUME NEW i \in 0 .. j + 1
          PROVE  g[i] = IF i = 0 THEN base ELSE AddPair(g, frame, timescale, i)
      <3>1. CASE i = j + 1
        <4>1. i # 0 /\ i \in 1 .. j + 1
          BY <2>1, <3>1
        <4> HIDE DEF g
        <4> QED
          BY <2>5, <2>6, <3>1, <4>1
      <3>2. CASE i # j + 1
        <4>1. i \in 0..j /\ (i = 0 \/ i \in 1 .. j + 1)
          BY <2>1, <3>2
        <4> HIDE DEF g
        <4> QED
          BY <2>3, <2>4, <2>5, <4>1
      <3> QED
        BY <3>1, <3>2
    <2>8. g = [i \in 0 .. j + 1 |-> g[i]]
      OBVIOUS
    <2> HIDE DEF g
    <2>9. IsPairs(g, frame, timescale, j + 1)
      BY <2>7, <2>8 DEF IsPairs, base
    <2> QED
      BY <2>1, <2>9
  <1> HIDE DEF P
  <1>3. P \subseteq Nat
    BY DEF P
  <1>4. P = Nat
    BY <1>1, <1>2, <1>3, NatSets
  <1> QED
    BY <1>4 DEF P

LEMMA PairsRecursion ==
    ASSUME NEW frame, NEW timescale, Len(boxes) \in Nat
    PROVE  /\ PairsUpto(frame, timescale)[0] = <<>>
           /\ \A i \in 1..Len(boxes) : PairsUpto(frame, timescale)[i] =
                  AddPair(PairsUpto(frame, timescale), frame, timescale, i)
  <1> DEFINE n == Len(boxes)
             f == PairsUpto(frame, timescale)
  <1>1. \E g : IsPairs(g, frame, timescale, n)
    BY PairsExists
  <1>2. f = CHOOSE g : IsPairs(g, frame, timescale, n)
    BY Zenon DEF PairsUpto, IsPairs, AddPair
  <1> HIDE DEF f, n
  <1>3. IsPairs(f, frame, timescale, n)
    BY <1>1, <1>2, Zenon
  <1> DEFINE base == <<>>
  <1>4. f = [i \in 0..n |-> IF i = 0 THEN base ELSE AddPair(f, frame, timescale, i)]
    BY <1>3 DEF IsPairs
  <1>5. n \in Nat
    BY DEF n
  <1> HIDE DEF base
  <1>6. f[0] = base /\ \A i \in 1..n : f[i] = AddPair(f, frame, timescale, i)
    BY <1>4, <1>5
  <1> QED
    BY <1>6 DEF f, n, base

\* One round of the loop over the groups of samples
AddGroup(f, e, gs, track, available, conv, sync, i) ==
    IF GroupFits(e, gs[i], mdat_payload_offset, available)
    THEN AddFragment(f[i - 1], Frames(e, gs[i], sync), track, gs[i])
    ELSE f[i - 1]
IsFragments(f, e, gs, track, available, conv, sync, n) ==
    f = [i \in 0..n |-> IF i = 0 THEN [segments |-> <<>>, time |-> 0, converter |-> conv]
                        ELSE AddGroup(f, e, gs, track, available, conv, sync, i)]

\* The recursion of the loop that makes a fragment of each group
LEMMA FragmentsExists ==
    ASSUME NEW e, NEW gs, NEW track, NEW available, NEW conv, NEW sync, NEW n \in Nat
    PROVE  \E f : IsFragments(f, e, gs, track, available, conv, sync, n)
  <1> DEFINE P == {j \in Nat : \E f : IsFragments(f, e, gs, track, available, conv, sync, j)}
             base == [segments |-> <<>>, time |-> 0, converter |-> conv]
  <1> HIDE DEF base
  <1>1. 0 \in P
    <2> DEFINE f == [i \in 0..0 |-> base]
    <2>1. f = [i \in 0..0 |-> IF i = 0 THEN base ELSE AddGroup(f, e, gs, track, available, conv, sync, i)]
      OBVIOUS
    <2> QED
      BY <2>1 DEF IsFragments, base
  <1>2. ASSUME NEW j \in P PROVE j + 1 \in P
    <2>1. j \in Nat
      OBVIOUS
    <2>2. PICK f : IsFragments(f, e, gs, track, available, conv, sync, j)
      OBVIOUS
    <2> DEFINE last == AddGroup(f, e, gs, track, available, conv, sync, j + 1)
               g == [i \in 0 .. j + 1 |-> IF i = j + 1 THEN last ELSE f[i]]
    <2>3. \A i \in 0..j : f[i] = IF i = 0 THEN base ELSE AddGroup(f, e, gs, track, available, conv, sync, i)
      BY <2>2 DEF IsFragments, base
    <2>4. \A i \in 0..j : g[i] = f[i]
      BY <2>1
    <2>5. \A i \in 1 .. j + 1 :
             AddGroup(g, e, gs, track, available, conv, sync, i) = AddGroup(f, e, gs, track, available, conv, sync, i)
      <3> TAKE i \in 1 .. j + 1
      <3>1. i - 1 \in 0..j
        BY <2>1
      <3>2. g[i - 1] = f[i - 1]
        BY <3>1, <2>4
      <3> HIDE DEF g
      <3> QED
        BY <3>2, Zenon DEF AddGroup
    <2>6. g[j + 1] = last
      BY <2>1
    <2>7. ASSUME NEW i \in 0 .. j + 1
          PROVE  g[i] = IF i = 0 THEN base ELSE AddGroup(g, e, gs, track, available, conv, sync, i)
      <3>1. CASE i = j + 1
        <4>1. i # 0 /\ i \in 1 .. j + 1
          BY <2>1, <3>1
        <4> HIDE DEF g
        <4> QED
          BY <2>5, <2>6, <3>1, <4>1
      <3>2. CASE i # j + 1
        <4>1. i \in 0..j /\ (i = 0 \/ i \in 1 .. j + 1)
          BY <2>1, <3>2
        <4> HIDE DEF g
        <4> QED
          BY <2>3, <2>4, <2>5, <4>1
      <3> QED
        BY <3>1, <3>2
    <2>8. g = [i \in 0 .. j + 1 |-> g[i]]
      OBVIOUS
    <2> HIDE DEF g
    <2>9. IsFragments(g, e, gs, track, available, conv, sync, j + 1)
      BY <2>7, <2>8 DEF IsFragments, base
    <2> QED
      BY <2>1, <2>9
  <1> HIDE DEF P
  <1>3. P \subseteq Nat
    BY DEF P
  <1>4. P = Nat
    BY <1>1, <1>2, <1>3, NatSets
  <1> QED
    BY <1>4 DEF P

LEMMA FragmentsRecursion ==
    ASSUME NEW e, NEW gs, NEW track, NEW available, NEW conv, NEW sync, Len(gs) \in Nat
    PROVE  /\ FragmentsUpto(e, gs, track, available, conv, sync)[0] = [segments |-> <<>>, time |-> 0, converter |-> conv]
           /\ \A i \in 1..Len(gs) : FragmentsUpto(e, gs, track, available, conv, sync)[i] =
                  AddGroup(FragmentsUpto(e, gs, track, available, conv, sync), e, gs, track, available, conv, sync, i)
  <1> DEFINE n == Len(gs)
             f == FragmentsUpto(e, gs, track, available, conv, sync)
  <1>1. \E g : IsFragments(g, e, gs, track, available, conv, sync, n)
    BY FragmentsExists
  <1>2. f = CHOOSE g : IsFragments(g, e, gs, track, available, conv, sync, n)
    BY Zenon DEF FragmentsUpto, IsFragments, AddGroup
  <1> HIDE DEF f, n
  <1>3. IsFragments(f, e, gs, track, available, conv, sync, n)
    BY <1>1, <1>2, Zenon
  <1> DEFINE base == [segments |-> <<>>, time |-> 0, converter |-> conv]
  <1>4. f = [i \in 0..n |-> IF i = 0 THEN base ELSE AddGroup(f, e, gs, track, available, conv, sync, i)]
    BY <1>3 DEF IsFragments
  <1>5. n \in Nat
    BY DEF n
  <1> HIDE DEF base
  <1>6. f[0] = base /\ \A i \in 1..n : f[i] = AddGroup(f, e, gs, track, available, conv, sync, i)
    BY <1>4, <1>5
  <1> QED
    BY <1>6 DEF f, n, base

\* One round of the loop over the 64 KiB chunks
AddChunk(f, available, id, timescale, i) ==
    AddLegacy(f[i - 1], i, LegacyFrame(i, available, timescale), id, timescale)
IsLegacy(f, available, id, timescale, n) ==
    f = [i \in 0..n |-> IF i = 0 THEN Nothing(fmp4_converter) ELSE AddChunk(f, available, id, timescale, i)]

\* The recursion of the loop over chunks of the payload
LEMMA LegacyExists ==
    ASSUME NEW available, NEW id, NEW timescale, NEW n \in Nat
    PROVE  \E f : IsLegacy(f, available, id, timescale, n)
  <1> DEFINE P == {j \in Nat : \E f : IsLegacy(f, available, id, timescale, j)}
             base == Nothing(fmp4_converter)
  <1> HIDE DEF base
  <1>1. 0 \in P
    <2> DEFINE f == [i \in 0..0 |-> base]
    <2>1. f = [i \in 0..0 |-> IF i = 0 THEN base ELSE AddChunk(f, available, id, timescale, i)]
      OBVIOUS
    <2> QED
      BY <2>1 DEF IsLegacy, base
  <1>2. ASSUME NEW j \in P PROVE j + 1 \in P
    <2>1. j \in Nat
      OBVIOUS
    <2>2. PICK f : IsLegacy(f, available, id, timescale, j)
      OBVIOUS
    <2> DEFINE last == AddChunk(f, available, id, timescale, j + 1)
               g == [i \in 0 .. j + 1 |-> IF i = j + 1 THEN last ELSE f[i]]
    <2>3. \A i \in 0..j : f[i] = IF i = 0 THEN base ELSE AddChunk(f, available, id, timescale, i)
      BY <2>2 DEF IsLegacy, base
    <2>4. \A i \in 0..j : g[i] = f[i]
      BY <2>1
    <2>5. \A i \in 1 .. j + 1 : AddChunk(g, available, id, timescale, i) = AddChunk(f, available, id, timescale, i)
      <3> TAKE i \in 1 .. j + 1
      <3>1. i - 1 \in 0..j
        BY <2>1
      <3>2. g[i - 1] = f[i - 1]
        BY <3>1, <2>4
      <3> HIDE DEF g
      <3> QED
        BY <3>2, Zenon DEF AddChunk
    <2>6. g[j + 1] = last
      BY <2>1
    <2>7. ASSUME NEW i \in 0 .. j + 1
          PROVE  g[i] = IF i = 0 THEN base ELSE AddChunk(g, available, id, timescale, i)
      <3>1. CASE i = j + 1
        <4>1. i # 0 /\ i \in 1 .. j + 1
          BY <2>1, <3>1
        <4> HIDE DEF g
        <4> QED
          BY <2>5, <2>6, <3>1, <4>1
      <3>2. CASE i # j + 1
        <4>1. i \in 0..j /\ (i = 0 \/ i \in 1 .. j + 1)
          BY <2>1, <3>2
        <4> HIDE DEF g
        <4> QED
          BY <2>3, <2>4, <2>5, <4>1
      <3> QED
        BY <3>1, <3>2
    <2>8. g = [i \in 0 .. j + 1 |-> g[i]]
      OBVIOUS
    <2> HIDE DEF g
    <2>9. IsLegacy(g, available, id, timescale, j + 1)
      BY <2>7, <2>8 DEF IsLegacy, base
    <2> QED
      BY <2>1, <2>9
  <1> HIDE DEF P
  <1>3. P \subseteq Nat
    BY DEF P
  <1>4. P = Nat
    BY <1>1, <1>2, <1>3, NatSets
  <1> QED
    BY <1>4 DEF P

LEMMA LegacyRecursion ==
    ASSUME NEW available, NEW id, NEW timescale, NEW n \in Nat
    PROVE  /\ LegacyUpto(n, available, id, timescale)[0] = Nothing(fmp4_converter)
           /\ \A i \in 1..n : LegacyUpto(n, available, id, timescale)[i] =
                  AddChunk(LegacyUpto(n, available, id, timescale), available, id, timescale, i)
  <1> DEFINE f == LegacyUpto(n, available, id, timescale)
  <1>1. \E g : IsLegacy(g, available, id, timescale, n)
    BY LegacyExists
  <1>2. f = CHOOSE g : IsLegacy(g, available, id, timescale, n)
    BY Zenon DEF LegacyUpto, IsLegacy, AddChunk
  <1> HIDE DEF f
  <1>3. IsLegacy(f, available, id, timescale, n)
    BY <1>1, <1>2, Zenon
  <1> DEFINE base == Nothing(fmp4_converter)
  <1>4. f = [i \in 0..n |-> IF i = 0 THEN base ELSE AddChunk(f, available, id, timescale, i)]
    BY <1>3 DEF IsLegacy
  <1>5. n \in Nat
    OBVIOUS
  <1> HIDE DEF base
  <1>6. f[0] = base /\ \A i \in 1..n : f[i] = AddChunk(f, available, id, timescale, i)
    BY <1>4, <1>5
  <1> QED
    BY <1>6 DEF f, base

-----------------------------------------------------------------------------
(* Resolved samples *)

\* Resolved samples with the types the code gives them
TypedEntries(e) ==
    IsSeq(e) /\ \A i \in 1..Len(e) : e[i].offset \in Nat /\ e[i].size \in Nat /\ e[i].duration \in Nat

\* A run-length table expands to values of its runs, or to 0 past their end
LEMMA Expanded ==
    ASSUME NEW V, 0 \in V, NEW runs \in Seq([count : Nat, value : V]), NEW n \in Nat, NEW i \in 1..n
    PROVE  Expand(runs, n)[i] \in V
  <1> DEFINE upto == Sums([r \in 1..Len(runs) |-> runs[r].count], Len(runs))
             R == {r \in 1..Len(runs) : upto[r - 1] < i /\ i <= upto[r]}
             m == Min(R)
  <1> HIDE DEF upto
  <1>1. Expand(runs, n)[i] = IF R = {} THEN 0 ELSE runs[m].value
    BY DEF Expand, upto
  <1>2. CASE R # {}
    <2>1. Len(runs) \in Nat /\ R \subseteq 1..Len(runs)
      OBVIOUS
    <2>2. R \in SUBSET Nat
      BY <2>1
    <2>3. m \in R
      <3> HIDE DEF R
      <3> QED
        BY <1>2, <2>2, LeastOf
    <2>4. m \in 1..Len(runs)
      BY <2>3
    <2> HIDE DEF m, R
    <2>5. runs[m] \in [count : Nat, value : V]
      BY <2>4, ElementOfSeq
    <2> QED
      BY <1>1, <1>2, <2>5
  <1> QED
    BY <1>1, <1>2

\* resolve_sample_offsets returns such samples
LEMMA Resolved ==
    ASSUME NEW t \in SampleTables
    PROVE  TypedEntries(resolve_sample_offsets(t))
  <1> DEFINE p == Placed(t)[Len(t.chunk_offsets)]
             n == Len(p)
             e == resolve_sample_offsets(t)
             durs == Expand(t.time_to_sample, n)
             ctts == Expand(t.composition_offsets, n)
             syncs == ToSet(t.sync_samples)
  <1>1. p \in Seq(PlacedEntries) /\ n \in Nat
    <2>1. p \in Seq(PlacedEntries)
      BY PlacedGood DEF WellPlaced
    <2> HIDE DEF p
    <2> QED
      BY <2>1
  <1>2. CASE t.sample_sizes = <<>>
    <2>1. e = <<>>
      BY <1>2 DEF resolve_sample_offsets
    <2> HIDE DEF e
    <2>2. IsSeq(e) /\ Len(e) = 0
      BY <2>1, NoneSeq
    <2>3. TypedEntries(e)
      BY <2>2 DEF TypedEntries
    <2> QED
      BY <2>3 DEF e
  <1>3. CASE t.sample_sizes # <<>>
    <2>1. \A i \in 1..n : durs[i] \in Nat
      <3>1. t.time_to_sample \in Seq([count : Nat, value : Nat])
        BY DEF SampleTables
      <3> HIDE DEF n
      <3> QED
        BY <1>1, <3>1, Expanded
    <2> HIDE DEF p, durs, ctts, syncs
    <2>2. e = [i \in 1..n |->
                  [offset |-> p[i].offset, size |-> p[i].size,
                   duration |-> durs[i], is_keyframe |-> syncs = {} \/ i \in syncs,
                   composition_offset |-> ctts[i]]]
      BY <1>3 DEF resolve_sample_offsets, p, durs, ctts, syncs
    <2>3. \A i \in 1..n : p[i].offset \in Nat /\ p[i].size \in Nat
      <3>1. \A i \in 1..n : p[i] \in PlacedEntries
        BY <1>1, ElementOfSeq
      <3> QED
        BY <3>1 DEF PlacedEntries
    <2> HIDE DEF e
    <2>4. \A i \in 1..n : e[i].offset \in Nat /\ e[i].size \in Nat /\ e[i].duration \in Nat
      BY <2>1, <2>2, <2>3
    <2>5. e = [i \in 1..n |-> e[i]]
      BY <2>2
    <2> HIDE DEF n
    <2>6. IsSeq(e) /\ Len(e) = n
      BY <1>1, <2>5, MadeSeq
    <2> QED
      BY <2>4, <2>6 DEF TypedEntries, e
  <1> QED
    BY <1>2, <1>3

-----------------------------------------------------------------------------
(* Groups of pictures *)

\* x is a run of samples that starts at a key frame, or the first sample, and holds no
\* other key frame
IsGop(e, x) ==
    /\ x.first \in 1..Len(e) /\ x.last \in x.first..Len(e)
    /\ x.first = 1 \/ e[x.first].is_keyframe
    /\ \A j \in x.first + 1 .. x.last : ~e[j].is_keyframe

\* Where the next group starts
Start(g) == IF g = <<>> THEN 1 ELSE Last(g).last + 1

\* The groups g after i samples, with the samples from s on still to be grouped
GopInv(e, g, s, i) ==
    /\ IsSeq(g) /\ s = Start(g) /\ s \in 1 .. i + 1
    /\ \A k \in 1..Len(g) : IsGop(e, g[k]) /\ g[k].last < s
    /\ \A k \in 1..Len(g), l \in 1..Len(g) : k < l => g[k].last < g[l].first
    /\ \A j \in 1 .. s - 1 : \E k \in 1..Len(g) : j \in g[k].first .. g[k].last
    /\ s = 1 \/ s = Len(e) + 1 \/ e[s].is_keyframe
    /\ \A j \in s + 1 .. i + 1 : j \in 1..Len(e) => ~e[j].is_keyframe
    /\ i = Len(e) => s = Len(e) + 1

\* A sample more: its group goes on, or is closed
LEMMA GopStep ==
    ASSUME NEW e, Len(e) \in Nat, NEW g, NEW s, NEW i \in 0 .. Len(e) - 1, GopInv(e, g, s, i),
           NEW h, h = IF i + 1 = Len(e) \/ e[(i + 1) + 1].is_keyframe
                      THEN Append(g, [first |-> s, last |-> i + 1]) ELSE g
    PROVE  \E z : GopInv(e, h, z, i + 1)
  <1> DEFINE N == Len(e)
             c == i + 1
             x == [first |-> s, last |-> c]
  <1>1. N \in Nat /\ i \in Nat /\ c \in 1..N /\ c = i + 1 /\ s \in 1..c
    BY DEF GopInv
  <1>2. /\ IsSeq(g) /\ s = Start(g) /\ Len(g) \in Nat
        /\ \A k \in 1..Len(g) : IsGop(e, g[k]) /\ g[k].last < s
        /\ \A k \in 1..Len(g), l \in 1..Len(g) : k < l => g[k].last < g[l].first
        /\ \A j \in 1 .. s - 1 : \E k \in 1..Len(g) : j \in g[k].first .. g[k].last
        /\ s = 1 \/ s = N + 1 \/ e[s].is_keyframe
        /\ \A j \in s + 1 .. c : j \in 1..N => ~e[j].is_keyframe
    BY SeqFacts DEF GopInv
  <1>3. h = IF c = N \/ e[c + 1].is_keyframe THEN Append(g, x) ELSE g
    OBVIOUS
  <1>4. x.first = s /\ x.last = c
    OBVIOUS
  <1> HIDE DEF N, c, x
  <1>5. CASE c = N \/ e[c + 1].is_keyframe
    <2> DEFINE m == Len(g)
    <2>1. h = Append(g, x)
      BY <1>3, <1>5
    <2>2. IsSeq(h) /\ Len(h) = m + 1 /\ m \in Nat /\ (\A k \in 1..m : h[k] = g[k]) /\ h[m + 1] = x
      <3>1. IsSeq(g) /\ Appended(h, g, x)
        BY <1>2, <2>1 DEF Appended
      <3> QED
        BY ONLY <3>1, Appending
    <2>3. Start(h) = c + 1
      <3>1. h # <<>>
        BY <2>2
      <3>2. Last(h) = x
        BY <2>2 DEF Last
      <3> QED
        BY <1>4, <3>1, <3>2 DEF Start
    <2>4. IsGop(e, x)
      <3>1. s \in 1..N /\ c \in s..N
        BY <1>1
      <3>2. s = 1 \/ e[s].is_keyframe
        BY <1>1, <1>2, <3>1
      <3>3. \A j \in s + 1 .. c : ~e[j].is_keyframe
        <4>1. \A j \in s + 1 .. c : j \in 1..N
          BY <1>1
        <4> QED
          BY <1>2, <4>1
      <3> QED
        BY <1>4, <3>1, <3>2, <3>3 DEF IsGop, N
    <2>5. ASSUME NEW k \in 1..Len(h) PROVE IsGop(e, h[k]) /\ h[k].last < c + 1
      <3>1. CASE k = m + 1
        BY <1>1, <1>4, <2>2, <2>4, <3>1
      <3>2. CASE k \in 1..m
        <4>1. h[k] = g[k] /\ IsGop(e, g[k]) /\ g[k].last < s
          BY <1>2, <2>2, <3>2
        <4>2. g[k].last \in Int
          BY <4>1 DEF IsGop
        <4> QED
          BY <1>1, <4>1, <4>2
      <3> QED
        BY <2>2, <3>1, <3>2
    <2>6. ASSUME NEW k \in 1..Len(h), NEW l \in 1..Len(h), k < l PROVE h[k].last < h[l].first
      <3>1. k \in 1..m /\ h[k] = g[k]
        BY <2>2, <2>6
      <3>2. CASE l = m + 1
        BY <1>2, <1>4, <2>2, <3>1, <3>2
      <3>3. CASE l \in 1..m
        BY <1>2, <2>2, <2>6, <3>1, <3>3
      <3> QED
        BY <2>2, <3>2, <3>3
    <2>7. ASSUME NEW j \in 1 .. (c + 1) - 1 PROVE \E k \in 1..Len(h) : j \in h[k].first .. h[k].last
      <3>1. CASE j < s
        <4>1. j \in 1 .. s - 1
          BY <1>1, <3>1
        <4>2. PICK k \in 1..m : j \in g[k].first .. g[k].last
          BY <1>2, <4>1
        <4>3. k \in 1..Len(h) /\ h[k] = g[k]
          BY <2>2
        <4> QED
          BY <4>2, <4>3
      <3>2. CASE j >= s
        <4>1. m + 1 \in 1..Len(h) /\ j \in s..c
          BY <1>1, <2>2, <3>2
        <4> QED
          BY <1>4, <2>2, <4>1
      <3> QED
        BY <1>1, <3>1, <3>2
    <2>8. \A j \in (c + 1) + 1 .. c + 1 : j \in 1..N => ~e[j].is_keyframe
      BY <1>1
    <2>9. c + 1 \in 1 .. c + 1
      BY <1>1
    <2>10. GopInv(e, h, c + 1, c)
      BY <1>5, <2>2, <2>3, <2>5, <2>6, <2>7, <2>8, <2>9 DEF GopInv, N
    <2> QED
      BY <2>10 DEF c
  <1>6. CASE ~(c = N \/ e[c + 1].is_keyframe)
    <2>1. h = g /\ c # N
      BY <1>3, <1>6
    <2>2. s \in 1 .. c + 1
      BY <1>1
    <2>3. ASSUME NEW j \in s + 1 .. c + 1, j \in 1..N PROVE ~e[j].is_keyframe
      <3>1. j \in s + 1 .. c \/ j = c + 1
        BY <1>1
      <3> QED
        BY <1>2, <1>6, <2>3, <3>1
    <2>4. GopInv(e, h, s, c)
      BY <1>2, <2>1, <2>2, <2>3 DEF GopInv, N
    <2> QED
      BY <2>4 DEF c
  <1> QED
    BY <1>5, <1>6

\* After all samples: every one is in a group
LEMMA GopsGood ==
    ASSUME NEW e, Len(e) \in Nat
    PROVE  GopInv(e, Gops(e), Len(e) + 1, Len(e))
  <1> DEFINE N == Len(e)
             f == GopsUpto(e)
             P == {i \in 0..N : \E s : GopInv(e, f[i], s, i)}
  <1>1. f[0] = <<>> /\ \A i \in 1..N : f[i] = CloseGop(f, e, i)
    BY GopsRecursion
  <1> HIDE DEF f
  <1>2. 0 \in P
    <2>1. IsSeq(f[0]) /\ Len(f[0]) = 0 /\ Start(f[0]) = 1
      BY <1>1, NoneSeq DEF Start
    <2>2. GopInv(e, f[0], 1, 0)
      BY <2>1 DEF GopInv
    <2> QED
      BY <2>2
  <1>3. ASSUME NEW i \in 0 .. N - 1, i \in P PROVE i + 1 \in P
    <2>1. PICK s : GopInv(e, f[i], s, i)
      BY <1>3
    <2>2. i + 1 \in 1..N /\ (i + 1) - 1 = i /\ i + 1 \in 0..N
      OBVIOUS
    <2>3. s = Start(f[i])
      BY <2>1 DEF GopInv
    <2>4. f[i + 1] = IF i + 1 = Len(e) \/ e[(i + 1) + 1].is_keyframe
                     THEN Append(f[i], [first |-> s, last |-> i + 1]) ELSE f[i]
      <3>1. f[i + 1] = CloseGop(f, e, i + 1)
        BY <1>1, <2>2
      <3> DEFINE g == f[i]
      <3>2. f[(i + 1) - 1] = g
        BY <2>2
      <3>3. s = IF g = <<>> THEN 1 ELSE Last(g).last + 1
        BY <2>3 DEF Start
      <3> HIDE DEF g
      <3>4. CloseGop(f, e, i + 1) = IF i + 1 = Len(e) \/ e[(i + 1) + 1].is_keyframe
                                    THEN Append(g, [first |-> s, last |-> i + 1]) ELSE g
        BY <3>2, <3>3, Zenon DEF CloseGop
      <3> QED
        BY <3>1, <3>4 DEF g
    <2> DEFINE g == f[i]
               h == f[i + 1]
    <2>5. GopInv(e, g, s, i) /\ h = IF i + 1 = Len(e) \/ e[(i + 1) + 1].is_keyframe
                                    THEN Append(g, [first |-> s, last |-> i + 1]) ELSE g
      BY <2>1, <2>4
    <2> HIDE DEF g, h
    <2>6. \E z : GopInv(e, h, z, i + 1)
      BY <2>5, GopStep
    <2> QED
      BY <2>2, <2>6 DEF h
  <1>4. \A i \in 0..N : i \in P
    <2> HIDE DEF P, N
    <2>1. N \in Nat
      BY DEF N
    <2> QED
      BY <1>2, <1>3, <2>1, UpTo
  <1>5. PICK s : GopInv(e, f[N], s, N)
    BY <1>4
  <1>6. s = N + 1
    BY <1>5 DEF GopInv
  <1> QED
    BY <1>5, <1>6 DEF Gops, f

-----------------------------------------------------------------------------
(* Fragments *)

\* Frames with the types the code gives them
TypedFrames(frames) ==
    IsSeq(frames) /\ \A i \in 1..Len(frames) : frames[i].size \in Nat /\ frames[i].duration \in Nat

LEMMA FramesTyped ==
    ASSUME NEW e, TypedEntries(e), NEW g, g.first \in 1..Len(e), g.last \in g.first..Len(e), NEW sync
    PROVE  TypedFrames(Frames(e, g, sync))
  <1> DEFINE N == Len(e)
             a == g.first
             b == g.last
             n == b - a + 1
             F == Frames(e, g, sync)
  <1>1. N \in Nat /\ a \in 1..N /\ b \in a..N
    BY SeqFacts DEF TypedEntries
  <1>2. F = [i \in 1..n |-> FrameData(e[a + i - 1], e[a + i - 1].is_keyframe \/ sync,
                                      IF sync THEN 0 ELSE e[a + i - 1].composition_offset)]
    BY DEF Frames
  <1>3. \A i \in 1..N : e[i].size \in Nat /\ e[i].duration \in Nat
    BY DEF TypedEntries
  <1> HIDE DEF F, N, a, b
  <1>4. n \in Nat
    BY <1>1
  <1>5. \A i \in 1..n : a + i - 1 \in 1..N
    BY <1>1
  <1> HIDE DEF n
  <1>6. ASSUME NEW i \in 1..n PROVE F[i].size \in Nat /\ F[i].duration \in Nat
    <2>1. F[i].size = e[a + i - 1].size /\ F[i].duration = e[a + i - 1].duration
      BY <1>2 DEF FrameData
    <2> QED
      BY <1>3, <1>5, <2>1
  <1>7. IsSeq(F) /\ Len(F) = n
    <2>1. F = [i \in 1..n |-> F[i]]
      BY <1>2
    <2> QED
      BY <1>4, <2>1, MadeSeq
  <1> QED
    BY <1>6, <1>7 DEF TypedFrames, F

\* A total is a natural, and so is a duration
LEMMA SumOfFacts ==
    ASSUME NEW n \in Nat, NEW w, w = [i \in 1..n |-> w[i]], \A i \in 1..n : w[i] \in Nat
    PROVE  SumOf(w) \in Nat /\ SumOf(w) = Sums(w, n)[n]
  <1>1. Len(w) = n
    BY MadeSeq
  <1>2. SumOf(w) = Sums(w, n)[n]
    BY <1>1 DEF SumOf
  <1>3. n \in 0..n
    OBVIOUS
  <1> QED
    BY <1>2, <1>3, SumNat

LEMMA DurationNat ==
    ASSUME NEW frames, TypedFrames(frames)
    PROVE  TotalDuration(frames) \in Nat
  <1> DEFINE n == Len(frames)
             w == [i \in 1..n |-> frames[i].duration]
  <1>1. n \in Nat /\ \A i \in 1..n : frames[i].duration \in Nat
    BY SeqFacts DEF TypedFrames
  <1> HIDE DEF n
  <1>2. w = [i \in 1..n |-> w[i]] /\ \A i \in 1..n : w[i] \in Nat
    BY <1>1
  <1>3. TotalDuration(frames) = SumOf(w)
    BY DEF TotalDuration, n
  <1> HIDE DEF w
  <1> QED
    BY <1>1, <1>2, <1>3, SumOfFacts

SizesOf(samples) == [j \in 1..Len(samples) |-> samples[j].size]

\* A fragment of a track with `before` played before it
GoodFragment(s, id, timescale, seq, before) ==
    LET f == s.data
    IN  /\ s.segment_type = "media" /\ s.track_id = id
        /\ s.duration \in Nat /\ s.timestamp \in Nat
        /\ f.moof.mfhd.sequence = seq
        /\ f.moof.traf.tfdt.time = before
        /\ s.timestamp = (before * 1000) \div timescale
        /\ f.moof.traf.trun.data_offset = f.moof.size + 8
        /\ f.mdat.size = 8 + SumOf(SizesOf(f.moof.traf.trun.samples))

LEMMA DivNat ==
    ASSUME NEW a \in Nat, NEW b \in Nat \ {0}
    PROVE  a \div b \in Nat
  OBVIOUS

LEMMA SmallRemainder ==
    ASSUME NEW a \in Nat, NEW b \in Nat, a <= b
    PROVE  a % (b + 1) = a
  OBVIOUS

\* The tfdt box carries the whole decode time, in the width it needs
LEMMA TfdtTime ==
    ASSUME NEW conv, conv.base_media_decode_time \in Nat
    PROVE  /\ create_tfdt_auto(conv).time = conv.base_media_decode_time
           /\ create_tfdt_auto(conv).size = IF conv.base_media_decode_time > U32Max THEN 20 ELSE 16
  <1> DEFINE b == conv.base_media_decode_time
  <1>1. b \in Nat /\ U32Max \in Nat
    BY U32Assumption
  <1>2. CASE b > U32Max
    BY <1>2 DEF create_tfdt_auto
  <1>3. CASE ~(b > U32Max)
    <2>1. b % (U32Max + 1) = b
      <3> HIDE DEF b
      <3> QED
        BY <1>1, <1>3, SmallRemainder
    <2> QED
      BY <1>3, <2>1 DEF create_tfdt_auto, create_tfdt
  <1> QED
    BY <1>2, <1>3

\* The segment of a fragment the converter makes in state conv
IsFragment(s, conv, frames, id, timescale, samples) ==
    s = MediaSegment(create_fragment_v2(conv, frames, id),
                     (conv.base_media_decode_time * 1000) \div timescale,
                     TotalDuration(frames), TRUE, id, samples)

\* It has the converter's number and decode time, and its data offset is right
LEMMA FragmentMade ==
    ASSUME NEW frames, TypedFrames(frames), NEW conv, NEW id, NEW timescale \in Nat \ {0}, NEW samples,
           conv.base_media_decode_time \in Nat, NEW s, IsFragment(s, conv, frames, id, timescale, samples)
    PROVE  GoodFragment(s, id, timescale, conv.sequence_number, conv.base_media_decode_time)
  <1> DEFINE b == conv.base_media_decode_time
             n == Len(frames)
             f == create_fragment_v2(conv, frames, id)
             tfdt == create_tfdt_auto(conv)
             sampled == [i \in 1..n |->
                [duration |-> frames[i].duration, size |-> frames[i].size,
                 flags |-> SampleFlags(frames[i].is_keyframe), cts |-> frames[i].composition_offset]]
  <1>1. n \in Nat /\ b \in Nat
    BY SeqFacts DEF TypedFrames
  <1>2. tfdt.time = b /\ tfdt.size = IF b > U32Max THEN 20 ELSE 16
    BY TfdtTime
  <1>3. TotalDuration(frames) \in Nat
    BY DurationNat
  <1>4. (b * 1000) \div timescale \in Nat
    <2> HIDE DEF b
    <2>1. b * 1000 \in Nat
      BY <1>1
    <2> QED
      BY <2>1, DivNat
  <1>5. /\ f.moof.mfhd.sequence = conv.sequence_number
        /\ f.moof.traf.tfdt = tfdt
        /\ f.moof.traf.trun.samples = sampled
        /\ f.mdat.size = 8 + TotalSize(frames)
    BY DEF create_fragment_v2, create_moof, create_mfhd, create_traf, create_trun_v2, create_mdat
  <1>6. f.moof.traf.trun.data_offset = f.moof.size + 8
    <2> DEFINE z == IF b > U32Max THEN 20 ELSE 16
    <2>1. f.moof.size = 8 + 16 + (8 + 16 + tfdt.size + (8 + 12 + n * 16))
      BY DEF create_fragment_v2, create_moof, create_mfhd, create_traf, create_trun_v2, create_tfhd
    <2>2. f.moof.traf.trun.data_offset = (8 + 16 + 8 + 16 + z + 8 + 12 + n * 16) + 8
      BY DEF create_fragment_v2, create_moof, create_traf, create_trun_v2, calculate_moof_size_v2
    <2>3. tfdt.size = z /\ z \in Nat
      BY <1>2
    <2> HIDE DEF f, tfdt, n, z
    <2> QED
      BY <1>1, <2>1, <2>2, <2>3
  <1>7. TotalSize(frames) = SumOf(SizesOf(sampled))
    <2>1. Len(sampled) = n
      <3> DEFINE t == sampled
      <3>1. t = [i \in 1..n |-> t[i]]
        OBVIOUS
      <3> HIDE DEF t, n
      <3> QED
        BY <1>1, <3>1, MadeSeq DEF t
    <2>2. \A i \in 1..n : sampled[i].size = frames[i].size
      OBVIOUS
    <2> HIDE DEF sampled
    <2>3. SizesOf(sampled) = [i \in 1..n |-> frames[i].size]
      BY <2>1, <2>2 DEF SizesOf
    <2> QED
      BY <2>3 DEF TotalSize
  <1>8. s.segment_type = "media" /\ s.track_id = id /\ s.duration = TotalDuration(frames)
        /\ s.timestamp = (b * 1000) \div timescale /\ s.data = f
    <2>1. s = MediaSegment(f, (b * 1000) \div timescale, TotalDuration(frames), TRUE, id, samples)
      BY DEF IsFragment
    <2> HIDE DEF f, b
    <2> QED
      BY <2>1 DEF MediaSegment
  <1> HIDE DEF f, tfdt, sampled
  <1>9. GoodFragment(s, id, timescale, conv.sequence_number, b)
    BY <1>2, <1>3, <1>4, <1>5, <1>6, <1>7, <1>8 DEF GoodFragment
  <1> QED
    BY <1>9 DEF b

-----------------------------------------------------------------------------
(* The fragments of a track, one after the other *)

\* How long the segments up to each one play
DurationsOf(segs) == [p \in 1..Len(segs) |-> segs[p].duration]
PlayedBefore(segs) == Sums(DurationsOf(segs), Len(segs))

\* Segments that are numbered from 1 and have no gap between them
Timeline(segs, id, timescale) ==
    /\ IsSeq(segs)
    /\ \A p \in 1..Len(segs) : GoodFragment(segs[p], id, timescale, p, PlayedBefore(segs)[p - 1])

LEMMA EmptyTimeline ==
    ASSUME NEW segs, segs = <<>>, NEW id, NEW timescale
    PROVE  Timeline(segs, id, timescale) /\ PlayedBefore(segs)[0] = 0
  <1>1. IsSeq(segs) /\ Len(segs) = 0
    BY NoneSeq
  <1>2. PlayedBefore(segs)[0] = 0
    BY <1>1, SumRecursion DEF PlayedBefore
  <1> QED
    BY <1>1, <1>2 DEF Timeline

\* A fragment that starts when the others end carries the timeline on
LEMMA LongerTimeline ==
    ASSUME NEW segs, NEW id, NEW timescale, Timeline(segs, id, timescale), NEW s, NEW longer,
           Appended(longer, segs, s), NEW time \in Nat, time = PlayedBefore(segs)[Len(segs)],
           GoodFragment(s, id, timescale, Len(segs) + 1, time)
    PROVE  /\ Timeline(longer, id, timescale) /\ Len(longer) = Len(segs) + 1 /\ Len(segs) \in Nat
           /\ PlayedBefore(longer)[Len(longer)] = time + s.duration
           /\ s.duration \in Nat
  <1> DEFINE n == Len(segs)
             m == Len(longer)
             w == DurationsOf(segs)
             v == DurationsOf(longer)
  <1>1. /\ IsSeq(longer) /\ m = n + 1 /\ n \in Nat
        /\ (\A p \in 1..n : longer[p] = segs[p]) /\ longer[n + 1] = s
    <2>1. IsSeq(segs)
      BY DEF Timeline
    <2> QED
      BY <2>1, Appending
  <1>2. m \in Nat /\ n <= m
    BY <1>1
  <1>3. \A p \in 1..n : v[p] = w[p]
    BY <1>1 DEF DurationsOf
  <1>4. v[n + 1] = s.duration
    <2>1. n + 1 \in 1..Len(longer)
      BY <1>1
    <2> QED
      BY <1>1, <2>1 DEF DurationsOf
  <1> HIDE DEF w, v, m, n
  <1>5. ASSUME NEW k \in 0..n PROVE Sums(v, m)[k] = Sums(w, n)[k]
    <2>1. Agree(v, m, w, n, k)
      BY <1>1, <1>2, <1>3 DEF Agree
    <2> QED
      BY <2>1, SumSame
  <1>6. Sums(v, m)[m] = time + s.duration
    <2>1. m \in 1..m /\ m - 1 = n /\ n \in 0..n
      BY <1>1
    <2>2. Sums(v, m)[m] = Sums(v, m)[m - 1] + v[m]
      BY <1>2, <2>1, SumRecursion
    <2>3. Sums(v, m)[n] = time
      BY <1>5, <2>1 DEF PlayedBefore, w, n
    <2> QED
      BY <1>1, <1>4, <2>1, <2>2, <2>3
  <1>7. ASSUME NEW p \in 1..m PROVE GoodFragment(longer[p], id, timescale, p, PlayedBefore(longer)[p - 1])
    <2>1. PlayedBefore(longer)[p - 1] = PlayedBefore(segs)[p - 1]
      <3>1. p - 1 \in 0..n
        BY <1>1
      <3> QED
        BY <1>5, <3>1 DEF PlayedBefore, v, w, m, n
    <2>2. CASE p \in 1..n
      <3>1. longer[p] = segs[p]
        BY <1>1, <2>2
      <3>2. GoodFragment(segs[p], id, timescale, p, PlayedBefore(segs)[p - 1])
        BY <2>2 DEF Timeline, n
      <3> QED
        BY <2>1, <3>1, <3>2
    <2>3. CASE p = n + 1
      <3>1. p - 1 = n
        BY <1>1, <2>3
      <3>2. PlayedBefore(segs)[p - 1] = time
        BY <3>1 DEF n
      <3> QED
        BY <1>1, <2>1, <2>3, <3>2 DEF n
    <2> QED
      BY <1>1, <2>2, <2>3
  <1>8. s.duration \in Nat
    BY DEF GoodFragment
  <1> QED
    BY <1>1, <1>6, <1>7, <1>8 DEF Timeline, PlayedBefore, v, m, n

-----------------------------------------------------------------------------
(* The loop over the groups of samples *)

\* Group m lies within the payload
Fits(e, gs, off, available, m) == GroupFits(e, gs[m], off, available)

\* Segment p has the samples of group at[p]; a group without a segment does not fit
Sampled(segs, e, gs, off, available, at, k) ==
    /\ at \in [1..Len(segs) -> 1..k]
    /\ \A p \in 1..Len(segs) : /\ segs[p].samples = gs[at[p]].first .. gs[at[p]].last
                               /\ Fits(e, gs, off, available, at[p])
    /\ \A p \in 1..Len(segs), q \in 1..Len(segs) : p < q => at[p] < at[q]
    /\ \A m \in 1..k : Fits(e, gs, off, available, m) => \E p \in 1..Len(segs) : at[p] = m

\* One more segment, for the next group
LEMMA SampledMore ==
    ASSUME NEW segs, IsSeq(segs), NEW e, NEW gs, NEW off, NEW available, NEW k \in Nat, NEW at,
           Sampled(segs, e, gs, off, available, at, k), NEW s, NEW longer, Appended(longer, segs, s),
           s.samples = gs[k + 1].first .. gs[k + 1].last, Fits(e, gs, off, available, k + 1)
    PROVE  \E b : Sampled(longer, e, gs, off, available, b, k + 1)
  <1> DEFINE n == Len(segs)
             b == [p \in 1 .. n + 1 |-> IF p = n + 1 THEN k + 1 ELSE at[p]]
  <1>1. /\ Len(longer) = n + 1 /\ n \in Nat
        /\ (\A p \in 1..n : longer[p] = segs[p]) /\ longer[n + 1] = s
    BY Appending
  <1>2. /\ at \in [1..n -> 1..k]
        /\ \A p \in 1..n : /\ segs[p].samples = gs[at[p]].first .. gs[at[p]].last
                           /\ Fits(e, gs, off, available, at[p])
        /\ \A p \in 1..n, q \in 1..n : p < q => at[p] < at[q]
        /\ \A m \in 1..k : Fits(e, gs, off, available, m) => \E p \in 1..n : at[p] = m
    BY DEF Sampled
  <1> HIDE DEF n
  <1>3. /\ \A p \in 1..n : b[p] = at[p] /\ at[p] \in 1..k
        /\ b[n + 1] = k + 1
    BY <1>1, <1>2
  <1>4. b \in [1 .. n + 1 -> 1 .. k + 1]
    <2>1. \A p \in 1 .. n + 1 : b[p] \in 1 .. k + 1
      <3> TAKE p \in 1 .. n + 1
      <3>1. CASE p = n + 1
        BY <1>3, <3>1
      <3>2. CASE p \in 1..n
        <4>1. b[p] \in 1..k
          BY <1>3, <3>2
        <4> QED
          BY <4>1
      <3> QED
        BY <1>1, <3>1, <3>2
    <2> QED
      BY <2>1
  <1> HIDE DEF b
  <1>5. ASSUME NEW p \in 1 .. n + 1
        PROVE  /\ longer[p].samples = gs[b[p]].first .. gs[b[p]].last
               /\ Fits(e, gs, off, available, b[p])
    <2>1. CASE p = n + 1
      BY <1>1, <1>3, <2>1
    <2>2. CASE p \in 1..n
      BY <1>1, <1>2, <1>3, <2>2
    <2> QED
      BY <1>1, <2>1, <2>2
  <1>6. ASSUME NEW p \in 1 .. n + 1, NEW q \in 1 .. n + 1, p < q PROVE b[p] < b[q]
    <2>1. p \in 1..n
      BY <1>1, <1>6
    <2>2. CASE q = n + 1
      BY <1>3, <2>1, <2>2
    <2>3. CASE q \in 1..n
      BY <1>2, <1>3, <1>6, <2>1, <2>3
    <2> QED
      BY <1>1, <2>2, <2>3
  <1>7. ASSUME NEW m \in 1 .. k + 1, Fits(e, gs, off, available, m) PROVE \E p \in 1 .. n + 1 : b[p] = m
    <2>1. CASE m = k + 1
      <3>1. n + 1 \in 1 .. n + 1
        BY <1>1
      <3> QED
        BY <1>3, <2>1, <3>1
    <2>2. CASE m \in 1..k
      <3>1. PICK p \in 1..n : at[p] = m
        BY <1>2, <1>7, <2>2
      <3>2. p \in 1 .. n + 1 /\ b[p] = m
        BY <1>1, <1>3, <3>1
      <3> QED
        BY <3>2
    <2> QED
      BY <2>1, <2>2
  <1>8. Sampled(longer, e, gs, off, available, b, k + 1)
    BY <1>1, <1>4, <1>5, <1>6, <1>7 DEF Sampled
  <1> QED
    BY <1>8

\* No segment for a group that does not fit
LEMMA SampledSkip ==
    ASSUME NEW segs, NEW e, NEW gs, NEW off, NEW available, NEW k \in Nat, NEW at,
           Sampled(segs, e, gs, off, available, at, k), ~Fits(e, gs, off, available, k + 1)
    PROVE  Sampled(segs, e, gs, off, available, at, k + 1)
  <1>1. at \in [1..Len(segs) -> 1 .. k + 1]
    <2>1. at \in [1..Len(segs) -> 1..k] /\ 1..k \subseteq 1 .. k + 1
      BY DEF Sampled
    <2> QED
      BY <2>1
  <1>2. ASSUME NEW m \in 1 .. k + 1, Fits(e, gs, off, available, m) PROVE \E p \in 1..Len(segs) : at[p] = m
    <2>1. m \in 1..k
      BY <1>2
    <2> QED
      BY <1>2, <2>1 DEF Sampled
  <1> QED
    BY <1>1, <1>2 DEF Sampled

\* Groups of n samples
GroupsIn(gs, n) ==
    IsSeq(gs) /\ \A k \in 1..Len(gs) : gs[k].first \in 1..n /\ gs[k].last \in gs[k].first .. n

\* The invariant of the loop over the groups: a timeline, the converter at its end, a
\* segment for each group so far that fits
FragInv(acc, e, gs, track, available, k) ==
    /\ Timeline(acc.segments, track.track_id, track.timescale)
    /\ acc.time \in Nat /\ acc.time = PlayedBefore(acc.segments)[Len(acc.segments)]
    /\ acc.converter.sequence_number = Len(acc.segments) + 1
    /\ acc.converter.base_media_decode_time = acc.time
    /\ \E at : Sampled(acc.segments, e, gs, mdat_payload_offset, available, at, k)

\* One round keeps it
LEMMA FragmentStep ==
    ASSUME NEW e, TypedEntries(e), NEW gs, GroupsIn(gs, Len(e)), NEW track, NEW available, NEW sync,
           NEW k \in 0 .. Len(gs) - 1, NEW acc, FragInv(acc, e, gs, track, available, k),
           Fits(e, gs, mdat_payload_offset, available, k + 1), track.timescale \in Nat \ {0}
    PROVE  FragInv(AddFragment(acc, Frames(e, gs[k + 1], sync), track, gs[k + 1]),
                   e, gs, track, available, k + 1)
  <1> DEFINE g == gs[k + 1]
             F == Frames(e, g, sync)
             id == track.track_id
             ts == track.timescale
             conv == acc.converter
             segs == acc.segments
             time == acc.time
             s == MediaSegment(create_fragment_v2(conv, F, id), (time * 1000) \div ts, TotalDuration(F),
                               TRUE, id, g.first .. g.last)
             longer == Append(segs, s)
             next == AddFragment(acc, F, track, g)
  <1>1. k \in Nat /\ k + 1 \in 1..Len(gs) /\ Len(gs) \in Nat
    BY SeqFacts DEF GroupsIn
  <1>2. TypedFrames(F)
    <2>1. g.first \in 1..Len(e) /\ g.last \in g.first .. Len(e)
      BY <1>1 DEF GroupsIn
    <2> HIDE DEF g
    <2> QED
      BY <2>1, FramesTyped
  <1>3. /\ Timeline(segs, id, ts) /\ time \in Nat /\ time = PlayedBefore(segs)[Len(segs)]
        /\ conv.sequence_number = Len(segs) + 1 /\ conv.base_media_decode_time = time
        /\ \E at : Sampled(segs, e, gs, mdat_payload_offset, available, at, k)
    BY DEF FragInv
  <1>4. next.segments = longer /\ next.time = time + TotalDuration(F) /\ next.converter = After(conv, F)
    <2> HIDE DEF s, F
    <2> QED
      BY DEF AddFragment, s, F
  <1>5. ts \in Nat \ {0}
    OBVIOUS
  <1>6. s.samples = g.first .. g.last /\ s.duration = TotalDuration(F)
    BY DEF MediaSegment
  <1> HIDE DEF F, g
  <1>7. GoodFragment(s, id, ts, Len(segs) + 1, time)
    <2> HIDE DEF conv, id, ts
    <2>1. conv.base_media_decode_time \in Nat
      BY <1>3
    <2> DEFINE smp == g.first .. g.last
    <2>2. IsFragment(s, conv, F, id, ts, smp)
      BY <1>3 DEF IsFragment
    <2> HIDE DEF smp, s
    <2>3. GoodFragment(s, id, ts, conv.sequence_number, conv.base_media_decode_time)
      BY <1>2, <1>5, <2>1, <2>2, FragmentMade
    <2> QED
      BY <1>3, <2>3
  <1>8. Appended(longer, segs, s)
    BY DEF Appended
  <1> HIDE DEF s, longer, segs, time, id, ts, conv, next
  <1>9. /\ Timeline(longer, id, ts) /\ Len(longer) = Len(segs) + 1 /\ Len(segs) \in Nat
        /\ PlayedBefore(longer)[Len(longer)] = time + s.duration
        /\ s.duration \in Nat
    BY <1>3, <1>7, <1>8, LongerTimeline
  <1>10. \E at : Sampled(longer, e, gs, mdat_payload_offset, available, at, k + 1)
    <2>1. PICK at : Sampled(segs, e, gs, mdat_payload_offset, available, at, k)
      BY <1>3
    <2>2. IsSeq(segs) /\ s.samples = gs[k + 1].first .. gs[k + 1].last
      BY <1>3, <1>6 DEF Timeline, g
    <2> QED
      BY <1>1, <1>8, <2>1, <2>2, SampledMore
  <1>11. /\ next.converter.sequence_number = Len(longer) + 1
         /\ next.converter.base_media_decode_time = next.time
    <2>1. /\ After(conv, F).sequence_number = conv.sequence_number + 1
          /\ After(conv, F).base_media_decode_time = conv.base_media_decode_time + TotalDuration(F)
      BY DEF After
    <2> QED
      BY <1>3, <1>4, <1>9, <2>1
  <1>12. next.time \in Nat /\ next.time = PlayedBefore(longer)[Len(longer)]
    BY <1>3, <1>4, <1>6, <1>9
  <1>13. FragInv(next, e, gs, track, available, k + 1)
    BY <1>4, <1>9, <1>10, <1>11, <1>12 DEF FragInv, id, ts
  <1> QED
    BY <1>13 DEF next, F, g

\* After all groups
LEMMA FragmentsGood ==
    ASSUME NEW e, TypedEntries(e), NEW gs, GroupsIn(gs, Len(e)), NEW track, NEW available, NEW sync,
           track.timescale \in Nat, NEW conv, conv = NewConverter,
           \A m \in 1..Len(gs) : Fits(e, gs, mdat_payload_offset, available, m) => track.timescale # 0
    PROVE  FragInv(Fragments(e, gs, track, available, conv, sync), e, gs, track, available, Len(gs))
  <1> DEFINE N == Len(gs)
             f == FragmentsUpto(e, gs, track, available, conv, sync)
             P == {k \in 0..N : FragInv(f[k], e, gs, track, available, k)}
  <1>1. N \in Nat
    BY SeqFacts DEF GroupsIn
  <1>2. /\ f[0] = [segments |-> <<>>, time |-> 0, converter |-> conv]
        /\ \A k \in 1..N : f[k] = AddGroup(f, e, gs, track, available, conv, sync, k)
    BY <1>1, FragmentsRecursion
  <1> HIDE DEF f
  <1>3. 0 \in P
    <2> DEFINE segs == f[0].segments
    <2>1. /\ segs = <<>> /\ f[0].time = 0
          /\ f[0].converter.sequence_number = 1 /\ f[0].converter.base_media_decode_time = 0
      BY <1>2 DEF NewConverter
    <2>2. Timeline(segs, track.track_id, track.timescale) /\ PlayedBefore(segs)[0] = 0
      <3> HIDE DEF segs
      <3> QED
        BY <2>1, EmptyTimeline
    <2>3. Len(segs) = 0
      <3> HIDE DEF segs
      <3> QED
        BY <2>1, NoneSeq
    <2>4. \E at : Sampled(segs, e, gs, mdat_payload_offset, available, at, 0)
      <3> DEFINE at == [p \in 1..0 |-> p]
      <3> HIDE DEF segs
      <3>1. at \in [1..0 -> 1..0]
        OBVIOUS
      <3> HIDE DEF at
      <3>2. Sampled(segs, e, gs, mdat_payload_offset, available, at, 0)
        BY <2>3, <3>1 DEF Sampled
      <3> QED
        BY <3>2
    <2>5. FragInv(f[0], e, gs, track, available, 0)
      BY <2>1, <2>2, <2>3, <2>4 DEF FragInv
    <2> QED
      BY <1>1, <2>5
  <1>4. ASSUME NEW k \in 0 .. N - 1, k \in P PROVE k + 1 \in P
    <2>1. k + 1 \in 1..N /\ (k + 1) - 1 = k /\ k + 1 \in 0..N /\ k \in Nat
      BY <1>1
    <2> DEFINE acc == f[k]
               F == Frames(e, gs[k + 1], sync)
    <2>2. FragInv(acc, e, gs, track, available, k)
      BY <1>4
    <2>3. f[k + 1] = IF Fits(e, gs, mdat_payload_offset, available, k + 1)
                   THEN AddFragment(acc, F, track, gs[k + 1]) ELSE acc
      <3>1. f[k + 1] = AddGroup(f, e, gs, track, available, conv, sync, k + 1)
        BY <1>2, <2>1
      <3>2. f[(k + 1) - 1] = acc
        BY <2>1
      <3> HIDE DEF acc
      <3> QED
        BY <3>1, <3>2, Zenon DEF AddGroup, Fits
    <2> HIDE DEF acc
    <2>4. CASE Fits(e, gs, mdat_payload_offset, available, k + 1)
      <3>1. track.timescale \in Nat \ {0}
        BY <2>1, <2>4
      <3>2. FragInv(AddFragment(acc, F, track, gs[k + 1]), e, gs, track, available, k + 1)
        BY <2>2, <2>4, <3>1, FragmentStep
      <3>3. FragInv(f[k + 1], e, gs, track, available, k + 1)
        BY <2>3, <2>4, <3>2
      <3> QED
        BY <2>1, <3>3
    <2>5. CASE ~Fits(e, gs, mdat_payload_offset, available, k + 1)
      <3>1. f[k + 1] = acc
        BY <2>3, <2>5
      <3>2. \E at : Sampled(acc.segments, e, gs, mdat_payload_offset, available, at, k + 1)
        <4>1. PICK at : Sampled(acc.segments, e, gs, mdat_payload_offset, available, at, k)
          BY <2>2 DEF FragInv
        <4> DEFINE segs == acc.segments
        <4>2. Sampled(segs, e, gs, mdat_payload_offset, available, at, k)
          BY <4>1
        <4> HIDE DEF segs
        <4>3. Sampled(segs, e, gs, mdat_payload_offset, available, at, k + 1)
          BY <2>1, <2>5, <4>2, SampledSkip
        <4> QED
          BY <4>3 DEF segs
      <3>3. FragInv(acc, e, gs, track, available, k + 1)
        BY <2>2, <3>2 DEF FragInv
      <3> QED
        BY <2>1, <3>1, <3>3
    <2> QED
      BY <2>4, <2>5
  <1>5. \A k \in 0..N : k \in P
    <2> HIDE DEF P, N
    <2> QED
      BY <1>1, <1>3, <1>4, UpTo
  <1>6. N \in P
    BY <1>1, <1>5
  <1> QED
    BY <1>6 DEF Fragments, f

-----------------------------------------------------------------------------
(* Groups of audio samples *)

\* Arithmetic of the groups of about half a second
LEMMA MaxOfTwo ==
    ASSUME NEW a \in Int, NEW b \in Int
    PROVE  Max({a, b}) = IF a >= b THEN a ELSE b
  BY DEF Max

LEMMA Quotient ==
    ASSUME NEW m \in Nat, NEW d \in Nat \ {0}
    PROVE  (m \div d) * d <= m
  OBVIOUS

LEMMA TimesMonotone ==
    ASSUME NEW a \in Nat, NEW b \in Nat, NEW d \in Nat, a <= b
    PROVE  a * d <= b * d /\ a * d \in Nat
  OBVIOUS

LEMMA GroupBounds ==
    ASSUME NEW n \in Nat, NEW d \in Nat \ {0}, NEW k \in Nat \ {0}, k <= (n + d - 1) \div d
    PROVE  (k - 1) * d + 1 \in 1..n /\ k * d \in Nat /\ (k - 1) * d + 1 <= k * d
  <1> DEFINE m == n + d - 1
             q == m \div d
             z == k * d
  <1>1. m \in Nat /\ q \in Nat /\ k <= q
    BY DivNat
  <1>2. q * d <= m
    BY <1>1, Quotient
  <1>3. z <= q * d /\ z \in Nat
    <2> HIDE DEF q
    <2> QED
      BY <1>1, TimesMonotone
  <1>4. (k - 1) * d = z - d
    OBVIOUS
  <1>5. (k - 1) * d \in Nat
    BY TimesMonotone
  <1> DEFINE y == (k - 1) * d
             x == q * d
  <1>6. x \in Nat
    <2> HIDE DEF q
    <2> QED
      BY <1>1, TimesMonotone
  <1>7. y = z - d /\ y \in Nat /\ z \in Nat /\ z <= x /\ x <= n + d - 1 /\ x \in Nat
    BY <1>2, <1>3, <1>4, <1>5, <1>6
  <1> HIDE DEF x, y, z
  <1>8. y + 1 \in 1..n /\ z \in Nat /\ y + 1 <= z
    BY <1>7
  <1> QED
    BY <1>8 DEF y, z

\* They are groups of the samples
LEMMA AudioGroups ==
    ASSUME NEW e, TypedEntries(e), e # <<>>, NEW timescale \in Nat
    PROVE  GroupsIn(AudioChunks(e, timescale), Len(e))
  <1> DEFINE n == Len(e)
             dur == Max({e[1].duration, 1})
             per == Max({1, (timescale \div 2) \div dur})
             c == (n + per - 1) \div per
             G == AudioChunks(e, timescale)
  <1>1. n \in Nat /\ IsSeq(e)
    BY SeqFacts DEF TypedEntries
  <1>2. n # 0
    <2>1. e \in Seq(ToSet(e))
      BY <1>1 DEF IsSeq
    <2> DEFINE X == ToSet(e)
    <2> HIDE DEF X
    <2>2. e \in Seq(X)
      BY <2>1 DEF X
    <2> QED
      BY <2>2
  <1>3. dur \in Nat \ {0}
    <2> DEFINE x == e[1].duration
    <2>1. x \in Nat
      BY <1>1, <1>2 DEF TypedEntries
    <2> HIDE DEF x
    <2>2. Max({x, 1}) = IF x >= 1 THEN x ELSE 1
      BY <2>1, MaxOfTwo
    <2>3. Max({x, 1}) \in Nat \ {0}
      BY <2>1, <2>2
    <2> QED
      BY <2>3 DEF x
  <1>4. per \in Nat \ {0}
    <2> HIDE DEF dur
    <2> DEFINE y == (timescale \div 2) \div dur
    <2>1. y \in Nat
      <3>1. timescale \div 2 \in Nat
        BY DivNat
      <3> QED
        BY <1>3, <3>1, DivNat
    <2> HIDE DEF y
    <2>2. Max({1, y}) = IF 1 >= y THEN 1 ELSE y
      BY <2>1, MaxOfTwo
    <2>3. Max({1, y}) \in Nat \ {0}
      BY <2>1, <2>2
    <2> QED
      BY <2>3 DEF y
  <1>5. G = [k \in 1..c |-> [first |-> (k - 1) * per + 1, last |-> Min({k * per, n})]]
    BY DEF AudioChunks
  <1> HIDE DEF per, n, G, dur
  <1>6. c \in Nat
    <2>1. n + per - 1 \in Nat
      BY <1>1, <1>4
    <2> QED
      BY <1>4, <2>1, DivNat
  <1>7. ASSUME NEW k \in 1..c PROVE G[k].first \in 1..n /\ G[k].last \in G[k].first .. n
    <2>1. k \in Nat \ {0} /\ k <= (n + per - 1) \div per
      BY <1>6
    <2>2. G[k].first = (k - 1) * per + 1 /\ G[k].last = Min({k * per, n})
      <3> HIDE DEF c
      <3> QED
        BY <1>5
    <2>3. (k - 1) * per + 1 \in 1..n /\ k * per \in Nat /\ (k - 1) * per + 1 <= k * per
      BY <1>1, <1>4, <2>1, GroupBounds
    <2> DEFINE z == k * per
               y == (k - 1) * per
    <2>4. Min({z, n}) = IF z <= n THEN z ELSE n
      <3>1. z \in Int /\ n \in Int
        BY <1>1, <2>3
      <3> HIDE DEF z
      <3> QED
        BY <3>1, MinOfTwo
    <2>5. y + 1 \in 1..n /\ z \in Nat /\ y + 1 <= z /\ G[k].first = y + 1 /\ G[k].last = Min({z, n})
      BY <2>2, <2>3
    <2> HIDE DEF z, y
    <2> QED
      BY <1>1, <2>4, <2>5
  <1> HIDE DEF c
  <1>8. IsSeq(G) /\ Len(G) = c
    <2>1. G = [k \in 1..c |-> G[k]]
      BY <1>5
    <2> QED
      BY <1>6, <2>1, MadeSeq
  <1> QED
    BY <1>7, <1>8 DEF GroupsIn, G, n

-----------------------------------------------------------------------------
(* What the paths through the parser give *)

\* Segments with a timestamp
Timed(ms) == IsSeq(ms) /\ \A p \in 1..Len(ms) : ms[p].timestamp \in Nat

\* A result, and the segments of a failed one
IsResult(r) ==
    /\ r = [outcome |-> r.outcome, segments |-> r.segments, converter |-> r.converter]
    /\ r.outcome \in {"segmented", "error", "panic"}
    /\ r.outcome # "segmented" => r.segments = <<>>

\* A path that ends well, and one that fails
LEMMA OkResult ==
    ASSUME NEW made
    PROVE  IsResult(Ok(made)) /\ Ok(made).outcome = "segmented" /\ Ok(made).segments = made.segments
  BY DEF IsResult, Ok

LEMMA FailedResult ==
    ASSUME NEW how \in {"panic", "error"}
    PROVE  /\ IsResult(Failed(how)) /\ Failed(how).outcome # "segmented"
           /\ Failed(how).segments = <<>>
  BY DEF IsResult, Failed

\* Segments stay timed however they are put together
LEMMA EmptyTimed ==
    ASSUME NEW ms, ms = <<>>
    PROVE  Timed(ms)
  BY NoneSeq DEF Timed

LEMMA JoinedTimed ==
    ASSUME NEW p, NEW r, Timed(p), Timed(r), NEW q, q = p \o r
    PROVE  Timed(q)
  <1> DEFINE m == Len(p)
             n == Len(r)
  <1>1. IsConcat(q, p, r, m, n) /\ m = Len(p) /\ n = Len(r)
    BY DEF Timed, IsConcat
  <1> HIDE DEF m, n
  <1>2. /\ IsSeq(q) /\ m \in Nat /\ n \in Nat /\ Len(q) = m + n
        /\ \A i \in 1..m : q[i] = p[i]
        /\ \A i \in 1..Len(q) : i > m => i - m \in 1..n /\ m + (i - m) = i /\ q[i] = r[i - m]
    BY <1>1, Joining
  <1>3. ASSUME NEW i \in 1..Len(q) PROVE q[i].timestamp \in Nat
    <2>1. CASE i > m
      BY <1>1, <1>2, <2>1 DEF Timed
    <2>2. CASE ~(i > m)
      <3>1. i \in 1..m
        BY <1>2, <2>2
      <3> QED
        BY <1>1, <1>2, <3>1 DEF Timed
    <2> QED
      BY <2>1, <2>2
  <1> QED
    BY <1>2, <1>3 DEF Timed

LEMMA AppendedTimed ==
    ASSUME NEW p, Timed(p), NEW s, s.timestamp \in Nat, NEW q, Appended(q, p, s)
    PROVE  Timed(q)
  <1>1. /\ IsSeq(q) /\ Len(q) = Len(p) + 1 /\ Len(p) \in Nat
        /\ (\A i \in 1..Len(p) : q[i] = p[i]) /\ q[Len(p) + 1] = s
    <2>1. IsSeq(p)
      BY DEF Timed
    <2> QED
      BY <2>1, Appending
  <1>2. ASSUME NEW i \in 1..Len(q) PROVE q[i].timestamp \in Nat
    <2>1. i = Len(p) + 1 \/ i \in 1..Len(p)
      BY <1>1
    <2> QED
      BY <1>1, <2>1 DEF Timed
  <1> QED
    BY <1>1, <1>2 DEF Timed

LEMMA TimelineTimed ==
    ASSUME NEW segs, NEW id, NEW timescale, Timeline(segs, id, timescale)
    PROVE  Timed(segs)
  BY DEF Timeline, Timed, GoodFragment

LEMMA InitTimed ==
    ASSUME NEW data
    PROVE  /\ Timed(InitSegment(data))
           /\ \A p \in 1..Len(InitSegment(data)) : InitSegment(data)[p].segment_type = "initialization"
  <1> DEFINE ms == InitSegment(data)
             x == [segment_type |-> "initialization", data |-> data, timestamp |-> 0,
                   duration |-> 0, is_keyframe |-> TRUE, track_id |-> 0, samples |-> {}]
  <1>1. ms = <<>> \/ ms = <<x>>
    BY DEF InitSegment
  <1>2. x.timestamp = 0 /\ x.segment_type = "initialization"
    OBVIOUS
  <1> HIDE DEF ms, x
  <1>3. CASE ms = <<>>
    <2>1. IsSeq(ms) /\ Len(ms) = 0
      BY <1>3, NoneSeq
    <2> QED
      BY <2>1 DEF Timed, ms
  <1>4. CASE ms = <<x>>
    <2>1. IsSeq(ms) /\ Len(ms) = 1 /\ ms[1] = x
      BY <1>4, OneSeq
    <2> QED
      BY <1>2, <2>1 DEF Timed, ms
  <1> QED
    BY <1>1, <1>3, <1>4

\* The fragments of the samples e of a track, cut into the groups gs
IsCut(r, e, gs, track, available) ==
    /\ IsResult(r)
    /\ r.outcome = "segmented" => /\ Timeline(r.segments, track.track_id, track.timescale)
                                  /\ \E at : Sampled(r.segments, e, gs, mdat_payload_offset, available, at, Len(gs))

\* What Cut gives
LEMMA CutGood ==
    ASSUME NEW e, TypedEntries(e), NEW gs, GroupsIn(gs, Len(e)), NEW track, NEW available, NEW sync,
           track.timescale \in Nat, NEW conv, conv = NewConverter
    PROVE  IsCut(Cut(e, gs, track, available, conv, sync), e, gs, track, available)
  <1> DEFINE r == Cut(e, gs, track, available, conv, sync)
             made == Fragments(e, gs, track, available, conv, sync)
  <1>1. CASE GroupsPanic(e, gs, track.timescale, available)
    <2>1. r = Failed("panic")
      BY <1>1 DEF Cut
    <2> HIDE DEF r
    <2>2. IsCut(r, e, gs, track, available)
      BY <2>1, FailedResult DEF IsCut
    <2> QED
      BY <2>2 DEF r
  <1>2. CASE ~GroupsPanic(e, gs, track.timescale, available)
    <2>1. r = Ok(made)
      BY <1>2 DEF Cut
    <2>2. \A m \in 1..Len(gs) : Fits(e, gs, mdat_payload_offset, available, m) => track.timescale # 0
      BY <1>2 DEF GroupsPanic, Fits
    <2>3. FragInv(made, e, gs, track, available, Len(gs))
      BY <2>2, FragmentsGood
    <2> HIDE DEF r, made
    <2>4. IsCut(r, e, gs, track, available)
      <3>1. IsResult(r) /\ r.segments = made.segments
        BY <2>1, OkResult
      <3> QED
        BY <2>3, <3>1 DEF IsCut, FragInv
    <2> QED
      BY <2>4 DEF r
  <1> QED
    BY <1>1, <1>2

-----------------------------------------------------------------------------
(* Payload chunks, fragments of a fragmented file, tracks *)

\* Chunks of the payload are timed
LEMMA LegacyGood ==
    ASSUME NEW available \in Nat, NEW id, NEW timescale
    PROVE  LET r == LegacyChunks(available, id, timescale) IN IsResult(r) /\ Timed(r.segments)
  <1> DEFINE n == (available + ChunkBytes - 1) \div ChunkBytes
             f == LegacyUpto(n, available, id, timescale)
             P == {k \in 0..n : Timed(f[k].segments)}
             r == LegacyChunks(available, id, timescale)
  <1>1. n \in Nat
    <2>1. available + ChunkBytes - 1 \in Nat /\ ChunkBytes \in Nat \ {0}
      BY FilesAssumption
    <2> QED
      BY <2>1, DivNat
  <1>2. r = Ok(f[n])
    BY DEF LegacyChunks
  <1> HIDE DEF n, r
  <1>3. f[0] = Nothing(fmp4_converter) /\ \A k \in 1..n : f[k] = AddChunk(f, available, id, timescale, k)
    BY <1>1, LegacyRecursion
  <1> HIDE DEF f
  <1>4. 0 \in P
    <2>1. f[0].segments = <<>>
      BY <1>3 DEF Nothing
    <2> QED
      BY <1>1, <2>1, EmptyTimed
  <1>5. ASSUME NEW k \in 0 .. n - 1, k \in P PROVE k + 1 \in P
    <2>1. k + 1 \in 1..n /\ (k + 1) - 1 = k /\ k + 1 \in 0..n /\ k \in Nat
      BY <1>1
    <2> DEFINE p == f[k].segments
               q == f[k + 1].segments
               frame == LegacyFrame(k + 1, available, timescale)
               s == MediaSegment(create_fragment(f[k].converter, <<frame>>, id), k * 1000, timescale,
                                 k + 1 = 1, id, {k + 1})
    <2>2. q = Append(p, s)
      <3>1. f[k + 1] = AddChunk(f, available, id, timescale, k + 1)
        BY <1>3, <2>1
      <3>2. AddChunk(f, available, id, timescale, k + 1) = AddLegacy(f[k], k + 1, frame, id, timescale)
        BY <2>1, Zenon DEF AddChunk
      <3> HIDE DEF frame
      <3>3. AddLegacy(f[k], k + 1, frame, id, timescale).segments = Append(p, s)
        BY <2>1 DEF AddLegacy
      <3> QED
        BY <3>1, <3>2, <3>3
    <2>3. s.timestamp = k * 1000 /\ k * 1000 \in Nat
      <3> HIDE DEF frame
      <3> QED
        BY <2>1 DEF MediaSegment
    <2>4. Appended(q, p, s) /\ Timed(p) /\ s.timestamp \in Nat
      <3>1. s.timestamp \in Nat
        BY <2>3
      <3>2. Timed(p)
        BY <1>5
      <3> HIDE DEF s, p, q
      <3> QED
        BY <2>2, <3>1, <3>2 DEF Appended
    <2> HIDE DEF s, p, q
    <2>5. Timed(q)
      BY <2>4, AppendedTimed
    <2> QED
      BY <2>1, <2>5 DEF q
  <1>6. \A k \in 0..n : k \in P
    <2> HIDE DEF P
    <2> QED
      BY <1>1, <1>4, <1>5, UpTo
  <1>7. Timed(f[n].segments)
    BY <1>1, <1>6
  <1>8. IsResult(r) /\ r.segments = f[n].segments
    BY <1>2, OkResult
  <1> QED
    BY <1>7, <1>8 DEF r

\* So are the pairs of moof and mdat
LEMMA PairsTimed ==
    ASSUME Len(boxes) \in Nat, NEW frame \in Nat, NEW timescale \in Nat,
           timescale = 0 => ~(\E i \in 1..Len(boxes) : IsPair(i))
    PROVE  Timed(PairsUpto(frame, timescale)[Len(boxes)])
  <1> DEFINE n == Len(boxes)
             f == PairsUpto(frame, timescale)
             P == {i \in 0..n : Timed(f[i])}
  <1>1. f[0] = <<>> /\ \A i \in 1..n : f[i] = AddPair(f, frame, timescale, i)
    BY PairsRecursion
  <1> HIDE DEF f
  <1>2. 0 \in P
    BY <1>1, EmptyTimed
  <1>3. ASSUME NEW i \in 0 .. n - 1, i \in P PROVE i + 1 \in P
    <2>1. i + 1 \in 1..n /\ (i + 1) - 1 = i /\ i + 1 \in 0..n
      OBVIOUS
    <2> DEFINE p == f[i]
               q == f[i + 1]
               s == PairSegment(i + 1, Len(p), frame, timescale)
    <2>2. q = IF IsPair(i + 1) THEN Append(p, s) ELSE p
      <3>1. q = AddPair(f, frame, timescale, i + 1)
        BY <1>1, <2>1
      <3>2. f[(i + 1) - 1] = p
        BY <2>1
      <3> HIDE DEF p, q
      <3> QED
        BY <3>1, <3>2, Zenon DEF AddPair
    <2>3. Timed(p)
      BY <1>3
    <2>4. CASE IsPair(i + 1)
      <3>1. timescale # 0
        BY <2>1, <2>4
      <3>2. s.timestamp \in Nat
        <4> DEFINE m == Len(p)
                   base == m * frame
        <4>1. m \in Nat
          <5> HIDE DEF p
          <5> QED
            BY <2>3, SeqFacts DEF Timed
        <4>2. s.timestamp = (base * 1000) \div timescale
          <5> HIDE DEF m
          <5> QED
            BY DEF PairSegment, MediaSegment, m
        <4>3. base \in Nat
          <5> HIDE DEF m
          <5>1. m <= m /\ m \in Nat /\ frame \in Nat
            BY <4>1
          <5> QED
            BY <5>1, TimesMonotone
        <4> HIDE DEF base, s
        <4>4. base * 1000 \in Nat
          BY <4>3
        <4> QED
          BY <3>1, <4>2, <4>4, DivNat
      <3>3. Appended(q, p, s)
        BY <2>2, <2>4 DEF Appended
      <3> HIDE DEF s, p, q
      <3>4. Timed(q)
        BY <2>3, <3>2, <3>3, AppendedTimed
      <3> QED
        BY <2>1, <3>4 DEF q
    <2>5. CASE ~IsPair(i + 1)
      BY <2>1, <2>2, <2>3, <2>5
    <2> QED
      BY <2>4, <2>5
  <1>4. \A i \in 0..n : i \in P
    <2> HIDE DEF P, n
    <2>1. n \in Nat
      BY DEF n
    <2> QED
      BY <1>2, <1>3, <2>1, UpTo
  <1> QED
    BY <1>4 DEF f

\* The track that was found is the m-th, with its types
TrackAt(found, type, m) ==
    /\ m \in 1..Len(tracks) /\ tracks[m].media_type = type /\ found = <<tracks[m]>> /\ found[1] = tracks[m]
    /\ tracks[m].timescale \in Nat /\ tracks[m].duration \in Nat
    /\ tracks[m].sample_table # NoTable => tracks[m].sample_table[1] \in SampleTables

\* The first track of a kind is one of the tracks
LEMMA FoundTrack ==
    ASSUME TypedTracks(tracks), NEW type, FirstTrack(tracks, type) # <<>>
    PROVE  \E m : TrackAt(FirstTrack(tracks, type), type, m)
  <1> DEFINE R == {i \in 1..Len(tracks) : tracks[i].media_type = type}
             m == Min(R)
             found == FirstTrack(tracks, type)
  <1>1. found = IF R = {} THEN <<>> ELSE <<tracks[m]>>
    BY DEF FirstTrack
  <1>2. R # {} /\ found = <<tracks[m]>>
    BY <1>1
  <1>3. Len(tracks) \in Nat /\ \A i \in 1..Len(tracks) : tracks[i] \in ToSet(tracks)
    <2>1. IsSeq(tracks)
      BY DEF TypedTracks, IsSeq
    <2> QED
      BY <2>1, SeqFacts
  <1>4. m \in R
    <2>1. R \in SUBSET Nat
      BY <1>3
    <2> HIDE DEF R
    <2> QED
      BY <1>2, <2>1, LeastOf
  <1>5. m \in 1..Len(tracks) /\ tracks[m].media_type = type
    BY <1>4
  <1> HIDE DEF m, R, found
  <1> DEFINE x == tracks[m]
  <1>6. x \in ToSet(tracks)
    BY <1>3, <1>5
  <1>7. /\ {x.timescale, x.duration} \subseteq Nat
        /\ x.sample_table # NoTable => x.sample_table[1] \in SampleTables
    BY <1>6 DEF TypedTracks
  <1>8. found[1] = tracks[m]
    BY <1>2
  <1>9. TrackAt(found, type, m)
    BY <1>2, <1>5, <1>7, <1>8 DEF TrackAt
  <1> QED
    BY <1>9 DEF found

\* The groups of the video are groups of pictures
LEMMA GopGroups ==
    ASSUME NEW e, TypedEntries(e)
    PROVE  GroupsIn(Gops(e), Len(e)) /\ GopInv(e, Gops(e), Len(e) + 1, Len(e))
  <1>1. Len(e) \in Nat
    BY SeqFacts DEF TypedEntries
  <1>2. GopInv(e, Gops(e), Len(e) + 1, Len(e))
    BY <1>1, GopsGood
  <1> QED
    BY <1>2 DEF GopInv, GroupsIn, IsGop

-----------------------------------------------------------------------------
(* A regular file: initialization, video, audio *)

\* The bytes of the last mdat
Payload == IF Places("mdat") = {} THEN 0 ELSE LastBox("mdat").bytes
\* The track found has samples
Tabled(found) == found # <<>> /\ found[1].sample_table # NoTable

\* The three parts of all segments
InOrder(ms, init, v, a) == ms = (init \o v) \o a

\* The video's part is a timeline with a segment for each GOP that fits; the audio's is
\* empty or a timeline
Parts(ms, trs, off, payload, init, v, a) ==
    LET video == FirstTrack(trs, "vide")
        audio == FirstTrack(trs, "soun")
        e     == resolve_sample_offsets(video[1].sample_table[1])
    IN  /\ InOrder(ms, init, v, a)
        /\ IsSeq(init) /\ IsSeq(v) /\ IsSeq(a)
        /\ \A p \in 1..Len(init) : init[p].segment_type = "initialization"
        /\ Tabled(video) => /\ Timeline(v, video[1].track_id, video[1].timescale)
                            /\ payload > 0 => \E at : Sampled(v, e, Gops(e), off, payload, at, Len(Gops(e)))
        /\ a = <<>> \/ (Tabled(audio) /\ Timeline(a, audio[1].track_id, audio[1].timescale))

\* Boxes of a type
LEMMA PlacesFacts ==
    ASSUME FileInv, NEW type
    PROVE  /\ Len(boxes) \in Nat /\ Places(type) \in SUBSET (1..Len(boxes))
           /\ Places(type) # {} => /\ Max(Places(type)) \in Places(type)
                                   /\ LastBox(type) \in ToSet(boxes)
           /\ Cardinality(Places(type)) \in Nat
  <1>1. Len(boxes) \in Nat /\ \A i \in 1..Len(boxes) : boxes[i] \in ToSet(boxes)
    BY SeqFacts DEF FileInv
  <1>2. Places(type) \in SUBSET (1..Len(boxes))
    BY DEF Places
  <1>3. ASSUME Places(type) # {}
        PROVE  Max(Places(type)) \in Places(type) /\ LastBox(type) \in ToSet(boxes)
    <2>1. Places(type) \in SUBSET (0..Len(boxes))
      BY <1>1, <1>2
    <2>2. Max(Places(type)) \in Places(type)
      BY <1>1, <1>3, <2>1, GreatestOf
    <2> QED
      BY <1>1, <1>2, <2>2 DEF LastBox
  <1>4. Cardinality(Places(type)) \in Nat
    <2>1. IsFiniteSet(1..Len(boxes))
      BY <1>1, FS_Interval
    <2>2. IsFiniteSet(Places(type))
      BY <1>2, <2>1, FS_Subset
    <2> QED
      BY <2>2, FS_CardinalityType
  <1> QED
    BY <1>1, <1>2, <1>3, <1>4

LEMMA PayloadNat ==
    ASSUME FileInv
    PROVE  Payload \in Nat
  <1>1. CASE Places("mdat") # {}
    <2>1. LastBox("mdat") \in ToSet(boxes)
      BY <1>1, PlacesFacts
    <2>2. LastBox("mdat") \in ToSet(file) /\ file \in Files
      BY <2>1 DEF FileInv
    <2>3. LastBox("mdat").bytes \in Nat
      BY <2>2, FileFacts
    <2> QED
      BY <1>1, <2>3 DEF Payload
  <1> QED
    BY <1>1 DEF Payload

\* What the two loops give
LEMMA VideoGood ==
    ASSUME FileInv, fmp4_converter = NewConverter, NEW available \in Nat, NEW video,
           video = FirstTrack(tracks, "vide"), NEW r, r = VideoFragments(video, available)
    PROVE  /\ IsResult(r) /\ Timed(r.segments)
           /\ Tabled(video) =>
                 LET e == resolve_sample_offsets(video[1].sample_table[1])
                 IN  IsCut(r, e, Gops(e), video[1], available)
  <1>1. CASE video = <<>>
    <2>1. r = LegacyChunks(available, 1, 1000) /\ ~Tabled(video)
      BY <1>1 DEF VideoFragments, Tabled
    <2> QED
      BY <2>1, LegacyGood
  <1>2. CASE video # <<>> /\ video[1].sample_table = NoTable
    <2>1. r = LegacyChunks(available, video[1].track_id, video[1].timescale) /\ ~Tabled(video)
      BY <1>2 DEF VideoFragments, Tabled
    <2> QED
      BY <2>1, LegacyGood
  <1>3. CASE video # <<>> /\ video[1].sample_table # NoTable
    <2>1. PICK m : TrackAt(video, "vide", m)
      BY <1>3, FoundTrack DEF FileInv
    <2> DEFINE x == video[1]
               t == x.sample_table[1]
               e == resolve_sample_offsets(t)
    <2>2. x.timescale \in Nat /\ t \in SampleTables
      BY <1>3, <2>1 DEF TrackAt
    <2>3. r = IF RunPanics(t) THEN Failed("panic") ELSE CutVideo(e, x, available)
      BY <1>3 DEF VideoFragments
    <2>4. TypedEntries(e)
      <3> HIDE DEF t
      <3> QED
        BY <2>2, Resolved
    <2> HIDE DEF x, t, e
    <2>5. r = Failed("panic") \/ r = Failed("error") \/ r = Cut(e, Gops(e), x, available, fmp4_converter, FALSE)
      BY <2>3 DEF CutVideo
    <2>6. IsCut(r, e, Gops(e), x, available)
      <3>1. CASE r = Failed("panic") \/ r = Failed("error")
        BY <3>1, FailedResult DEF IsCut
      <3>2. CASE r = Cut(e, Gops(e), x, available, fmp4_converter, FALSE)
        BY <2>2, <2>4, <3>2, GopGroups, CutGood
      <3> QED
        BY <2>5, <3>1, <3>2
    <2>7. Timed(r.segments)
      <3>1. CASE r.outcome = "segmented"
        BY <2>6, <3>1, TimelineTimed DEF IsCut
      <3>2. CASE r.outcome # "segmented"
        BY <2>6, <3>2, EmptyTimed DEF IsCut, IsResult
      <3> QED
        BY <3>1, <3>2
    <2> QED
      BY <2>6, <2>7 DEF IsCut, x, t, e
  <1> QED
    BY <1>1, <1>2, <1>3

LEMMA AudioGood ==
    ASSUME FileInv, NEW available \in Nat, NEW audio,
           audio = FirstTrack(tracks, "soun"), NEW r, r = AudioFragments(audio, available)
    PROVE  /\ IsResult(r) /\ Timed(r.segments)
           /\ r.segments = <<>> \/ (Tabled(audio) /\ Timeline(r.segments, audio[1].track_id, audio[1].timescale))
  <1>0. IsResult(Ok(Nothing(NewConverter))) /\ Ok(Nothing(NewConverter)).segments = <<>>
    BY OkResult DEF Nothing
  <1>1. CASE r.segments = <<>> /\ IsResult(r)
    BY <1>1, EmptyTimed
  <1>2. CASE HasAc3Params(tracks) \/ audio = <<>> \/ audio[1].sample_table = NoTable
    <2>1. r = Ok(Nothing(NewConverter))
      BY <1>2 DEF AudioFragments
    <2> QED
      BY <1>0, <1>1, <2>1
  <1>3. CASE ~(HasAc3Params(tracks) \/ audio = <<>> \/ audio[1].sample_table = NoTable)
    <2>1. PICK m : TrackAt(audio, "soun", m)
      BY <1>3, FoundTrack DEF FileInv
    <2> DEFINE x == audio[1]
               t == x.sample_table[1]
               e == resolve_sample_offsets(t)
               gs == AudioChunks(e, x.timescale)
    <2>2. x.timescale \in Nat /\ t \in SampleTables /\ Tabled(audio)
      BY <1>3, <2>1 DEF TrackAt, Tabled
    <2>3. r = IF RunPanics(t) THEN Failed("panic") ELSE CutAudio(e, x, available)
      BY <1>3 DEF AudioFragments
    <2>4. TypedEntries(e)
      <3> HIDE DEF t
      <3> QED
        BY <2>2, Resolved
    <2> HIDE DEF x, t, e
    <2>5. CASE RunPanics(t)
      BY <1>1, <2>3, <2>5, FailedResult
    <2>6. CASE ~RunPanics(t) /\ e = <<>>
      <3>1. r = Ok(Nothing(NewConverter))
        BY <2>3, <2>6 DEF CutAudio
      <3> QED
        BY <1>0, <1>1, <3>1
    <2>7. CASE ~RunPanics(t) /\ e # <<>>
      <3>1. r = Cut(e, gs, x, available, NewConverter, TRUE)
        BY <2>3, <2>7 DEF CutAudio
      <3>2. GroupsIn(gs, Len(e))
        BY <2>2, <2>4, <2>7, AudioGroups
      <3> HIDE DEF gs
      <3>3. IsCut(r, e, gs, x, available)
        BY <2>2, <2>4, <3>1, <3>2, CutGood
      <3>4. CASE r.outcome = "segmented"
        BY <2>2, <3>3, <3>4, TimelineTimed DEF IsCut, x
      <3>5. CASE r.outcome # "segmented"
        BY <1>1, <3>3, <3>5 DEF IsCut, IsResult
      <3> QED
        BY <3>4, <3>5
    <2> QED
      BY <2>5, <2>6, <2>7
  <1> QED
    BY <1>2, <1>3

\* Both joined to the initialization segment
IsJoined(r, init, v, a) ==
    /\ IsResult(v) /\ IsResult(a) /\ Timed(init) /\ Timed(v.segments) /\ Timed(a.segments)
    /\ r = Joined(init, v, a)

LEMMA JoinedGood ==
    ASSUME NEW init, NEW v, NEW a, NEW r, IsJoined(r, init, v, a)
    PROVE  /\ IsResult(r) /\ Timed(r.segments)
           /\ r.outcome = "segmented" => /\ v.outcome = "segmented" /\ a.outcome = "segmented"
                                         /\ InOrder(r.segments, init, v.segments, a.segments)
  <1>1. CASE v.outcome # "segmented"
    BY <1>1 DEF Joined, IsJoined
  <1>2. CASE v.outcome = "segmented" /\ a.outcome # "segmented"
    BY <1>2 DEF Joined, IsJoined
  <1>3. CASE v.outcome = "segmented" /\ a.outcome = "segmented"
    <2> DEFINE vs == v.segments
               as == a.segments
               iv == init \o vs
               all == iv \o as
    <2>1. r = [v EXCEPT !.segments = all]
      BY <1>3 DEF Joined, IsJoined
    <2>2. Timed(vs) /\ Timed(as) /\ Timed(init)
      BY DEF IsJoined
    <2> HIDE DEF vs, as
    <2>3. Timed(iv)
      BY <2>2, JoinedTimed
    <2> HIDE DEF iv
    <2>4. Timed(all)
      BY <2>2, <2>3, JoinedTimed
    <2>5. all = (init \o v.segments) \o a.segments
      BY DEF iv, vs, as
    <2> HIDE DEF all
    <2> DEFINE vc == v.converter
    <2>6. v = [outcome |-> "segmented", segments |-> vs, converter |-> vc]
      BY <1>3 DEF IsResult, IsJoined, vs
    <2> HIDE DEF vc
    <2>7. r = [outcome |-> "segmented", segments |-> all, converter |-> vc]
      BY <2>1, <2>6
    <2>8. r.outcome = "segmented" /\ r.segments = all /\ r.converter = vc
      BY <2>7
    <2>9. IsResult(r)
      BY <2>7, <2>8 DEF IsResult
    <2> QED
      BY <1>3, <2>4, <2>5, <2>8, <2>9 DEF InOrder
  <1> QED
    BY <1>1, <1>2, <1>3

\* What create_fragments_from_regular_mp4 gives
LEMMA RegularGood ==
    ASSUME FileInv, fmp4_converter = NewConverter, NEW r, r = create_fragments_from_regular_mp4
    PROVE  /\ IsResult(r) /\ Timed(r.segments)
           /\ r.outcome = "segmented" =>
                 \E init, v, a : Parts(r.segments, tracks, mdat_payload_offset, Payload, init, v, a)
  <1> DEFINE ftyp == FoldLeft(LAMBDA acc, b : IF b.type = "ftyp" THEN acc \o serialize_box(b) ELSE acc,
                              <<>>, boxes)
             data == Append(ftyp, [LastBox("moov") EXCEPT !.kids = create_mse_compatible_moov(@, tracks)])
             init == InitSegment(data)
             video == FirstTrack(tracks, "vide")
             audio == FirstTrack(tracks, "soun")
             v == VideoFragments(video, Payload)
             a == AudioFragments(audio, Payload)
  <1>1. Payload \in Nat
    BY PayloadNat
  <1>2. r = IF Places("moov") = {} THEN Failed("error")
            ELSE IF Payload = 0 THEN Ok([segments |-> init, converter |-> fmp4_converter])
            ELSE Joined(init, v, a)
    BY DEF create_fragments_from_regular_mp4, Payload
  <1> HIDE DEF data
  <1>3. Timed(init) /\ \A p \in 1..Len(init) : init[p].segment_type = "initialization"
    BY InitTimed
  <1> HIDE DEF init, video, audio, v, a
  <1>4. /\ IsResult(v) /\ Timed(v.segments)
        /\ Tabled(video) => LET e == resolve_sample_offsets(video[1].sample_table[1])
                            IN  IsCut(v, e, Gops(e), video[1], Payload)
    BY <1>1, VideoGood DEF video, v
  <1>5. /\ IsResult(a) /\ Timed(a.segments)
        /\ a.segments = <<>> \/ (Tabled(audio) /\ Timeline(a.segments, audio[1].track_id, audio[1].timescale))
    BY <1>1, AudioGood DEF audio, a
  <1>6. CASE Places("moov") = {}
    BY <1>2, <1>6, FailedResult, EmptyTimed
  <1>7. CASE Places("moov") # {} /\ Payload = 0
    <2> DEFINE none == <<>>
               ms == init
    <2>1. IsResult(r) /\ r.segments = init
      BY <1>2, <1>7, OkResult
    <2>2. init = (init \o none) \o none
      <3> DEFINE X == ToSet(init)
      <3>1. init \in Seq(X)
        BY <1>3 DEF Timed, IsSeq
      <3> HIDE DEF X
      <3> QED
        BY <3>1
    <2>3. IsSeq(none) /\ Timeline(none, video[1].track_id, video[1].timescale)
      <3>1. none = <<>>
        OBVIOUS
      <3> HIDE DEF none
      <3> QED
        BY <3>1, NoneSeq, EmptyTimeline
    <2>4. IsSeq(init)
      BY <1>3 DEF Timed
    <2>5. none = <<>>
      OBVIOUS
    <2> HIDE DEF none
    <2>6. ~(Payload > 0)
      BY <1>7
    <2>7. Parts(init, tracks, mdat_payload_offset, Payload, init, none, none)
      BY <1>3, <2>2, <2>3, <2>4, <2>5, <2>6 DEF Parts, InOrder, video
    <2> QED
      BY <1>3, <2>1, <2>7
  <1>8. CASE Places("moov") # {} /\ Payload # 0
    <2>1. r = Joined(init, v, a)
      BY <1>2, <1>8
    <2>2. /\ IsResult(r) /\ Timed(r.segments)
          /\ r.outcome = "segmented" => /\ v.outcome = "segmented" /\ a.outcome = "segmented"
                                        /\ InOrder(r.segments, init, v.segments, a.segments)
      <3>1. IsJoined(r, init, v, a)
        BY <1>3, <1>4, <1>5, <2>1 DEF IsJoined
      <3> QED
        BY <3>1, JoinedGood
    <2>3. ASSUME r.outcome = "segmented"
          PROVE  Parts(r.segments, tracks, mdat_payload_offset, Payload, init, v.segments, a.segments)
      <3>1. IsSeq(init) /\ IsSeq(v.segments) /\ IsSeq(a.segments)
        BY <1>3, <1>4, <1>5 DEF Timed
      <3> DEFINE e == resolve_sample_offsets(video[1].sample_table[1])
      <3>2. ASSUME Tabled(video)
            PROVE  /\ Timeline(v.segments, video[1].track_id, video[1].timescale)
                   /\ \E at : Sampled(v.segments, e, Gops(e), mdat_payload_offset, Payload, at, Len(Gops(e)))
        BY <1>4, <2>2, <2>3, <3>2 DEF IsCut
      <3> QED
        BY <1>3, <1>5, <2>2, <2>3, <3>1, <3>2 DEF Parts, video, audio
    <2> QED
      BY <2>2, <2>3
  <1> QED
    BY <1>6, <1>7, <1>8

\* What extract_fragmented_segments gives
LEMMA FragmentedGood ==
    ASSUME FileInv, NEW r, r = extract_fragmented_segments
    PROVE  IsResult(r) /\ Timed(r.segments)
  <1> DEFINE video == FirstTrack(tracks, "vide")
             timescale == IF video = <<>> THEN 1000 ELSE video[1].timescale
             frame == FrameDuration(timescale)
             init == InitSegment(FragmentedInit)
             pairs == PairsUpto(frame, timescale)[Len(boxes)]
             found == {i \in 1..Len(boxes) : IsPair(i)}
             tiny == {i \in found : HasTinyTraf(boxes[i].kids)}
  <1>1. r = IF timescale = 0 /\ found # {}
            THEN Failed(IF Min(found) \in tiny THEN "error" ELSE "panic")
            ELSE IF tiny # {} THEN Failed("error")
            ELSE Ok([segments |-> init \o pairs, converter |-> fmp4_converter])
    BY DEF extract_fragmented_segments
  <1>2. timescale \in Nat /\ (video # <<>> => video[1].duration \in Nat)
    <2>1. CASE video # <<>>
      <3>1. PICK m : TrackAt(video, "vide", m)
        BY <2>1, FoundTrack DEF FileInv
      <3> QED
        BY <2>1, <3>1 DEF TrackAt
    <2> QED
      BY <2>1
  <1> HIDE DEF timescale
  <1>3. frame \in Nat
    <2> DEFINE total == IF video = <<>> THEN 0 ELSE video[1].duration
               moofs == Cardinality(Places("moof"))
    <2>1. frame = IF moofs > 0 /\ total > 0 THEN total \div moofs ELSE timescale \div 30
      BY DEF FrameDuration
    <2>2. total \in Nat /\ moofs \in Nat
      BY <1>2, PlacesFacts
    <2> HIDE DEF total, moofs, frame
    <2>3. CASE moofs > 0 /\ total > 0
      <3>1. total \div moofs \in Nat
        BY <2>2, <2>3, DivNat
      <3> QED
        BY <2>1, <2>3, <3>1
    <2>4. CASE ~(moofs > 0 /\ total > 0)
      <3>1. timescale \div 30 \in Nat
        BY <1>2, DivNat
      <3> QED
        BY <2>1, <2>4, <3>1
    <2> QED
      BY <2>3, <2>4
  <1> HIDE DEF frame
  <1>4. Timed(init)
    BY InitTimed
  <1> HIDE DEF init
  <1>5. CASE (timescale = 0 /\ found # {}) \/ tiny # {}
    <2>1. r \in {Failed("error"), Failed("panic")}
      <3> HIDE DEF found, tiny
      <3> QED
        BY <1>1, <1>5
    <2> QED
      BY <2>1, FailedResult, EmptyTimed
  <1>6. CASE ~((timescale = 0 /\ found # {}) \/ tiny # {})
    <2>1. Len(boxes) \in Nat
      BY PlacesFacts
    <2>2. Timed(pairs)
      BY <1>2, <1>3, <1>6, <2>1, PairsTimed
    <2> HIDE DEF pairs
    <2> DEFINE all == init \o pairs
    <2>3. Timed(all)
      BY <1>4, <2>2, JoinedTimed
    <2> HIDE DEF all
    <2>4. r = Ok([segments |-> all, converter |-> fmp4_converter])
      BY <1>1, <1>6 DEF all
    <2>5. IsResult(r) /\ r.segments = all
      BY <2>4, OkResult
    <2> QED
      BY <2>3, <2>5
  <1> QED
    BY <1>5, <1>6

-----------------------------------------------------------------------------
(* What a parser has made *)

\* The segments of a regular file have the three parts
Composed(ms) == \E init, v, a : Parts(ms, tracks, mdat_payload_offset, Payload, init, v, a)

\* The inductive invariant: the file's, the converter is new until the segments are made,
\* and what was made has its parts
ParserInv ==
    /\ FileInv
    /\ outcome \in {"reading", "parsed"} => fmp4_converter = NewConverter
    /\ Timed(mse)
    /\ Regular => Composed(mse)

LEMMA ParserInvInit == ParserInit => ParserInv
  <1> SUFFICES ASSUME ParserInit PROVE ParserInv
    OBVIOUS
  <1>1. mse = <<>> /\ outcome = "reading" /\ fmp4_converter = NewConverter
    BY DEF ParserInit
  <1>2. Timed(mse) /\ Len(mse) = 0
    BY <1>1, EmptyTimed, NoneSeq
  <1> QED
    BY <1>1, <1>2, FileInvInit DEF ParserInv, Regular

\* Making the segments establishes the parts
LEMMA Generated ==
    ASSUME ParserInv, NEW stream, generate_stream_segments(stream), FileInv'
    PROVE  ParserInv'
  <1>1. PICK r : /\ r = generate_mse_segments
                 /\ outcome' = r.outcome /\ mse' = r.segments
                 /\ fmp4_converter' = r.converter
    BY DEF generate_stream_segments
  <1>2. /\ outcome = "parsed" /\ boxes' = boxes /\ tracks' = tracks /\ is_fragmented' = is_fragmented
        /\ mdat_payload_offset' = mdat_payload_offset
    BY DEF generate_stream_segments
  <1>3. FileInv /\ fmp4_converter = NewConverter
    BY <1>2 DEF ParserInv
  <1>5. Payload' = Payload
    BY <1>2 DEF Payload, Places, LastBox
  <1>6. CASE is_fragmented
    <2>1. r = extract_fragmented_segments
      BY <1>1, <1>6 DEF generate_mse_segments
    <2>2. IsResult(r) /\ Timed(r.segments)
      BY <1>3, <2>1, FragmentedGood
    <2>3. ~Regular'
      BY <1>2, <1>6 DEF Regular
    <2>4. r.outcome \notin {"reading", "parsed"}
      BY <2>2 DEF IsResult
    <2> QED
      BY <1>1, <2>2, <2>3, <2>4 DEF ParserInv
  <1>7. CASE ~is_fragmented
    <2>1. r = create_fragments_from_regular_mp4
      BY <1>1, <1>7 DEF generate_mse_segments
    <2>2. /\ IsResult(r) /\ Timed(r.segments)
          /\ r.outcome = "segmented" =>
                \E init, v, a : Parts(r.segments, tracks, mdat_payload_offset, Payload, init, v, a)
      BY <1>3, <2>1, RegularGood
    <2>3. ASSUME Regular' PROVE Composed(mse)'
      <3>1. r.outcome = "segmented"
        BY <1>1, <2>3 DEF Regular
      <3>2. \E init, v, a : Parts(mse', tracks', mdat_payload_offset', Payload', init, v, a)
        BY <1>1, <1>2, <1>5, <2>2, <3>1
      <3> QED
        BY <3>2 DEF Composed
    <2>4. r.outcome \notin {"reading", "parsed"}
      BY <2>2 DEF IsResult
    <2> QED
      BY <1>1, <2>2, <2>3, <2>4 DEF ParserInv
  <1> QED
    BY <1>6, <1>7

\* Every other step leaves what was made alone
LEMMA ParserInvNext == ParserInv /\ [ParserNext]_parserVars => ParserInv'
  <1> SUFFICES ASSUME ParserInv, [ParserNext]_parserVars PROVE ParserInv'
    OBVIOUS
  <1>0. FileInv'
    BY FileInvNext DEF ParserInv
  <1>1. ASSUME UNCHANGED <<segments, mse, fmp4_converter>>, outcome' # "segmented",
               outcome \in {"reading", "parsed"}
        PROVE  ParserInv'
    BY <1>0, <1>1 DEF ParserInv, Regular
  <1>2. CASE parse_box
    BY <1>1, <1>2 DEF parse_box
  <1>3. CASE parse_end
    BY <1>1, <1>3 DEF parse_end
  <1>4. CASE parse_box_to_end
    BY <1>1, <1>4 DEF parse_box_to_end
  <1>5. CASE \E stream \in StreamIds : generate_stream_segments(stream)
    BY <1>0, <1>5, Generated
  <1>6. ASSUME UNCHANGED <<boxes, tracks, is_fragmented, mdat_payload_offset, fmp4_converter, outcome,
                           segments, mse>>
        PROVE  ParserInv'
    <2>1. Payload' = Payload
      BY <1>6 DEF Payload, Places, LastBox
    <2>2. Composed(mse)' <=> Composed(mse)
      <3>1. /\ mse' = mse /\ tracks' = tracks /\ mdat_payload_offset' = mdat_payload_offset
        BY <1>6
      <3> QED
        BY <2>1, <3>1 DEF Composed
    <2>3. Regular' <=> Regular
      BY <1>6 DEF Regular
    <2> QED
      BY <1>0, <1>6, <2>2, <2>3 DEF ParserInv
  <1>7. CASE generate_separate_init_segments
    <2>1. CASE outcome' = outcome
      BY <1>6, <1>7, <2>1 DEF generate_separate_init_segments
    <2>2. CASE outcome' = "panic"
      BY <1>0, <1>7, <2>2 DEF generate_separate_init_segments, ParserInv, Regular
    <2> QED
      BY <1>7, <2>1, <2>2 DEF generate_separate_init_segments
  <1>8. CASE UNCHANGED parserVars
    BY <1>6, <1>8 DEF parserVars
  <1> QED
    BY <1>2, <1>3, <1>4, <1>5, <1>7, <1>8 DEF ParserNext

LEMMA ParserInvariant == ParserSpec => []ParserInv
  BY ParserInvInit, ParserInvNext, PTL DEF ParserSpec

-----------------------------------------------------------------------------
(* A track's segments within all of them *)

\* w is nothing up to a, then v
Shifted(w, n, a, v, m) ==
    /\ n \in Nat /\ a \in Nat /\ m \in Nat /\ a + m <= n
    /\ \A i \in 1..a : w[i] = 0
    /\ \A j \in 1..m : w[a + j] = v[j] /\ v[j] \in Nat

\* Then the sums of w are those of v, a places later
LEMMA ShiftedSums ==
    ASSUME NEW w, NEW n, NEW a, NEW v, NEW m, Shifted(w, n, a, v, m)
    PROVE  \A j \in 0..m : Sums(w, n)[a + j] = Sums(v, m)[j]
  <1> DEFINE s == Sums(w, n)
             u == Sums(v, m)
             Z == {i \in 0..a : s[i] = 0}
             P == {j \in 0..m : s[a + j] = u[j]}
  <1>1. n \in Nat /\ a \in Nat /\ m \in Nat /\ a + m <= n
    BY DEF Shifted
  <1>2. s[0] = 0 /\ \A i \in 1..n : s[i] = s[i - 1] + w[i]
    BY <1>1, SumRecursion
  <1>3. u[0] = 0 /\ \A i \in 1..m : u[i] = u[i - 1] + v[i]
    BY <1>1, SumRecursion
  <1> HIDE DEF s, u
  <1>4. \A i \in 0..a : i \in Z
    <2>1. 0 \in Z
      BY <1>1, <1>2
    <2>2. ASSUME NEW i \in 0 .. a - 1, i \in Z PROVE i + 1 \in Z
      <3>1. i + 1 \in 1..n /\ i + 1 \in 1..a /\ (i + 1) - 1 = i /\ i + 1 \in 0..a
        BY <1>1
      <3>2. s[i + 1] = s[i] + w[i + 1] /\ w[i + 1] = 0 /\ s[i] = 0
        BY <1>2, <2>2, <3>1 DEF Shifted
      <3> QED
        BY <3>1, <3>2
    <2> HIDE DEF Z
    <2> QED
      BY <1>1, <2>1, <2>2, UpTo
  <1>5. s[a] = 0
    BY <1>1, <1>4
  <1>6. \A j \in 0..m : j \in P
    <2>1. 0 \in P
      BY <1>1, <1>3, <1>5
    <2>2. ASSUME NEW j \in 0 .. m - 1, j \in P PROVE j + 1 \in P
      <3>1. /\ j + 1 \in 1..m /\ (j + 1) - 1 = j /\ j + 1 \in 0..m
            /\ a + (j + 1) \in 1..n /\ (a + (j + 1)) - 1 = a + j
        BY <1>1
      <3>2. u[j + 1] = u[j] + v[j + 1] /\ s[a + (j + 1)] = s[a + j] + w[a + (j + 1)]
        BY <1>2, <1>3, <3>1
      <3>3. w[a + (j + 1)] = v[j + 1] /\ s[a + j] = u[j]
        BY <2>2, <3>1 DEF Shifted
      <3> QED
        BY <3>1, <3>2, <3>3
    <2> HIDE DEF P
    <2> QED
      BY <1>1, <2>1, <2>2, UpTo
  <1> QED
    BY <1>6 DEF s, u

\* Counting
LEMMA SumOfOnes ==
    ASSUME NEW n \in Nat
    PROVE  \A i \in 0..n : Sums([j \in 1..n |-> 1], n)[i] = i
  <1> DEFINE w == [j \in 1..n |-> 1]
             s == Sums(w, n)
             P == {i \in 0..n : s[i] = i}
  <1>0. \A j \in 1..n : w[j] = 1
    OBVIOUS
  <1> HIDE DEF w
  <1>1. s[0] = 0 /\ \A i \in 1..n : s[i] = s[i - 1] + w[i]
    BY SumRecursion
  <1> HIDE DEF s
  <1>2. 0 \in P
    BY <1>1
  <1>3. ASSUME NEW i \in 0 .. n - 1, i \in P PROVE i + 1 \in P
    <2>1. i + 1 \in 1..n /\ (i + 1) - 1 = i /\ i + 1 \in 0..n
      OBVIOUS
    <2> QED
      BY <1>0, <1>1, <1>3, <2>1
  <1>4. \A i \in 0..n : i \in P
    <2> HIDE DEF P
    <2> QED
      BY <1>2, <1>3, UpTo
  <1> QED
    BY <1>4 DEF s, w

\* The segments of a track among all of them: `segs`, from place a + 1 on
IsBlock(ms, id, segs, a) ==
    /\ IsSeq(ms) /\ IsSeq(segs) /\ a \in Nat /\ a + Len(segs) <= Len(ms)
    /\ \A p \in 1..Len(segs) : ms[a + p] = segs[p]
    /\ OfTrack(ms, id) = a + 1 .. a + Len(segs)

\* Where the segments count a track
LEMMA BlockCounted ==
    ASSUME NEW ms, NEW id, NEW segs, NEW a, IsBlock(ms, id, segs, a), NEW p \in OfTrack(ms, id)
    PROVE  p - a \in 1..Len(segs) /\ Counted(ms, id)[p] = p - a /\ ms[p] = segs[p - a]
  <1> DEFINE n == Len(ms)
             m == Len(segs)
             ones == [q \in 1..n |-> IF q \in OfTrack(ms, id) THEN 1 ELSE 0]
             one == [q \in 1..m |-> 1]
             k == p - a
  <1>1. /\ n \in Nat /\ m \in Nat /\ a \in Nat /\ a + m <= n
        /\ OfTrack(ms, id) = a + 1 .. a + m
        /\ \A q \in 1..m : ms[a + q] = segs[q]
    BY SeqFacts DEF IsBlock
  <1>2. Counted(ms, id) = Sums(ones, n)
    BY DEF Counted
  <1> HIDE DEF n, m
  <1>3. /\ \A q \in 1..a : q \in 1..n /\ q \notin OfTrack(ms, id)
        /\ \A q \in 1..m : a + q \in 1..n /\ a + q \in OfTrack(ms, id)
    BY <1>1
  <1>4. Shifted(ones, n, a, one, m)
    BY <1>1, <1>3 DEF Shifted
  <1>5. k \in 1..m /\ k \in 0..m /\ a + k = p
    BY <1>1
  <1> HIDE DEF ones, k
  <1>6. Sums(ones, n)[a + k] = Sums(one, m)[k]
    <2> HIDE DEF one
    <2> QED
      BY <1>4, <1>5, ShiftedSums
  <1>7. Sums(one, m)[k] = k
    BY <1>1, <1>5, SumOfOnes
  <1>8. ms[p] = segs[k]
    BY <1>1, <1>5
  <1> QED
    BY <1>2, <1>5, <1>6, <1>7, <1>8 DEF k, m

\* The timeline of a block is the track's timeline among all segments
LEMMA BlockTimeline ==
    ASSUME NEW ms, NEW id, NEW segs, NEW a, IsBlock(ms, id, segs, a), NEW timescale,
           Timeline(segs, id, timescale), NEW p \in OfTrack(ms, id)
    PROVE  GoodFragment(ms[p], id, timescale, Counted(ms, id)[p], Elapsed(ms, id)[p - 1])
  <1> DEFINE n == Len(ms)
             m == Len(segs)
             durs == [q \in 1..n |-> IF q \in OfTrack(ms, id) THEN ms[q].duration ELSE 0]
             k == p - a
  <1>1. /\ n \in Nat /\ m \in Nat /\ a \in Nat /\ a + m <= n
        /\ OfTrack(ms, id) = a + 1 .. a + m
        /\ \A q \in 1..m : ms[a + q] = segs[q]
    BY SeqFacts DEF IsBlock
  <1>2. \A q \in 1..m : segs[q].duration \in Nat
    BY DEF Timeline, GoodFragment
  <1>3. Elapsed(ms, id) = Sums(durs, n)
    BY DEF Elapsed
  <1>4. PlayedBefore(segs) = Sums(DurationsOf(segs), m)
    BY DEF PlayedBefore
  <1>5. \A q \in 1..m : DurationsOf(segs)[q] = segs[q].duration
    BY DEF DurationsOf
  <1> HIDE DEF n, m
  <1>6. /\ \A q \in 1..a : q \in 1..n /\ q \notin OfTrack(ms, id)
        /\ \A q \in 1..m : a + q \in 1..n /\ a + q \in OfTrack(ms, id)
    BY <1>1
  <1>7. Shifted(durs, n, a, DurationsOf(segs), m)
    <2>1. \A q \in 1..a : durs[q] = 0
      BY <1>6
    <2>2. \A q \in 1..m : durs[a + q] = ms[a + q].duration
      BY <1>6
    <2>3. \A q \in 1..m : durs[a + q] = DurationsOf(segs)[q] /\ DurationsOf(segs)[q] \in Nat
      BY <1>1, <1>2, <1>5, <2>2
    <2> HIDE DEF durs
    <2> QED
      BY <1>1, <2>1, <2>3 DEF Shifted
  <1>8. k \in 1..m /\ k - 1 \in 0..m /\ k \in 0..m /\ a + k = p /\ a + (k - 1) = p - 1
    BY <1>1
  <1> HIDE DEF durs, k
  <1>9. Counted(ms, id)[p] = k
    BY BlockCounted DEF k
  <1>10. Elapsed(ms, id)[p - 1] = PlayedBefore(segs)[k - 1]
    <2>1. Sums(durs, n)[a + (k - 1)] = Sums(DurationsOf(segs), m)[k - 1]
      BY <1>7, <1>8, ShiftedSums
    <2> QED
      BY <1>3, <1>4, <1>8, <2>1
  <1>11. GoodFragment(segs[k], id, timescale, k, PlayedBefore(segs)[k - 1])
    BY <1>8 DEF Timeline, m
  <1>12. ms[p] = segs[k]
    BY <1>1, <1>8
  <1> QED
    BY <1>9, <1>10, <1>11, <1>12

\* Where the three parts of the segments of a regular file are
LEMMA Layout ==
    ASSUME NEW ms, NEW init, NEW v, NEW a, InOrder(ms, init, v, a), IsSeq(init), IsSeq(v), IsSeq(a)
    PROVE  /\ IsSeq(ms) /\ Len(init) \in Nat /\ Len(v) \in Nat /\ Len(a) \in Nat
           /\ Len(ms) = Len(init) + Len(v) + Len(a)
           /\ \A p \in 1..Len(init) : ms[p] = init[p]
           /\ \A p \in 1..Len(v) : ms[Len(init) + p] = v[p]
           /\ \A p \in 1..Len(a) : ms[(Len(init) + Len(v)) + p] = a[p]
  <1> DEFINE iv == init \o v
             i == Len(init)
             n == Len(v)
             k == Len(iv)
             l == Len(a)
  <1>1. IsConcat(iv, init, v, i, n)
    BY DEF IsConcat
  <1>2. ms = iv \o a
    BY DEF InOrder
  <1> HIDE DEF iv, i, n
  <1>3. /\ IsSeq(iv) /\ i \in Nat /\ n \in Nat /\ Len(iv) = i + n
        /\ \A q \in 1..i : iv[q] = init[q]
        /\ \A q \in 1..n : iv[i + q] = v[q]
    BY <1>1, Joining
  <1>4. IsConcat(ms, iv, a, k, l)
    BY <1>2, <1>3 DEF IsConcat
  <1>5. k = i + n
    BY <1>3
  <1> HIDE DEF k, l
  <1>6. /\ IsSeq(ms) /\ k \in Nat /\ l \in Nat /\ Len(ms) = k + l
        /\ \A q \in 1..k : ms[q] = iv[q]
        /\ \A q \in 1..l : ms[k + q] = a[q]
    BY <1>4, Joining
  <1>7. /\ \A q \in 1..i : q \in 1..k
        /\ \A q \in 1..n : i + q \in 1..k
    BY <1>3, <1>5
  <1>8. /\ \A q \in 1..i : ms[q] = init[q]
        /\ \A q \in 1..n : ms[i + q] = v[q]
        /\ \A q \in 1..l : ms[(i + n) + q] = a[q]
    BY <1>3, <1>5, <1>6, <1>7
  <1> QED
    BY <1>3, <1>5, <1>6, <1>8 DEF i, n, l

-----------------------------------------------------------------------------
(* The blocks of the two tracks *)

\* The segments of a track
Belongs(s, id) == s.segment_type = "media" /\ s.track_id = id
AllOf(segs, id) == \A p \in 1..Len(segs) : Belongs(segs[p], id)
NoneOf(segs, id) == \A p \in 1..Len(segs) : ~Belongs(segs[p], id)

\* The three parts, each a sequence
Laid(ms, init, v, a) == InOrder(ms, init, v, a) /\ IsSeq(init) /\ IsSeq(v) /\ IsSeq(a)

\* The part in the middle, or the last one, is a block when the others have nothing of
\* the track
LEMMA InnerBlock ==
    ASSUME NEW ms, NEW init, NEW v, NEW a, Laid(ms, init, v, a), NEW id,
           NoneOf(init, id), AllOf(v, id), NoneOf(a, id)
    PROVE  IsBlock(ms, id, v, Len(init))
  <1> DEFINE i == Len(init)
             n == Len(v)
             l == Len(a)
  <1>1. /\ IsSeq(ms) /\ i \in Nat /\ n \in Nat /\ l \in Nat /\ Len(ms) = i + n + l
        /\ \A p \in 1..i : ms[p] = init[p]
        /\ \A p \in 1..n : ms[i + p] = v[p]
        /\ \A p \in 1..l : ms[(i + n) + p] = a[p]
    BY Layout DEF Laid
  <1>2. /\ \A p \in 1..i : ~Belongs(init[p], id)
        /\ \A p \in 1..n : Belongs(v[p], id)
        /\ \A p \in 1..l : ~Belongs(a[p], id)
    BY DEF NoneOf, AllOf
  <1>3. OfTrack(ms, id) = {p \in 1..Len(ms) : Belongs(ms[p], id)}
    BY DEF OfTrack, Belongs
  <1> HIDE DEF i, n, l
  <1>4. ASSUME NEW p \in 1..Len(ms) PROVE Belongs(ms[p], id) <=> p \in i + 1 .. i + n
    <2>1. CASE p <= i
      <3>1. p \in 1..i /\ p \notin i + 1 .. i + n
        BY <1>1, <2>1
      <3> QED
        BY <1>1, <1>2, <3>1
    <2>2. CASE p > i /\ p <= i + n
      <3>1. p - i \in 1..n /\ i + (p - i) = p /\ p \in i + 1 .. i + n
        BY <1>1, <2>2
      <3>2. ms[p] = v[p - i]
        BY <1>1, <3>1
      <3> QED
        BY <1>2, <3>1, <3>2
    <2>3. CASE p > i + n
      <3> DEFINE q == p - (i + n)
      <3>1. q \in 1..l /\ (i + n) + q = p /\ p \notin i + 1 .. i + n
        BY <1>1, <2>3
      <3> HIDE DEF q
      <3>2. ms[p] = a[q]
        BY <1>1, <3>1
      <3> QED
        BY <1>2, <3>1, <3>2
    <2> QED
      BY <1>1, <2>1, <2>2, <2>3
  <1>5. i + n <= Len(ms) /\ \A p \in i + 1 .. i + n : p \in 1..Len(ms)
    BY <1>1
  <1>6. OfTrack(ms, id) = i + 1 .. i + n
    BY <1>3, <1>4, <1>5
  <1>7. IsSeq(v)
    BY DEF Laid
  <1> QED
    BY <1>1, <1>5, <1>6, <1>7 DEF IsBlock, i, n

LEMMA LastBlock ==
    ASSUME NEW ms, NEW init, NEW v, NEW a, Laid(ms, init, v, a), NEW id,
           NoneOf(init, id), NoneOf(v, id), AllOf(a, id)
    PROVE  IsBlock(ms, id, a, Len(init) + Len(v))
  <1> DEFINE i == Len(init)
             n == Len(v)
             l == Len(a)
             k == i + n
  <1>1. /\ IsSeq(ms) /\ i \in Nat /\ n \in Nat /\ l \in Nat /\ Len(ms) = k + l
        /\ \A p \in 1..i : ms[p] = init[p]
        /\ \A p \in 1..n : ms[i + p] = v[p]
        /\ \A p \in 1..l : ms[k + p] = a[p]
    BY Layout DEF Laid
  <1>2. /\ \A p \in 1..i : ~Belongs(init[p], id)
        /\ \A p \in 1..n : ~Belongs(v[p], id)
        /\ \A p \in 1..l : Belongs(a[p], id)
    BY DEF NoneOf, AllOf
  <1>3. OfTrack(ms, id) = {p \in 1..Len(ms) : Belongs(ms[p], id)}
    BY DEF OfTrack, Belongs
  <1> HIDE DEF i, n, l
  <1>4. ASSUME NEW p \in 1..Len(ms) PROVE Belongs(ms[p], id) <=> p \in k + 1 .. k + l
    <2>1. CASE p <= i
      <3>1. p \in 1..i /\ p \notin k + 1 .. k + l
        BY <1>1, <2>1
      <3> QED
        BY <1>1, <1>2, <3>1
    <2>2. CASE p > i /\ p <= k
      <3>1. p - i \in 1..n /\ i + (p - i) = p /\ p \notin k + 1 .. k + l
        BY <1>1, <2>2
      <3>2. ms[p] = v[p - i]
        BY <1>1, <3>1
      <3> QED
        BY <1>2, <3>1, <3>2
    <2>3. CASE p > k
      <3> DEFINE q == p - k
      <3>1. q \in 1..l /\ k + q = p /\ p \in k + 1 .. k + l
        BY <1>1, <2>3
      <3> HIDE DEF q, k
      <3>2. ms[p] = a[q]
        BY <1>1, <3>1
      <3> QED
        BY <1>2, <3>1, <3>2
    <2> QED
      BY <1>1, <2>1, <2>2, <2>3
  <1>5. k \in Nat /\ k + l <= Len(ms) /\ \A p \in k + 1 .. k + l : p \in 1..Len(ms)
    BY <1>1
  <1> HIDE DEF k
  <1>6. OfTrack(ms, id) = k + 1 .. k + l
    BY <1>3, <1>4, <1>5
  <1>7. IsSeq(a)
    BY DEF Laid
  <1> QED
    BY <1>1, <1>5, <1>6, <1>7 DEF IsBlock, k, i, n, l

\* A timeline is of one track, an initialization segment of none
LEMMA TimelineBelongs ==
    ASSUME NEW segs, NEW id, NEW timescale, Timeline(segs, id, timescale)
    PROVE  AllOf(segs, id) /\ \A other : other # id => NoneOf(segs, other)
  <1>1. \A p \in 1..Len(segs) : segs[p].segment_type = "media" /\ segs[p].track_id = id
    BY DEF Timeline, GoodFragment
  <1> QED
    BY <1>1 DEF AllOf, NoneOf, Belongs

LEMMA InitBelongs ==
    ASSUME NEW init, \A p \in 1..Len(init) : init[p].segment_type = "initialization", NEW id
    PROVE  NoneOf(init, id)
  BY DEF NoneOf, Belongs

\* The track that has samples: the first of its kind
LEMMA TabledFound ==
    ASSUME FileInv, NEW type, NEW track \in TabledTrack(type)
    PROVE  /\ Tabled(FirstTrack(tracks, type)) /\ FirstTrack(tracks, type)[1] = track
           /\ \E m : TrackAt(FirstTrack(tracks, type), type, m)
  <1> DEFINE found == FirstTrack(tracks, type)
  <1>1. track \in ToSet(found) /\ track.sample_table # NoTable
    BY DEF TabledTrack
  <1>2. found # <<>>
    <2>1. ASSUME found = <<>> PROVE FALSE
      <3> HIDE DEF found
      <3>1. ToSet(found) = {}
        BY <2>1, NoneSeq
      <3> QED
        BY <1>1, <3>1
    <2> QED
      BY <2>1
  <1>3. PICK m : TrackAt(found, type, m)
    BY <1>2, FoundTrack DEF FileInv
  <1> HIDE DEF found
  <1> DEFINE x == tracks[m]
  <1>4. found = <<x>> /\ found[1] = x
    BY <1>3 DEF TrackAt
  <1> HIDE DEF x
  <1>5. ToSet(found) = {x}
    BY <1>4, OneSeq
  <1>6. track = found[1]
    BY <1>1, <1>4, <1>5
  <1>7. Tabled(found)
    BY <1>1, <1>2, <1>6 DEF Tabled
  <1> QED
    BY <1>3, <1>6, <1>7 DEF found

\* Two tracks of different kinds have different ids
LEMMA IdsDiffer ==
    ASSUME DistinctIds, NEW found, NEW other, NEW m, NEW l,
           TrackAt(found, "vide", m), TrackAt(other, "soun", l)
    PROVE  found[1].track_id # other[1].track_id
  <1>1. /\ m \in 1..Len(tracks) /\ l \in 1..Len(tracks)
        /\ tracks[m].media_type = "vide" /\ tracks[l].media_type = "soun"
        /\ found[1] = tracks[m] /\ other[1] = tracks[l]
    BY DEF TrackAt
  <1>2. m # l
    BY <1>1
  <1> QED
    BY <1>1, <1>2 DEF DistinctIds

\* In a regular file with video samples the video's segments are one block, and so are
\* the audio's
LEMMA VideoBlock ==
    ASSUME FileInv, DistinctIds, NEW track \in TabledTrack("vide"), NEW ms, NEW off, NEW payload,
           NEW init, NEW v, NEW a, Parts(ms, tracks, off, payload, init, v, a)
    PROVE  /\ Timeline(v, track.track_id, track.timescale)
           /\ IsBlock(ms, track.track_id, v, Len(init))
  <1> DEFINE video == FirstTrack(tracks, "vide")
             audio == FirstTrack(tracks, "soun")
             id == track.track_id
  <1>1. Tabled(video) /\ video[1] = track /\ \E m : TrackAt(video, "vide", m)
    BY TabledFound
  <1>2. /\ Laid(ms, init, v, a) /\ Timeline(v, id, track.timescale)
        /\ \A p \in 1..Len(init) : init[p].segment_type = "initialization"
        /\ a = <<>> \/ (Tabled(audio) /\ Timeline(a, audio[1].track_id, audio[1].timescale))
    BY <1>1 DEF Parts, Laid
  <1>3. NoneOf(init, id) /\ AllOf(v, id)
    BY <1>2, InitBelongs, TimelineBelongs
  <1>4. NoneOf(a, id)
    <2>1. CASE a = <<>>
      BY <2>1, NoneSeq DEF NoneOf
    <2>2. CASE Tabled(audio) /\ Timeline(a, audio[1].track_id, audio[1].timescale)
      <3>1. PICK m : TrackAt(video, "vide", m)
        BY <1>1
      <3>2. PICK l : TrackAt(audio, "soun", l)
        BY <2>2, FoundTrack DEF FileInv, Tabled
      <3>3. video[1].track_id # audio[1].track_id
        BY <3>1, <3>2, IdsDiffer
      <3> QED
        BY <1>1, <2>2, <3>3, TimelineBelongs
    <2> QED
      BY <1>2, <2>1, <2>2
  <1> HIDE DEF id
  <1>5. IsBlock(ms, id, v, Len(init))
    BY <1>2, <1>3, <1>4, InnerBlock
  <1> QED
    BY <1>2, <1>5 DEF id

LEMMA AudioBlock ==
    ASSUME FileInv, DistinctIds, TabledTrack("vide") # {}, NEW track \in TabledTrack("soun"),
           NEW ms, NEW off, NEW payload, NEW init, NEW v, NEW a, Parts(ms, tracks, off, payload, init, v, a)
    PROVE  /\ Timeline(a, track.track_id, track.timescale)
           /\ IsBlock(ms, track.track_id, a, Len(init) + Len(v))
  <1> DEFINE video == FirstTrack(tracks, "vide")
             audio == FirstTrack(tracks, "soun")
             id == track.track_id
  <1>1. Tabled(audio) /\ audio[1] = track /\ \E m : TrackAt(audio, "soun", m)
    BY TabledFound
  <1>2. Tabled(video) /\ \E m : TrackAt(video, "vide", m)
    BY TabledFound
  <1>3. /\ Laid(ms, init, v, a) /\ Timeline(v, video[1].track_id, video[1].timescale)
        /\ \A p \in 1..Len(init) : init[p].segment_type = "initialization"
        /\ a = <<>> \/ Timeline(a, id, track.timescale)
    BY <1>1, <1>2 DEF Parts, Laid
  <1>4. Timeline(a, id, track.timescale)
    BY <1>3, EmptyTimeline
  <1>5. NoneOf(v, id)
    <2>1. PICK m : TrackAt(video, "vide", m)
      BY <1>2
    <2>2. PICK l : TrackAt(audio, "soun", l)
      BY <1>1
    <2>3. video[1].track_id # audio[1].track_id
      BY <2>1, <2>2, IdsDiffer
    <2> QED
      BY <1>1, <1>3, <2>3, TimelineBelongs
  <1>6. NoneOf(init, id) /\ AllOf(a, id)
    BY <1>3, <1>4, InitBelongs, TimelineBelongs
  <1> HIDE DEF id
  <1>7. IsBlock(ms, id, a, Len(init) + Len(v))
    BY <1>3, <1>5, <1>6, LastBlock
  <1> QED
    BY <1>4, <1>7 DEF id

\* For any regular file whose tracks have distinct ids and whose video has samples, and for
\* any width of the decode time: the fragments of video and audio are numbered from 1, each
\* starts when those before it end, and every data offset is right (Fmp4Converter, the
\* loops of create_fragments_from_regular_mp4).
THEOREM TimelineAlwaysContiguous == ParserSpec => []TimelineContiguous
  <1>1. ParserInv => TimelineContiguous
    <2> SUFFICES ASSUME ParserInv, Regular, DistinctIds, TabledTrack("vide") # {},
                        NEW track \in TabledTrack("vide") \cup TabledTrack("soun"),
                        NEW p \in OfTrack(mse, track.track_id)
                 PROVE  LET f == mse[p].data
                            samples == f.moof.traf.trun.samples
                            before == Elapsed(mse, track.track_id)[p - 1]
                        IN  /\ f.moof.mfhd.sequence = Counted(mse, track.track_id)[p]
                            /\ f.moof.traf.tfdt.time = before
                            /\ mse[p].timestamp = (before * 1000) \div track.timescale
                            /\ f.moof.traf.trun.data_offset = f.moof.size + 8
                            /\ f.mdat.size = 8 + SumOf([j \in 1..Len(samples) |-> samples[j].size])
      BY DEF TimelineContiguous
    <2>1. FileInv /\ Composed(mse)
      BY DEF ParserInv
    <2>2. PICK init, v, a : Parts(mse, tracks, mdat_payload_offset, Payload, init, v, a)
      BY <2>1 DEF Composed
    <2> DEFINE id == track.track_id
    <2>3. \E segs, at : Timeline(segs, id, track.timescale) /\ IsBlock(mse, id, segs, at)
      <3>1. CASE track \in TabledTrack("vide")
        BY <2>1, <2>2, <3>1, VideoBlock
      <3>2. CASE track \in TabledTrack("soun")
        BY <2>1, <2>2, <3>2, AudioBlock
      <3> QED
        BY <3>1, <3>2
    <2>4. PICK segs, at : Timeline(segs, id, track.timescale) /\ IsBlock(mse, id, segs, at)
      BY <2>3
    <2> DEFINE before == Elapsed(mse, id)[p - 1]
               count == Counted(mse, id)[p]
    <2>5. GoodFragment(mse[p], id, track.timescale, count, before)
      <3>1. p \in OfTrack(mse, id)
        OBVIOUS
      <3> HIDE DEF id
      <3> QED
        BY <2>4, <3>1, BlockTimeline
    <2> HIDE DEF before, count
    <2> QED
      BY <2>5 DEF GoodFragment, SizesOf, before, count
  <1> QED
    BY <1>1, ParserInvariant, PTL

-----------------------------------------------------------------------------
(* The video's segments are groups of pictures *)

\* A sample outside the payload
IsLost(e, off, available, j) ==
    e[j].offset < off \/ e[j].offset + e[j].size > off + available
\* No key frame between two samples
Mates(e, i, j) ==
    \A k \in 2..Len(e) : (i < k /\ k <= j) \/ (j < k /\ k <= i) => ~e[k].is_keyframe
\* Sample i is in group g
In(g, i) == i \in g.first .. g.last

\* The samples fall into groups of pictures: disjoint, in order and all of them
Grouped(e, gs) ==
    /\ IsSeq(gs) /\ TypedEntries(e)
    /\ \A k \in 1..Len(gs) : IsGop(e, gs[k])
    /\ \A k \in 1..Len(gs), l \in 1..Len(gs) : k < l => gs[k].last < gs[l].first
    /\ \A j \in 1..Len(e) : \E k \in 1..Len(gs) : In(gs[k], j)

\* The loop's groups do
LEMMA GopsGrouped ==
    ASSUME NEW e, TypedEntries(e)
    PROVE  Grouped(e, Gops(e))
  <1> DEFINE gs == Gops(e)
  <1>1. GopInv(e, gs, Len(e) + 1, Len(e))
    BY GopGroups
  <1>2. Len(e) \in Nat
    BY SeqFacts DEF TypedEntries
  <1>3. (Len(e) + 1) - 1 = Len(e)
    BY <1>2
  <1> HIDE DEF gs
  <1>4. Grouped(e, gs)
    BY <1>1, <1>3 DEF GopInv, Grouped, In
  <1> QED
    BY <1>4 DEF gs

\* A sample is in one group only
LEMMA OneGop ==
    ASSUME NEW e, NEW gs, Grouped(e, gs), NEW k \in 1..Len(gs), NEW l \in 1..Len(gs),
           NEW i \in 1..Len(e), In(gs[k], i), In(gs[l], i)
    PROVE  k = l
  <1>1. Len(gs) \in Nat /\ Len(e) \in Nat
    BY SeqFacts DEF Grouped, TypedEntries
  <1>2. /\ gs[k].first \in 1..Len(e) /\ gs[k].last \in gs[k].first .. Len(e)
        /\ gs[l].first \in 1..Len(e) /\ gs[l].last \in gs[l].first .. Len(e)
    BY DEF Grouped, IsGop
  <1>3. ~(gs[k].last < gs[l].first) /\ ~(gs[l].last < gs[k].first)
    BY <1>1, <1>2 DEF In
  <1> QED
    BY <1>1, <1>3 DEF Grouped

\* Samples of one group, and only those, have no key frame between them
LEMMA MatesInOneGop ==
    ASSUME NEW e, NEW gs, Grouped(e, gs), NEW k \in 1..Len(gs), NEW l \in 1..Len(gs),
           NEW i \in 1..Len(e), NEW j \in 1..Len(e), In(gs[k], i), In(gs[l], j)
    PROVE  Mates(e, i, j) <=> k = l
  <1> DEFINE N == Len(e)
             G == gs[k]
             H == gs[l]
  <1>1. Len(gs) \in Nat /\ N \in Nat
    BY SeqFacts DEF Grouped, TypedEntries
  <1>2. /\ G.first \in 1..N /\ G.last \in G.first .. N
        /\ H.first \in 1..N /\ H.last \in H.first .. N
        /\ G.first = 1 \/ e[G.first].is_keyframe
        /\ H.first = 1 \/ e[H.first].is_keyframe
        /\ \A x \in G.first + 1 .. G.last : ~e[x].is_keyframe
    BY DEF Grouped, IsGop
  <1>3. /\ k < l => G.last < H.first
        /\ l < k => H.last < G.first
    BY DEF Grouped
  <1>4. i \in G.first .. G.last /\ j \in H.first .. H.last
    BY DEF In
  <1> HIDE DEF N
  <1>5. CASE k = l
    <2>1. G = H
      BY <1>5
    <2> HIDE DEF G, H
    <2>2. ASSUME NEW x \in 2..N, (i < x /\ x <= j) \/ (j < x /\ x <= i) PROVE ~e[x].is_keyframe
      <3>1. x \in G.first + 1 .. G.last
        BY <1>1, <1>2, <1>4, <2>1, <2>2
      <3> QED
        BY <1>2, <3>1
    <2> QED
      BY <1>5, <2>2 DEF Mates, N
  <1>6. CASE k < l
    <2> HIDE DEF G, H
    <2>1. H.first \in 2..N /\ i < H.first /\ H.first <= j /\ H.first # 1
      BY <1>1, <1>2, <1>3, <1>4, <1>6
    <2>2. ~Mates(e, i, j)
      BY <1>2, <2>1 DEF Mates, N
    <2>3. k # l
      BY <1>1, <1>6
    <2> QED
      BY <2>2, <2>3
  <1>7. CASE l < k
    <2> HIDE DEF G, H
    <2>1. G.first \in 2..N /\ j < G.first /\ G.first <= i /\ G.first # 1
      BY <1>1, <1>2, <1>3, <1>4, <1>7
    <2>2. ~Mates(e, i, j)
      BY <1>2, <2>1 DEF Mates, N
    <2>3. k # l
      BY <1>1, <1>7
    <2> QED
      BY <2>2, <2>3
  <1> QED
    BY <1>1, <1>5, <1>6, <1>7

\* A group does not fit exactly when one of its samples is lost
LEMMA FitsOrLost ==
    ASSUME NEW e, NEW gs, Grouped(e, gs), NEW k \in 1..Len(gs), NEW off \in Nat, NEW available \in Nat
    PROVE  Fits(e, gs, off, available, k) <=> ~(\E j \in 1..Len(e) : In(gs[k], j) /\ IsLost(e, off, available, j))
  <1> DEFINE G == gs[k]
             N == Len(e)
  <1>1. N \in Nat /\ \A j \in 1..N : e[j].offset \in Nat /\ e[j].size \in Nat
    BY SeqFacts DEF Grouped, TypedEntries
  <1>2. G.first \in 1..N /\ G.last \in G.first .. N
    BY DEF Grouped, IsGop
  <1>3. Fits(e, gs, off, available, k) <=>
            \A j \in G.first .. G.last : e[j].offset >= off /\ e[j].offset - off + e[j].size <= available
    BY DEF Fits, GroupFits
  <1> HIDE DEF N
  <1>4. \A j \in 1..N : (e[j].offset >= off /\ e[j].offset - off + e[j].size <= available)
                            <=> ~IsLost(e, off, available, j)
    BY <1>1 DEF IsLost
  <1>5. \A j \in G.first .. G.last : j \in 1..N
    BY <1>1, <1>2
  <1>6. \A j : In(G, j) <=> j \in G.first .. G.last
    BY DEF In
  <1> HIDE DEF G
  <1>7. Fits(e, gs, off, available, k) <=> ~(\E j \in 1..N : In(G, j) /\ IsLost(e, off, available, j))
    BY <1>3, <1>4, <1>5, <1>6
  <1> QED
    BY <1>7 DEF G, N

\* The segments of a block that has one for every group that fits
GopBlock(ms, id, v, a, e, gs, off, available, at) ==
    /\ IsBlock(ms, id, v, a) /\ Grouped(e, gs) /\ off \in Nat /\ available \in Nat
    /\ Sampled(v, e, gs, off, available, at, Len(gs))

\* Its segments are groups of pictures ...
LEMMA BlockOfGops ==
    ASSUME NEW ms, NEW id, NEW v, NEW a, NEW e, NEW gs, NEW off, NEW available, NEW at,
           GopBlock(ms, id, v, a, e, gs, off, available, at)
    PROVE  AreGops(ms, OfTrack(ms, id), e)
  <1> DEFINE n == Len(v)
             N == Len(e)
             P == OfTrack(ms, id)
  <1>1. /\ n \in Nat /\ a \in Nat /\ P = a + 1 .. a + n
        /\ \A p \in 1..n : ms[a + p] = v[p]
    BY SeqFacts DEF GopBlock, IsBlock
  <1>2. /\ at \in [1..n -> 1..Len(gs)]
        /\ \A p \in 1..n : v[p].samples = gs[at[p]].first .. gs[at[p]].last
        /\ \A p \in 1..n, q \in 1..n : p < q => at[p] < at[q]
    BY DEF GopBlock, Sampled
  <1>3. /\ N \in Nat /\ Len(gs) \in Nat
        /\ \A k \in 1..Len(gs) : IsGop(e, gs[k])
        /\ \A k \in 1..Len(gs), l \in 1..Len(gs) : k < l => gs[k].last < gs[l].first
    BY SeqFacts DEF GopBlock, Grouped, TypedEntries
  <1> HIDE DEF n, P
  <1>4. ASSUME NEW p \in P
        PROVE  \E x, y \in 1..N :
                  /\ x <= y /\ ms[p].samples = x .. y
                  /\ x = 1 \/ e[x].is_keyframe
                  /\ \A i \in x + 1 .. y : ~e[i].is_keyframe
                  /\ \A q \in P : q < p => \A i \in ms[q].samples : i < x
    <2> DEFINE k == p - a
               x == gs[at[k]].first
               y == gs[at[k]].last
    <2>1. k \in 1..n /\ a + k = p
      BY <1>1
    <2>2. at[k] \in 1..Len(gs) /\ ms[p] = v[k] /\ v[k].samples = x .. y
      BY <1>1, <1>2, <2>1
    <2>3. /\ x \in 1..N /\ y \in x .. N /\ (x = 1 \/ e[x].is_keyframe)
          /\ \A i \in x + 1 .. y : ~e[i].is_keyframe
      BY <1>3, <2>2 DEF IsGop
    <2>4. ASSUME NEW q \in P, q < p, NEW i \in ms[q].samples PROVE i < x
      <3> DEFINE l == q - a
                 z == gs[at[l]].last
      <3>1. l \in 1..n /\ a + l = q /\ l < k
        BY <1>1, <2>1, <2>4
      <3>2. at[l] < at[k] /\ at[l] \in 1..Len(gs) /\ ms[q].samples = gs[at[l]].first .. z
        BY <1>1, <1>2, <2>1, <3>1
      <3>3. z < x
        BY <1>3, <2>2, <3>2
      <3>4. gs[at[l]].first \in 1..N /\ z \in gs[at[l]].first .. N
        BY <1>3, <3>2 DEF IsGop
      <3> HIDE DEF z, l, x
      <3> QED
        BY <1>3, <2>3, <2>4, <3>2, <3>3, <3>4
    <2> HIDE DEF x, y
    <2>5. y \in 1..N /\ x <= y
      BY <1>3, <2>3
    <2> QED
      BY <2>2, <2>3, <2>4, <2>5
  <1> QED
    BY <1>4 DEF AreGops, N, P

\* ... and leave out the groups with a lost sample, whole
LEMMA LeftOut ==
    ASSUME NEW ms, NEW id, NEW v, NEW a, NEW e, NEW gs, NEW off, NEW available, NEW at,
           GopBlock(ms, id, v, a, e, gs, off, available, at), NEW i \in 1..Len(e)
    PROVE  (\A p \in OfTrack(ms, id) : i \notin ms[p].samples)
               <=> \E j \in 1..Len(e) : IsLost(e, off, available, j) /\ Mates(e, i, j)
  <1> DEFINE n == Len(v)
             N == Len(e)
             P == OfTrack(ms, id)
  <1>1. /\ n \in Nat /\ a \in Nat /\ P = a + 1 .. a + n
        /\ \A p \in 1..n : ms[a + p] = v[p]
    BY SeqFacts DEF GopBlock, IsBlock
  <1>2. /\ at \in [1..n -> 1..Len(gs)]
        /\ \A p \in 1..n : v[p].samples = gs[at[p]].first .. gs[at[p]].last /\ Fits(e, gs, off, available, at[p])
        /\ \A m \in 1..Len(gs) : Fits(e, gs, off, available, m) => \E p \in 1..n : at[p] = m
    BY DEF GopBlock, Sampled
  <1>3. Grouped(e, gs) /\ off \in Nat /\ available \in Nat
    BY DEF GopBlock
  <1>4. PICK k \in 1..Len(gs) : In(gs[k], i)
    BY <1>3 DEF Grouped
  <1> HIDE DEF n, P
  <1>5. (\A p \in P : i \notin ms[p].samples) <=> ~Fits(e, gs, off, available, k)
    <2>1. ASSUME Fits(e, gs, off, available, k) PROVE \E p \in P : i \in ms[p].samples
      <3>1. PICK p \in 1..n : at[p] = k
        BY <1>2, <2>1
      <3>2. a + p \in P /\ ms[a + p] = v[p]
        BY <1>1, <3>1
      <3>3. i \in v[p].samples
        BY <1>2, <1>4, <3>1 DEF In
      <3> QED
        BY <3>2, <3>3
    <2>2. ASSUME NEW p \in P, i \in ms[p].samples PROVE Fits(e, gs, off, available, k)
      <3> DEFINE q == p - a
      <3>1. q \in 1..n /\ a + q = p
        BY <1>1
      <3> HIDE DEF q
      <3>2. at[q] \in 1..Len(gs) /\ ms[p] = v[q] /\ v[q].samples = gs[at[q]].first .. gs[at[q]].last
        BY <1>1, <1>2, <3>1
      <3>3. In(gs[at[q]], i)
        BY <2>2, <3>2 DEF In
      <3>4. at[q] = k
        BY <1>3, <1>4, <3>2, <3>3, OneGop
      <3> QED
        BY <1>2, <3>1, <3>4
    <2> QED
      BY <2>1, <2>2
  <1>6. ~Fits(e, gs, off, available, k) <=> \E j \in 1..N : In(gs[k], j) /\ IsLost(e, off, available, j)
    BY <1>3, FitsOrLost
  <1>7. \A j \in 1..N : In(gs[k], j) <=> Mates(e, i, j)
    <2> TAKE j \in 1..N
    <2>1. PICK l \in 1..Len(gs) : In(gs[l], j)
      BY <1>3 DEF Grouped
    <2>2. Mates(e, i, j) <=> k = l
      BY <1>3, <1>4, <2>1, MatesInOneGop
    <2>3. In(gs[k], j) => k = l
      BY <1>3, <2>1, OneGop
    <2> QED
      BY <2>1, <2>2, <2>3
  <1> QED
    BY <1>5, <1>6, <1>7 DEF P

\* For any regular file whose tracks have distinct ids: the video's segments are groups of
\* pictures in order, and a sample is left out exactly when a sample of its group lies
\* outside the payload (the loops of create_fragments_from_regular_mp4).
THEOREM SegmentsAlwaysGops == ParserSpec => []SegmentsAreGops
  <1>1. ParserInv => SegmentsAreGops
    <2> SUFFICES ASSUME ParserInv, Regular, DistinctIds, Places("mdat") # {}, LastBox("mdat").bytes > 0,
                        NEW track \in TabledTrack("vide"), NEW e, e = resolve_sample_offsets(track.sample_table[1])
                 PROVE  /\ AreGops(mse, OfTrack(mse, track.track_id), e)
                        /\ \A i \in 1..Len(e) :
                             (\A p \in OfTrack(mse, track.track_id) : i \notin mse[p].samples)
                                 <=> \E j \in 1..Len(e) :
                                        IsLost(e, mdat_payload_offset, LastBox("mdat").bytes, j) /\ Mates(e, i, j)
      BY DEF SegmentsAreGops, IsLost, Mates
    <2> DEFINE id == track.track_id
               off == mdat_payload_offset
               video == FirstTrack(tracks, "vide")
               gs == Gops(e)
    <2>1. FileInv /\ Composed(mse)
      BY DEF ParserInv
    <2>2. PICK init, v, a : Parts(mse, tracks, off, Payload, init, v, a)
      BY <2>1 DEF Composed
    <2>3. Payload = LastBox("mdat").bytes /\ Payload \in Nat /\ Payload > 0
      BY <2>1, PayloadNat DEF Payload
    <2>4. Tabled(video) /\ video[1] = track /\ \E m : TrackAt(video, "vide", m)
      BY <2>1, TabledFound
    <2>5. IsBlock(mse, id, v, Len(init))
      BY <2>1, <2>2, VideoBlock
    <2>6. TypedEntries(e)
      <3>1. track.sample_table[1] \in SampleTables
        BY <2>4 DEF TrackAt, Tabled
      <3> QED
        BY <3>1, Resolved
    <2>7. PICK at : Sampled(v, e, gs, off, Payload, at, Len(gs))
      BY <2>2, <2>3, <2>4 DEF Parts
    <2>8. Grouped(e, gs)
      BY <2>6, GopsGrouped
    <2>9. off \in Nat
      BY <2>1 DEF FileInv
    <2> DEFINE b == Len(init)
               avail == Payload
    <2>10. GopBlock(mse, id, v, b, e, gs, off, avail, at)
      BY <2>3, <2>5, <2>7, <2>8, <2>9 DEF GopBlock
    <2> HIDE DEF id, gs, b, off, avail
    <2>11. AreGops(mse, OfTrack(mse, id), e)
      BY <2>10, BlockOfGops
    <2>12. \A i \in 1..Len(e) : (\A p \in OfTrack(mse, id) : i \notin mse[p].samples)
               <=> \E j \in 1..Len(e) : IsLost(e, off, avail, j) /\ Mates(e, i, j)
      BY <2>10, LeftOut
    <2> QED
      BY <2>3, <2>11, <2>12 DEF id, off, avail
  <1> QED
    BY <1>1, ParserInvariant, PTL

-----------------------------------------------------------------------------
(* Keeping some of a sequence *)

\* One step of the sieve
Sift(g, s, T, i) == IF s[i] \in T THEN Append(g[i - 1], s[i]) ELSE g[i - 1]

IsSieve(g, s, T, n) == g = [i \in 0 .. n |-> IF i = 0 THEN <<>> ELSE Sift(g, s, T, i)]

\* The recursion of the sieve
LEMMA SieveExists ==
    ASSUME NEW s, NEW T, NEW n \in Nat
    PROVE  \E g : IsSieve(g, s, T, n)
  <1> DEFINE P == {k \in Nat : \E g : IsSieve(g, s, T, k)}
  <1>1. 0 \in P
    <2> DEFINE g == [i \in 0 .. 0 |-> <<>>]
    <2>1. g = [i \in 0 .. 0 |-> IF i = 0 THEN <<>> ELSE Sift(g, s, T, i)]
      OBVIOUS
    <2> QED
      BY <2>1 DEF IsSieve
  <1>2. ASSUME NEW k \in P PROVE k + 1 \in P
    <2>1. k \in Nat
      OBVIOUS
    <2>2. PICK g : IsSieve(g, s, T, k)
      OBVIOUS
    <2> DEFINE last == Sift(g, s, T, k + 1)
               h == [i \in 0 .. k + 1 |-> IF i = k + 1 THEN last ELSE g[i]]
    <2>3. \A i \in 0 .. k : g[i] = IF i = 0 THEN <<>> ELSE Sift(g, s, T, i)
      BY <2>2 DEF IsSieve
    <2>4. \A i \in 0 .. k : h[i] = g[i]
      BY <2>1
    <2>5. \A i \in 1 .. k + 1 : Sift(h, s, T, i) = Sift(g, s, T, i)
      <3> TAKE i \in 1 .. k + 1
      <3>1. i - 1 \in 0 .. k
        BY <2>1
      <3>2. h[i - 1] = g[i - 1]
        BY <3>1, <2>4
      <3> QED
        BY <3>2 DEF Sift
    <2>6. h[k + 1] = last
      BY <2>1
    <2>7. ASSUME NEW i \in 0 .. k + 1
          PROVE  h[i] = IF i = 0 THEN <<>> ELSE Sift(h, s, T, i)
      <3>1. CASE i = k + 1
        <4>1. i # 0 /\ i \in 1 .. k + 1
          BY <2>1, <3>1
        <4> HIDE DEF h
        <4> QED
          BY <2>5, <2>6, <3>1, <4>1
      <3>2. CASE i # k + 1
        <4>1. i \in 0 .. k /\ (i = 0 \/ i \in 1 .. k + 1)
          BY <2>1, <3>2
        <4> HIDE DEF h
        <4> QED
          BY <2>3, <2>4, <2>5, <4>1
      <3> QED
        BY <3>1, <3>2
    <2>8. h = [i \in 0 .. k + 1 |-> h[i]]
      OBVIOUS
    <2> HIDE DEF h
    <2>9. IsSieve(h, s, T, k + 1)
      BY <2>7, <2>8 DEF IsSieve
    <2> QED
      BY <2>1, <2>9
  <1> HIDE DEF P
  <1>3. P \subseteq Nat
    BY DEF P
  <1>4. P = Nat
    BY <1>1, <1>2, <1>3, NatSets
  <1> QED
    BY <1>4 DEF P

\* The sieve, round by round
LEMMA SieveRecursion ==
    ASSUME NEW s, IsSeq(s), NEW T
    PROVE  /\ Sieve(s, T)[0] = <<>>
           /\ \A i \in 1..Len(s) : Sieve(s, T)[i] =
                 IF s[i] \in T THEN Append(Sieve(s, T)[i - 1], s[i]) ELSE Sieve(s, T)[i - 1]
  <1> DEFINE n == Len(s)
             f == Sieve(s, T)
  <1>0. n \in Nat
    BY SeqFacts
  <1>1. \E g : IsSieve(g, s, T, n)
    <2> HIDE DEF n
    <2> QED
      BY <1>0, SieveExists
  <1>2. f = CHOOSE g : IsSieve(g, s, T, n)
    BY Zenon DEF Sieve, IsSieve, Sift
  <1> HIDE DEF f, n
  <1>3. IsSieve(f, s, T, n)
    BY <1>1, <1>2, Zenon
  <1>4. \A i \in 0..n : f[i] = IF i = 0 THEN <<>> ELSE Sift(f, s, T, i)
    BY <1>3 DEF IsSieve
  <1>5. f[0] = <<>> /\ \A i \in 1..n : f[i] = Sift(f, s, T, i)
    BY <1>0, <1>4
  <1> QED
    BY <1>5 DEF Sift, f, n

\* Two sequences with the same elements in the same places
LEMMA SameSeq ==
    ASSUME NEW s, NEW r, IsSeq(s), IsSeq(r), Len(s) = Len(r), \A i \in 1..Len(s) : s[i] = r[i]
    PROVE  s = r
  <1> DEFINE X == ToSet(s) \cup ToSet(r)
  <1>1. s \in Seq(ToSet(s)) /\ r \in Seq(ToSet(r))
    BY DEF IsSeq
  <1>2. s = [i \in 1..Len(s) |-> s[i]] /\ r = [i \in 1..Len(r) |-> r[i]]
    <2> DEFINE A == ToSet(s)
               B == ToSet(r)
    <2>1. s \in Seq(A) /\ r \in Seq(B)
      BY <1>1
    <2> HIDE DEF A, B
    <2> QED
      BY <2>1
  <1> QED
    BY <1>2

\* What has been kept so far: the elements so far that are in T
Firsts(s, n) == {s[i] : i \in 1..n}

\* After every round it has kept exactly what is in T of what it has seen
LEMMA SieveSeq ==
    ASSUME NEW s, IsSeq(s), NEW T, NEW n \in 0..Len(s)
    PROVE  /\ IsSeq(Sieve(s, T)[n])
           /\ ToSet(Sieve(s, T)[n]) = Firsts(s, n) \cap T
  <1> DEFINE m == Len(s)
             f == Sieve(s, T)
             Kept(k) == {s[i] : i \in 1..k} \cap T
             P == {k \in 0..m : IsSeq(f[k]) /\ ToSet(f[k]) = Kept(k)}
  <1>0. m \in Nat
    BY SeqFacts
  <1>1. f[0] = <<>> /\ \A i \in 1..m : f[i] = IF s[i] \in T THEN Append(f[i - 1], s[i]) ELSE f[i - 1]
    BY SieveRecursion
  <1> HIDE DEF f, m
  <1>2. 0 \in P
    <2>1. Kept(0) = {}
      OBVIOUS
    <2> QED
      BY <1>0, <1>1, <2>1, NoneSeq
  <1>3. ASSUME NEW k \in 0 .. m - 1, k \in P PROVE k + 1 \in P
    <2>1. k + 1 \in 1..m /\ (k + 1) - 1 = k /\ k + 1 \in 0..m /\ 1 .. k + 1 = 1..k \cup {k + 1}
      BY <1>0
    <2>2. f[k + 1] = IF s[k + 1] \in T THEN Append(f[k], s[k + 1]) ELSE f[k]
      BY <1>1, <2>1
    <2>3. Kept(k + 1) = IF s[k + 1] \in T THEN Kept(k) \cup {s[k + 1]} ELSE Kept(k)
      BY <2>1
    <2>4. IsSeq(f[k]) /\ ToSet(f[k]) = Kept(k)
      BY <1>3
    <2> HIDE DEF Kept
    <2>5. CASE s[k + 1] \in T
      <3>1. Appended(f[k + 1], f[k], s[k + 1])
        BY <2>2, <2>5 DEF Appended
      <3>2. IsSeq(f[k + 1]) /\ ToSet(f[k + 1]) = ToSet(f[k]) \cup {s[k + 1]}
        BY <2>4, <3>1, Appending
      <3> QED
        BY <2>1, <2>3, <2>4, <2>5, <3>2
    <2>6. CASE s[k + 1] \notin T
      BY <2>1, <2>2, <2>3, <2>4, <2>6
    <2> QED
      BY <2>5, <2>6
  <1>4. \A k \in 0..m : k \in P
    <2> HIDE DEF P
    <2> QED
      BY <1>0, <1>2, <1>3, UpTo
  <1>5. n \in 0..m
    BY DEF m
  <1> QED
    BY <1>4, <1>5 DEF f, Firsts

\* What is kept in the end
LEMMA SiftedSeq ==
    ASSUME NEW s, IsSeq(s), NEW T
    PROVE  /\ IsSeq(Sifted(s, T)) /\ ToSet(Sifted(s, T)) = ToSet(s) \cap T
           /\ \A i \in 1..Len(Sifted(s, T)) : Sifted(s, T)[i] \in ToSet(s) \cap T
  <1>1. Len(s) \in 0..Len(s) /\ DOMAIN s = 1..Len(s)
    BY SeqFacts
  <1>2. ToSet(s) = {s[i] : i \in 1..Len(s)}
    BY <1>1 DEF ToSet
  <1>3. IsSeq(Sifted(s, T)) /\ ToSet(Sifted(s, T)) = ToSet(s) \cap T
    <2> DEFINE n == Len(s)
    <2>1. IsSeq(Sieve(s, T)[n]) /\ ToSet(Sieve(s, T)[n]) = Firsts(s, n) \cap T
      <3>1. n \in 0..Len(s)
        BY <1>1
      <3> HIDE DEF n
      <3> QED
        BY <3>1, SieveSeq
    <2> QED
      BY <1>2, <2>1 DEF Sifted, Firsts
  <1> QED
    BY <1>3, SeqFacts

\* Sequences that agree in their first places are sifted alike there
LEMMA SievePrefix ==
    ASSUME NEW s, IsSeq(s), NEW r, IsSeq(r), NEW T,
           NEW n \in Nat, n <= Len(s), n <= Len(r), \A i \in 1..n : s[i] = r[i]
    PROVE  Sieve(s, T)[n] = Sieve(r, T)[n]
  <1> DEFINE f == Sieve(s, T)
             g == Sieve(r, T)
             P == {k \in 0..n : f[k] = g[k]}
  <1>0. Len(s) \in Nat /\ Len(r) \in Nat
    BY SeqFacts
  <1>1. f[0] = <<>> /\ \A i \in 1..Len(s) : f[i] = IF s[i] \in T THEN Append(f[i - 1], s[i]) ELSE f[i - 1]
    BY SieveRecursion
  <1>2. g[0] = <<>> /\ \A i \in 1..Len(r) : g[i] = IF r[i] \in T THEN Append(g[i - 1], r[i]) ELSE g[i - 1]
    BY SieveRecursion
  <1> HIDE DEF f, g
  <1>3. 0 \in P
    BY <1>1, <1>2
  <1>4. ASSUME NEW k \in 0 .. n - 1, k \in P PROVE k + 1 \in P
    <2>1. /\ k + 1 \in 1..n /\ (k + 1) - 1 = k /\ k + 1 \in 0..n
          /\ k + 1 \in 1..Len(s) /\ k + 1 \in 1..Len(r)
      BY <1>0
    <2>2. f[k + 1] = IF s[k + 1] \in T THEN Append(f[k], s[k + 1]) ELSE f[k]
      BY <1>1, <2>1
    <2>3. g[k + 1] = IF r[k + 1] \in T THEN Append(g[k], r[k + 1]) ELSE g[k]
      BY <1>2, <2>1
    <2>4. s[k + 1] = r[k + 1] /\ f[k] = g[k]
      BY <1>4, <2>1
    <2> QED
      BY <2>1, <2>2, <2>3, <2>4
  <1>5. \A k \in 0..n : k \in P
    <2> HIDE DEF P
    <2> QED
      BY <1>3, <1>4, UpTo
  <1>6. n \in 0..n
    OBVIOUS
  <1> QED
    BY <1>5, <1>6 DEF f, g

\* One more element is kept or not
LEMMA SiftedAppend ==
    ASSUME NEW p, IsSeq(p), NEW x, NEW q, Appended(q, p, x), NEW T
    PROVE  Sifted(q, T) = IF x \in T THEN Append(Sifted(p, T), x) ELSE Sifted(p, T)
  <1> DEFINE n == Len(p)
  <1>1. /\ IsSeq(q) /\ Len(q) = n + 1 /\ n \in Nat /\ (\A i \in 1..n : q[i] = p[i]) /\ q[n + 1] = x
    BY Appending
  <1>2. n <= Len(q) /\ n <= Len(p) /\ n + 1 \in 1..Len(q) /\ (n + 1) - 1 = n
    BY <1>1
  <1>3. Sieve(q, T)[n] = Sieve(p, T)[n]
    BY <1>1, <1>2, SievePrefix
  <1>4. Sieve(q, T)[n + 1] = IF q[n + 1] \in T THEN Append(Sieve(q, T)[n], q[n + 1]) ELSE Sieve(q, T)[n]
    <2> HIDE DEF n
    <2> QED
      BY <1>1, <1>2, SieveRecursion
  <1> QED
    BY <1>1, <1>3, <1>4 DEF Sifted

\* Sifting twice
LEMMA SiftedTwice ==
    ASSUME NEW s, IsSeq(s), NEW T, NEW U
    PROVE  Sifted(Sifted(s, T), U) = Sifted(s, T \cap U)
  <1> DEFINE m == Len(s)
             f == Sieve(s, T)
             g == Sieve(s, T \cap U)
             P == {k \in 0..m : Sifted(f[k], U) = g[k]}
  <1>0. m \in Nat
    BY SeqFacts
  <1>1. f[0] = <<>> /\ \A i \in 1..m : f[i] = IF s[i] \in T THEN Append(f[i - 1], s[i]) ELSE f[i - 1]
    BY SieveRecursion
  <1>2. /\ g[0] = <<>>
        /\ \A i \in 1..m : g[i] = IF s[i] \in T \cap U THEN Append(g[i - 1], s[i]) ELSE g[i - 1]
    <2> DEFINE V == T \cap U
    <2> HIDE DEF V
    <2>1. /\ Sieve(s, V)[0] = <<>>
          /\ \A i \in 1..m : Sieve(s, V)[i] = IF s[i] \in V THEN Append(Sieve(s, V)[i - 1], s[i])
                                              ELSE Sieve(s, V)[i - 1]
      BY SieveRecursion
    <2> QED
      BY <2>1 DEF V
  <1>3. \A k \in 0..m : IsSeq(f[k])
    BY SieveSeq
  <1> HIDE DEF f, g, m
  <1>4. 0 \in P
    <2> DEFINE e == f[0]
    <2>1. e = <<>>
      BY <1>1
    <2>2. IsSeq(e) /\ Len(e) = 0
      BY <2>1, NoneSeq
    <2> HIDE DEF e
    <2>3. Sieve(e, U)[0] = <<>>
      BY <2>2, SieveRecursion
    <2>4. Sifted(e, U) = <<>>
      BY <2>2, <2>3 DEF Sifted
    <2> QED
      BY <1>0, <1>2, <2>4 DEF e
  <1>5. ASSUME NEW k \in 0 .. m - 1, k \in P PROVE k + 1 \in P
    <2>1. k + 1 \in 1..m /\ (k + 1) - 1 = k /\ k + 1 \in 0..m /\ k \in 0..m
      BY <1>0
    <2>2. f[k + 1] = IF s[k + 1] \in T THEN Append(f[k], s[k + 1]) ELSE f[k]
      BY <1>1, <2>1
    <2>3. g[k + 1] = IF s[k + 1] \in T \cap U THEN Append(g[k], s[k + 1]) ELSE g[k]
      BY <1>2, <2>1
    <2>4. Sifted(f[k], U) = g[k] /\ IsSeq(f[k])
      BY <1>3, <1>5, <2>1
    <2>5. CASE s[k + 1] \in T
      <3>1. Appended(f[k + 1], f[k], s[k + 1])
        BY <2>2, <2>5 DEF Appended
      <3>2. Sifted(f[k + 1], U) = IF s[k + 1] \in U THEN Append(Sifted(f[k], U), s[k + 1])
                                  ELSE Sifted(f[k], U)
        <4> DEFINE a == f[k]
                   b == f[k + 1]
                   x == s[k + 1]
        <4>1. IsSeq(a) /\ Appended(b, a, x)
          BY <2>4, <3>1
        <4> HIDE DEF a, b, x
        <4>2. Sifted(b, U) = IF x \in U THEN Append(Sifted(a, U), x) ELSE Sifted(a, U)
          BY <4>1, SiftedAppend
        <4> QED
          BY <4>2 DEF a, b, x
      <3> QED
        BY <2>1, <2>3, <2>4, <2>5, <3>2
    <2>6. CASE s[k + 1] \notin T
      BY <2>1, <2>2, <2>3, <2>4, <2>6
    <2> QED
      BY <2>5, <2>6
  <1>6. \A k \in 0..m : k \in P
    <2> HIDE DEF P
    <2> QED
      BY <1>0, <1>4, <1>5, UpTo
  <1>7. Sifted(f[m], U) = g[m]
    BY <1>0, <1>6
  <1> QED
    BY <1>7 DEF Sifted, f, g, m

\* p followed by r and one more
LEMMA ConcatAppend ==
    ASSUME NEW p, IsSeq(p), NEW r, IsSeq(r), NEW x
    PROVE  Append(p \o r, x) = p \o Append(r, x)
  <1> DEFINE A == ToSet(p)
             B == ToSet(r)
             X == A \cup B \cup {x}
  <1>1. p \in Seq(A) /\ r \in Seq(B)
    BY DEF IsSeq
  <1> HIDE DEF A, B
  <1>2. p \in Seq(X) /\ r \in Seq(X) /\ x \in X
    BY <1>1
  <1> HIDE DEF X
  <1> DEFINE a == Append(p \o r, x)
             b == p \o Append(r, x)
  <1>3. a \in Seq(X) /\ b \in Seq(X)
    BY <1>2
  <1>4. Len(a) = Len(b) /\ Len(a) \in Nat
    BY <1>2
  <1>5. \A i \in 1..Len(a) : a[i] = b[i]
    BY <1>2
  <1> HIDE DEF a, b
  <1>6. a = b
    <2>1. IsSeq(a) /\ IsSeq(b)
      BY <1>3, InSeq
    <2> QED
      BY <1>4, <1>5, <2>1, SameSeq
  <1> QED
    BY <1>6 DEF a, b

\* Sifting a concatenation
LEMMA SiftedConcat ==
    ASSUME NEW p, NEW r, NEW q, NEW T, IsConcat(q, p, r, Len(p), Len(r))
    PROVE  Sifted(q, T) = Sifted(p, T) \o Sifted(r, T)
  <1> DEFINE n == Len(p)
             m == Len(r)
             f == Sieve(q, T)
             g == Sieve(r, T)
             a == Sifted(p, T)
             P == {k \in 0..m : f[n + k] = a \o g[k]}
  <1>0. /\ IsSeq(p) /\ IsSeq(r) /\ IsSeq(q) /\ n \in Nat /\ m \in Nat /\ Len(q) = n + m
        /\ (\A i \in 1..n : q[i] = p[i]) /\ \A j \in 1..m : q[n + j] = r[j]
    <2>1. IsConcat(q, p, r, n, m)
      OBVIOUS
    <2>2. IsSeq(p) /\ IsSeq(r)
      BY DEF IsConcat
    <2> HIDE DEF n, m
    <2> QED
      BY <2>1, <2>2, Joining
  <1>1. \A i \in 1..Len(q) : f[i] = IF q[i] \in T THEN Append(f[i - 1], q[i]) ELSE f[i - 1]
    BY <1>0, SieveRecursion
  <1>2. g[0] = <<>> /\ \A i \in 1..m : g[i] = IF r[i] \in T THEN Append(g[i - 1], r[i]) ELSE g[i - 1]
    BY <1>0, SieveRecursion
  <1>3. f[n] = a
    <2>1. n <= Len(q) /\ n <= Len(p)
      BY <1>0
    <2>2. Sieve(q, T)[n] = Sieve(p, T)[n]
      <3> HIDE DEF n
      <3> QED
        BY <1>0, <2>1, SievePrefix
    <2> QED
      BY <2>2 DEF Sifted
  <1>4. IsSeq(a)
    BY <1>0, SiftedSeq
  <1>5. \A k \in 0..m : IsSeq(g[k])
    BY <1>0, SieveSeq
  <1> HIDE DEF f, g, a, n, m
  <1>6. 0 \in P
    <2> DEFINE A == ToSet(a)
    <2>1. a \in Seq(A)
      BY <1>4 DEF IsSeq
    <2> HIDE DEF A
    <2>2. a \o <<>> = a /\ n + 0 = n /\ 0 \in 0..m
      BY <1>0, <2>1
    <2> DEFINE e == <<>>
    <2>3. g[0] = e /\ a \o e = a
      BY <1>2, <2>2
    <2> HIDE DEF e
    <2>4. f[n + 0] = a \o g[0]
      BY <1>3, <2>2, <2>3
    <2> QED
      BY <2>2, <2>4
  <1>7. ASSUME NEW k \in 0 .. m - 1, k \in P PROVE k + 1 \in P
    <2>1. /\ k + 1 \in 1..m /\ (k + 1) - 1 = k /\ k + 1 \in 0..m /\ k \in 0..m
          /\ n + (k + 1) \in 1..Len(q) /\ (n + (k + 1)) - 1 = n + k
      BY <1>0
    <2>2. g[k + 1] = IF r[k + 1] \in T THEN Append(g[k], r[k + 1]) ELSE g[k]
      BY <1>2, <2>1
    <2>3. f[n + (k + 1)] = IF q[n + (k + 1)] \in T THEN Append(f[n + k], q[n + (k + 1)])
                           ELSE f[n + k]
      BY <1>1, <2>1
    <2>4. q[n + (k + 1)] = r[k + 1]
      BY <1>0, <2>1
    <2>5. f[n + k] = a \o g[k] /\ IsSeq(g[k])
      BY <1>5, <1>7, <2>1
    <2>6. Append(a \o g[k], r[k + 1]) = a \o Append(g[k], r[k + 1])
      <3> DEFINE b == g[k]
                 x == r[k + 1]
      <3>1. IsSeq(b)
        BY <2>5
      <3> HIDE DEF b, x
      <3>2. Append(a \o b, x) = a \o Append(b, x)
        BY <1>4, <3>1, ConcatAppend
      <3> QED
        BY <3>2 DEF b, x
    <2> QED
      BY <2>1, <2>2, <2>3, <2>4, <2>5, <2>6
  <1>8. \A k \in 0..m : k \in P
    <2> HIDE DEF P
    <2> QED
      BY <1>0, <1>6, <1>7, UpTo
  <1>9. f[n + m] = a \o g[m]
    BY <1>0, <1>8
  <1> QED
    BY <1>0, <1>9 DEF Sifted, f, g, a, n, m

\* Two sequences that agree on which places are kept: as many elements are kept, and they
\* are in the relation R, if those in the same place are
LEMMA SiftedAlike ==
    ASSUME NEW s, IsSeq(s), NEW T, NEW r, IsSeq(r), NEW U, NEW R, Len(s) = Len(r),
           \A i \in 1..Len(s) : (s[i] \in T <=> r[i] \in U) /\ (s[i] \in T => <<s[i], r[i]>> \in R)
    PROVE  /\ Len(Sifted(s, T)) = Len(Sifted(r, U))
           /\ \A k \in 1..Len(Sifted(s, T)) : <<Sifted(s, T)[k], Sifted(r, U)[k]>> \in R
  <1> DEFINE m == Len(s)
             f == Sieve(s, T)
             g == Sieve(r, U)
             Alike(a, b) == Len(a) = Len(b) /\ \A i \in 1..Len(a) : <<a[i], b[i]>> \in R
             P == {k \in 0..m : Alike(f[k], g[k])}
  <1>0. m \in Nat /\ Len(r) = m
    BY SeqFacts
  <1>1. f[0] = <<>> /\ \A i \in 1..m : f[i] = IF s[i] \in T THEN Append(f[i - 1], s[i]) ELSE f[i - 1]
    BY SieveRecursion
  <1>2. g[0] = <<>> /\ \A i \in 1..m : g[i] = IF r[i] \in U THEN Append(g[i - 1], r[i]) ELSE g[i - 1]
    BY <1>0, SieveRecursion
  <1>3. \A k \in 0..m : IsSeq(f[k]) /\ IsSeq(g[k])
    BY <1>0, SieveSeq
  <1>4. \A i \in 1..m : (s[i] \in T <=> r[i] \in U) /\ (s[i] \in T => <<s[i], r[i]>> \in R)
    OBVIOUS
  <1> HIDE DEF f, g, m
  <1>5. 0 \in P
    BY <1>0, <1>1, <1>2
  <1>6. ASSUME NEW k \in 0 .. m - 1, k \in P PROVE k + 1 \in P
    <2>1. k + 1 \in 1..m /\ (k + 1) - 1 = k /\ k + 1 \in 0..m /\ k \in 0..m
      BY <1>0
    <2> DEFINE a == f[k]
               b == g[k]
               c == f[k + 1]
               d == g[k + 1]
               x == s[k + 1]
               y == r[k + 1]
    <2>2. c = IF x \in T THEN Append(a, x) ELSE a
      BY <1>1, <2>1
    <2>3. d = IF y \in U THEN Append(b, y) ELSE b
      BY <1>2, <2>1
    <2>4. Alike(a, b) /\ IsSeq(a) /\ IsSeq(b)
      BY <1>3, <1>6, <2>1
    <2>5. (x \in T <=> y \in U) /\ (x \in T => <<x, y>> \in R)
      BY <1>4, <2>1
    <2> HIDE DEF a, b, c, d, x, y
    <2>6. CASE x \in T
      <3>1. Appended(c, a, x) /\ Appended(d, b, y)
        BY <2>2, <2>3, <2>5, <2>6 DEF Appended
      <3>2. /\ Len(c) = Len(a) + 1 /\ Len(a) \in Nat /\ (\A i \in 1..Len(a) : c[i] = a[i])
            /\ c[Len(a) + 1] = x
        BY <2>4, <3>1, Appending
      <3>3. /\ Len(d) = Len(b) + 1 /\ (\A i \in 1..Len(b) : d[i] = b[i]) /\ d[Len(b) + 1] = y
        BY <2>4, <3>1, Appending
      <3>4. ASSUME NEW i \in 1..Len(c) PROVE <<c[i], d[i]>> \in R
        <4>1. i \in 1..Len(a) \/ i = Len(a) + 1
          BY <3>2
        <4> QED
          BY <2>4, <2>5, <2>6, <3>2, <3>3, <4>1
      <3>5. Alike(c, d)
        BY <2>4, <3>2, <3>3, <3>4
      <3> QED
        BY <2>1, <3>5 DEF c, d
    <2>7. CASE x \notin T
      <3>1. Alike(c, d)
        BY <2>2, <2>3, <2>4, <2>5, <2>7
      <3> QED
        BY <2>1, <3>1 DEF c, d
    <2> QED
      BY <2>6, <2>7
  <1>7. \A k \in 0..m : k \in P
    <2> HIDE DEF P
    <2> QED
      BY <1>0, <1>5, <1>6, UpTo
  <1>8. Alike(f[m], g[m])
    BY <1>0, <1>7
  <1> QED
    BY <1>0, <1>8 DEF Sifted, f, g, m

\* Sets that agree on the elements, and sequences that agree on what is kept
LEMMA SiftedSame ==
    ASSUME NEW s, IsSeq(s), NEW T, NEW r, IsSeq(r), NEW U, Len(s) = Len(r),
           \A i \in 1..Len(s) : (s[i] \in T <=> r[i] \in U) /\ (s[i] \in T => s[i] = r[i])
    PROVE  Sifted(s, T) = Sifted(r, U)
  <1> DEFINE R == {<<x, x>> : x \in ToSet(s)}
             a == Sifted(s, T)
             b == Sifted(r, U)
  <1>1. \A i \in 1..Len(s) : s[i] \in ToSet(s)
    BY SeqFacts
  <1>2. \A i \in 1..Len(s) : s[i] \in T => <<s[i], r[i]>> \in R
    BY <1>1
  <1>3. \A x, y : <<x, y>> \in R => x = y
    OBVIOUS
  <1> HIDE DEF R
  <1>4. Len(a) = Len(b) /\ \A k \in 1..Len(a) : <<a[k], b[k]>> \in R
    BY <1>2, SiftedAlike
  <1>5. IsSeq(a) /\ IsSeq(b)
    BY SiftedSeq
  <1> HIDE DEF a, b
  <1>6. a = b
    BY <1>3, <1>4, <1>5, SameSeq
  <1> QED
    BY <1>6 DEF a, b

\* All of it, none of it
LEMMA SiftedEnds ==
    ASSUME NEW s, IsSeq(s), NEW T
    PROVE  /\ ToSet(s) \cap T = {} => Sifted(s, T) = <<>>
           /\ ToSet(s) \subseteq T => Sifted(s, T) = s
  <1> DEFINE m == Len(s)
             f == Sieve(s, T)
  <1>0. m \in Nat /\ (\A i \in 1..m : s[i] \in ToSet(s)) /\ m \in 0..m
    BY SeqFacts
  <1>1. f[0] = <<>> /\ \A i \in 1..m : f[i] = IF s[i] \in T THEN Append(f[i - 1], s[i]) ELSE f[i - 1]
    BY SieveRecursion
  <1>2. \A k \in 0..m : IsSeq(f[k])
    BY SieveSeq
  <1>3. Sifted(s, T) = f[m]
    BY DEF Sifted
  <1> HIDE DEF f, m
  <1>4. ASSUME ToSet(s) \cap T = {} PROVE Sifted(s, T) = <<>>
    <2> DEFINE P == {k \in 0..m : f[k] = <<>>}
    <2>1. 0 \in P
      BY <1>0, <1>1
    <2>2. ASSUME NEW k \in 0 .. m - 1, k \in P PROVE k + 1 \in P
      <3>1. k + 1 \in 1..m /\ (k + 1) - 1 = k /\ k + 1 \in 0..m
        BY <1>0
      <3>2. s[k + 1] \notin T
        BY <1>0, <1>4, <3>1
      <3> QED
        BY <1>1, <2>2, <3>1, <3>2
    <2>3. \A k \in 0..m : k \in P
      <3> HIDE DEF P
      <3> QED
        BY <1>0, <2>1, <2>2, UpTo
    <2> QED
      BY <1>0, <1>3, <2>3
  <1>5. ASSUME ToSet(s) \subseteq T PROVE Sifted(s, T) = s
    <2> DEFINE P == {k \in 0..m : Len(f[k]) = k /\ \A i \in 1..k : f[k][i] = s[i]}
    <2>1. 0 \in P
      BY <1>0, <1>1
    <2>2. ASSUME NEW k \in 0 .. m - 1, k \in P PROVE k + 1 \in P
      <3>1. k + 1 \in 1..m /\ (k + 1) - 1 = k /\ k + 1 \in 0..m /\ k \in 0..m
        BY <1>0
      <3>2. s[k + 1] \in T
        BY <1>0, <1>5, <3>1
      <3> DEFINE a == f[k]
                 c == f[k + 1]
                 x == s[k + 1]
      <3>3. c = Append(a, x)
        BY <1>1, <3>1, <3>2
      <3>4. IsSeq(a) /\ Len(a) = k /\ \A i \in 1..k : a[i] = s[i]
        BY <1>2, <2>2, <3>1
      <3> HIDE DEF a, c
      <3>5. Len(c) = k + 1 /\ (\A i \in 1..k : c[i] = a[i]) /\ c[k + 1] = x
        BY <3>3, <3>4, Appending DEF Appended
      <3>6. ASSUME NEW i \in 1 .. k + 1 PROVE c[i] = s[i]
        <4>1. i \in 1..k \/ i = k + 1
          OBVIOUS
        <4> QED
          BY <3>4, <3>5, <4>1
      <3> QED
        BY <3>1, <3>5, <3>6 DEF c
    <2>3. \A k \in 0..m : k \in P
      <3> HIDE DEF P
      <3> QED
        BY <1>0, <2>1, <2>2, UpTo
    <2>4. Len(f[m]) = m /\ \A i \in 1..m : f[m][i] = s[i]
      BY <1>0, <2>3
    <2> DEFINE a == f[m]
    <2>5. IsSeq(a)
      BY <1>0, <1>2
    <2>6. Len(a) = Len(s) /\ \A i \in 1..Len(a) : a[i] = s[i]
      BY <2>4 DEF m
    <2> HIDE DEF a
    <2>7. a = s
      BY <2>5, <2>6, SameSeq
    <2> QED
      BY <1>3, <2>7 DEF a
  <1> QED
    BY <1>4, <1>5

-----------------------------------------------------------------------------
(* Boxes in a box *)

\* The boxes before the first of the places `bad`
IsUntil(w, kids, bad) ==
    /\ IsSeq(w) /\ Len(w) <= Len(kids)
    /\ \A i \in 1..Len(w) : w[i] = kids[i] /\ i \notin bad
    /\ Len(w) < Len(kids) => Len(w) + 1 \in bad

\* Until returns those boxes
LEMMA UntilFacts ==
    ASSUME NEW kids, IsSeq(kids), NEW bad \in SUBSET (1..Len(kids))
    PROVE  IsUntil(Until(kids, bad), kids, bad) /\ ToSet(Until(kids, bad)) \subseteq ToSet(kids)
  <1> DEFINE n == Len(kids)
             w == Until(kids, bad)
  <1>0. n \in Nat /\ \A i \in 1..n : kids[i] \in ToSet(kids)
    BY SeqFacts
  <1>1. w = IF bad = {} THEN kids ELSE SubSeq(kids, 1, Min(bad) - 1)
    BY DEF Until
  <1>2. CASE bad = {}
    <2>1. w = kids
      BY <1>1, <1>2
    <2> HIDE DEF w
    <2> QED
      BY <1>0, <1>2, <2>1 DEF IsUntil, w
  <1>3. CASE bad # {}
    <2> DEFINE m == Min(bad)
    <2>1. bad \in SUBSET Nat
      BY <1>0
    <2>2. m \in bad /\ \A x \in bad : m <= x
      BY <1>3, <2>1, LeastOf
    <2>3. w = SubSeq(kids, 1, m - 1)
      BY <1>1, <1>3
    <2>4. m \in 1..n /\ m \in bad /\ \A i \in 1 .. m - 1 : i \notin bad
      <3>1. m \in 1..n
        BY <2>2
      <3> HIDE DEF m, n
      <3> QED
        BY <1>0, <2>2, <3>1
    <2> HIDE DEF m
    <2> DEFINE X == ToSet(kids)
    <2>5. kids \in Seq(X)
      BY DEF IsSeq
    <2> HIDE DEF X
    <2>6. w \in Seq(X) /\ Len(w) = m - 1 /\ \A i \in 1 .. m - 1 : w[i] = kids[i]
      <3>1. n = Len(kids)
        OBVIOUS
      <3> HIDE DEF n, w
      <3> QED
        BY <1>0, <2>3, <2>4, <2>5, <3>1
    <2>7. IsSeq(w) /\ ToSet(w) \subseteq X
      BY <2>6, InSeq
    <2> HIDE DEF w
    <2>8. IsUntil(w, kids, bad)
      BY <1>0, <2>4, <2>6, <2>7 DEF IsUntil
    <2> QED
      BY <2>7, <2>8 DEF X, w
  <1> QED
    BY <1>2, <1>3

\* Two such prefixes of sequences of one length, up to the same places, are as long
LEMMA UntilSame ==
    ASSUME NEW s, IsSeq(s), NEW r, IsSeq(r), Len(s) = Len(r), NEW bad, NEW v, NEW w,
           IsUntil(v, s, bad), IsUntil(w, r, bad)
    PROVE  Len(v) = Len(w)
  <1>1. Len(s) \in Nat /\ Len(v) \in Nat /\ Len(w) \in Nat
    BY SeqFacts DEF IsUntil
  <1>2. ASSUME Len(v) < Len(w) PROVE FALSE
    <2>1. Len(v) < Len(s) /\ Len(v) + 1 \in 1..Len(w)
      BY <1>1, <1>2 DEF IsUntil
    <2> QED
      BY <2>1 DEF IsUntil
  <1>3. ASSUME Len(w) < Len(v) PROVE FALSE
    <2>1. Len(w) < Len(r) /\ Len(w) + 1 \in 1..Len(v)
      BY <1>1, <1>3 DEF IsUntil
    <2> QED
      BY <2>1 DEF IsUntil
  <1> QED
    BY <1>1, <1>2, <1>3

\* The boxes up to the first that is not whole
IsWhole(w, kids) ==
    /\ IsSeq(w) /\ Len(w) <= Len(kids)
    /\ \A i \in 1..Len(w) : w[i] = kids[i] /\ w[i].whole
    /\ Len(w) < Len(kids) => ~kids[Len(w) + 1].whole

\* Whole returns those boxes
LEMMA WholeFacts ==
    ASSUME NEW kids, IsSeq(kids)
    PROVE  IsWhole(Whole(kids), kids) /\ ToSet(Whole(kids)) \subseteq ToSet(kids)
  <1> DEFINE n == Len(kids)
             bad == {i \in 1..n : ~kids[i].whole}
             w == Until(kids, bad)
  <1>1. bad \in SUBSET (1..n) /\ \A i \in 1..n : i \in bad <=> ~kids[i].whole
    OBVIOUS
  <1>2. Whole(kids) = w
    BY DEF Whole
  <1> HIDE DEF bad
  <1>3. IsUntil(w, kids, bad) /\ ToSet(w) \subseteq ToSet(kids)
    BY <1>1, UntilFacts
  <1> HIDE DEF w
  <1>4. n \in Nat /\ Len(w) \in Nat
    BY <1>3, SeqFacts DEF IsUntil
  <1>5. \A i \in 1..Len(w) : i \in 1..n
    BY <1>3, <1>4 DEF IsUntil
  <1>6. \A i \in 1..Len(w) : w[i] = kids[i] /\ w[i].whole
    BY <1>1, <1>3, <1>5 DEF IsUntil
  <1>7. ASSUME Len(w) < n PROVE ~kids[Len(w) + 1].whole
    BY <1>1, <1>3, <1>4, <1>7 DEF IsUntil
  <1> QED
    BY <1>2, <1>3, <1>6, <1>7 DEF IsWhole, IsUntil

\* All of them when all are whole
LEMMA AllWhole ==
    ASSUME NEW kids, IsSeq(kids), \A i \in 1..Len(kids) : kids[i].whole
    PROVE  Whole(kids) = kids
  <1> DEFINE w == Whole(kids)
  <1>1. IsWhole(w, kids)
    BY WholeFacts
  <1> HIDE DEF w
  <1>2. Len(kids) \in Nat /\ Len(w) \in Nat
    BY <1>1, SeqFacts DEF IsWhole
  <1>3. Len(w) = Len(kids)
    <2>1. ASSUME Len(w) < Len(kids) PROVE FALSE
      <3>1. Len(w) + 1 \in 1..Len(kids)
        BY <1>2, <2>1
      <3> QED
        BY <1>1, <2>1, <3>1 DEF IsWhole
    <2> QED
      BY <1>1, <1>2, <2>1 DEF IsWhole
  <1>4. w = kids
    BY <1>1, <1>3, SameSeq DEF IsWhole
  <1> QED
    BY <1>4 DEF w

\* The boxes of one type
Typed(s, type) == {b \in ToSet(s) : b.type = type}

\* OfType returns them
LEMMA OfTypeFacts ==
    ASSUME NEW kids, IsSeq(kids), NEW type
    PROVE  /\ OfType(kids, type) = Sifted(Whole(kids), Typed(Whole(kids), type))
           /\ IsSeq(OfType(kids, type))
           /\ ToSet(OfType(kids, type)) = Typed(Whole(kids), type)
  <1> DEFINE w == Whole(kids)
             T == Typed(w, type)
  <1>1. IsSeq(w)
    BY WholeFacts DEF IsWhole
  <1>2. OfType(kids, type) = Sifted(w, T)
    BY DEF OfType, Among, Typed
  <1> HIDE DEF w
  <1>3. T \subseteq ToSet(w)
    BY DEF Typed
  <1> HIDE DEF T
  <1>4. IsSeq(Sifted(w, T)) /\ ToSet(Sifted(w, T)) = ToSet(w) \cap T
    BY <1>1, SiftedSeq
  <1> QED
    BY <1>2, <1>3, <1>4 DEF w, T

\* The last of a sequence
LEMMA LastOf ==
    ASSUME NEW s, IsSeq(s), s # <<>>
    PROVE  Len(s) > 0 /\ Len(s) \in Nat /\ Len(s) \in 1..Len(s) /\ Last(s) = s[Len(s)] /\ Last(s) \in ToSet(s)
  <1> DEFINE X == ToSet(s)
  <1>1. s \in Seq(X)
    BY DEF IsSeq
  <1> HIDE DEF X
  <1>2. Len(s) > 0 /\ Len(s) \in Nat /\ Len(s) \in 1..Len(s)
    BY <1>1
  <1> QED
    BY <1>2, SeqFacts DEF Last

-----------------------------------------------------------------------------
(* Separate initialization segments *)

\* What filter_mvex_for_tracks leaves of an mvex: nothing, or the mvex with the trex of the
\* kept tracks and everything else it had
IsFiltered(tail, mvex, ids) ==
    LET all  == Whole(mvex.kids)
        keep == {b \in ToSet(all) : b.type = "trex" => b.room >= 16 /\ b.id \in ids}
    IN  \/ tail = <<>> /\ keep = {}
        \/ \E m : /\ tail = <<m>> /\ m.type = "mvex" /\ m.whole /\ IsSeq(m.kids)
                  /\ ToSet(m.kids) = keep /\ \A i \in 1..Len(m.kids) : m.kids[i].whole

\* filter_mvex_for_tracks keeps the trex of the given tracks and drops an mvex left empty
LEMMA Filtered ==
    ASSUME NEW mvex, HasKids(mvex), mvex.type = "mvex", mvex.whole, NEW ids
    PROVE  IsFiltered(filter_mvex_for_tracks(mvex, ids), mvex, ids)
  <1> DEFINE all == Whole(mvex.kids)
             T == {b \in ToSet(all) : b.type = "trex" => b.room >= 16 /\ b.id \in ids}
             kept == Sifted(all, T)
             tail == filter_mvex_for_tracks(mvex, ids)
             m == [mvex EXCEPT !.kids = kept]
  <1>1. tail = IF kept = <<>> THEN <<>> ELSE <<m>>
    BY DEF filter_mvex_for_tracks
  <1>2. IsSeq(all) /\ \A i \in 1..Len(all) : all[i].whole
    <2>1. IsSeq(mvex.kids)
      BY DEF HasKids, IsSeq
    <2> DEFINE k == mvex.kids
    <2> HIDE DEF k
    <2>2. IsWhole(Whole(k), k)
      BY <2>1, WholeFacts DEF k
    <2> QED
      BY <2>2 DEF IsWhole, k
  <1> HIDE DEF all
  <1>3. IsSeq(kept) /\ ToSet(kept) = T /\ \A i \in 1..Len(kept) : kept[i] \in ToSet(all)
    <2>1. T \subseteq ToSet(all)
      OBVIOUS
    <2> HIDE DEF T
    <2>2. /\ IsSeq(kept) /\ ToSet(kept) = ToSet(all) \cap T
          /\ \A i \in 1..Len(kept) : kept[i] \in ToSet(all) \cap T
      BY <1>2, SiftedSeq
    <2> QED
      BY <2>1, <2>2
  <1>4. \A x \in ToSet(all) : x.whole
    BY <1>2, SeqFacts DEF ToSet
  <1>5. m.type = "mvex" /\ m.whole /\ m.kids = kept
    <2> HIDE DEF kept
    <2> QED
      BY DEF HasKids
  <1> HIDE DEF m, T, kept, tail
  <1>6. CASE kept = <<>>
    <2>1. T = {}
      BY <1>3, <1>6, NoneSeq
    <2> QED
      BY <1>1, <1>6, <2>1 DEF IsFiltered, T, all, tail
  <1>7. CASE kept # <<>>
    <2>1. /\ tail = <<m>> /\ m.type = "mvex" /\ m.whole /\ IsSeq(m.kids)
          /\ ToSet(m.kids) = T /\ \A i \in 1..Len(m.kids) : m.kids[i].whole
      BY <1>1, <1>3, <1>4, <1>5, <1>7
    <2> QED
      BY <2>1 DEF IsFiltered, T, all, tail
  <1> QED
    BY <1>6, <1>7

-----------------------------------------------------------------------------
(* A moov is split by the type of its tracks *)

\* The boxes of a moov that go into the initialization segment for one type of track
Kept(all, type) ==
    {b \in ToSet(all) : b.type # "mvex" /\ (b.type = "trak" => track_has_handler_type(b, type))}
KeptIds(all, type) ==
    UNION {extract_track_id_from_trak(t) : t \in {b \in Kept(all, type) : b.type = "trak"}}

\* What filter_moov_for_track_type makes: the kept boxes, then the filtered mvex
IsSplit(new, old, keep, tail, type) ==
    /\ IsConcat(new, keep, tail, Len(keep), Len(tail))
    /\ keep = Sifted(Whole(old), Kept(Whole(old), type))
    /\ IF OfType(old, "mvex") = <<>> THEN tail = <<>>
       ELSE IsFiltered(tail, Last(OfType(old, "mvex")), KeptIds(Whole(old), type))

\* What is left of the mvex is a whole mvex, or nothing
LEMMA FilteredSeq ==
    ASSUME NEW tail, NEW mvex, NEW ids, IsFiltered(tail, mvex, ids)
    PROVE  IsSeq(tail) /\ \A b \in ToSet(tail) : b.type = "mvex" /\ b.whole
  <1>1. CASE tail = <<>>
    BY <1>1, NoneSeq
  <1>2. CASE \E m : tail = <<m>> /\ m.type = "mvex" /\ m.whole
    BY <1>2, OneSeq
  <1> QED
    BY <1>1, <1>2 DEF IsFiltered

\* filter_moov_for_track_type makes that
LEMMA MoovSplit ==
    ASSUME NEW old, IsSeq(old), \A c \in ToSet(old) : c.type = "mvex" => HasKids(c), NEW type
    PROVE  \E keep, tail : IsSplit(filter_moov_for_track_type(old, type), old, keep, tail, type)
  <1> DEFINE new == filter_moov_for_track_type(old, type)
             all == Whole(old)
             K == Kept(all, type)
             keep == Sifted(all, K)
             ids == UNION {extract_track_id_from_trak(keep[i]) :
                              i \in {j \in 1..Len(keep) : keep[j].type = "trak"}}
             mvex == OfType(old, "mvex")
             tail == IF mvex = <<>> THEN <<>> ELSE filter_mvex_for_tracks(Last(mvex), ids)
  <1>1. new = keep \o tail
    BY DEF filter_moov_for_track_type, Kept
  <1>2. IsSeq(all) /\ ToSet(all) \subseteq ToSet(old) /\ \A b \in ToSet(all) : b.whole
    <2>1. IsWhole(all, old) /\ ToSet(all) \subseteq ToSet(old)
      BY WholeFacts
    <2> HIDE DEF all
    <2> QED
      BY <2>1, SeqFacts DEF IsWhole, ToSet
  <1>3. IsSeq(keep) /\ ToSet(keep) = K
    <2> HIDE DEF all
    <2>1. K \subseteq ToSet(all)
      BY DEF Kept
    <2>2. keep = Sifted(all, K)
      OBVIOUS
    <2> HIDE DEF K, keep
    <2>3. IsSeq(keep) /\ ToSet(keep) = ToSet(all) \cap K
      BY <1>2, <2>2, SiftedSeq
    <2> QED
      BY <2>1, <2>3
  <1>4. ids = KeptIds(all, type)
    <2> HIDE DEF all
    <2>1. DOMAIN keep = 1..Len(keep)
      BY <1>3, SeqFacts
    <2>2. {keep[i] : i \in {j \in 1..Len(keep) : keep[j].type = "trak"}} = {b \in K : b.type = "trak"}
      <3> HIDE DEF keep, K
      <3> QED
        BY <1>3, <2>1 DEF ToSet
    <2> DEFINE Z == {b \in K : b.type = "trak"}
    <2>3. KeptIds(all, type) = UNION {extract_track_id_from_trak(t) : t \in Z}
      BY DEF KeptIds
    <2> HIDE DEF K, keep
    <2>4. ids = UNION {extract_track_id_from_trak(t) :
                           t \in {keep[i] : i \in {j \in 1..Len(keep) : keep[j].type = "trak"}}}
      OBVIOUS
    <2> QED
      BY <2>2, <2>3, <2>4
  <1> HIDE DEF ids
  <1>5. IF mvex = <<>> THEN tail = <<>> ELSE IsFiltered(tail, Last(mvex), KeptIds(all, type))
    <2>1. CASE mvex = <<>>
      BY <2>1
    <2>2. CASE mvex # <<>>
      <3>1. IsSeq(mvex) /\ ToSet(mvex) = Typed(all, "mvex")
        BY OfTypeFacts
      <3> HIDE DEF mvex
      <3>2. Last(mvex) \in ToSet(mvex)
        BY <2>2, <3>1, LastOf
      <3> DEFINE m == Last(mvex)
      <3> HIDE DEF all, m
      <3>3. m \in ToSet(old) /\ m.type = "mvex" /\ m.whole /\ HasKids(m)
        BY <1>2, <3>1, <3>2 DEF Typed, m
      <3>4. IsFiltered(filter_mvex_for_tracks(m, ids), m, ids)
        BY <3>3, Filtered
      <3> QED
        BY <1>4, <2>2, <3>4 DEF m
    <2> QED
      BY <2>1, <2>2
  <1> HIDE DEF tail, keep, new
  <1>6. IsSeq(tail)
    <2>1. CASE mvex = <<>>
      BY <1>5, <2>1, NoneSeq
    <2>2. CASE mvex # <<>>
      <3> DEFINE m == Last(mvex)
                 j == KeptIds(all, type)
      <3>1. IsFiltered(tail, m, j)
        BY <1>5, <2>2
      <3> HIDE DEF m, j
      <3> QED
        BY <3>1, FilteredSeq
    <2> QED
      BY <2>1, <2>2
  <1>7. IsConcat(new, keep, tail, Len(keep), Len(tail))
    BY <1>1, <1>3, <1>6 DEF IsConcat
  <1>8. IsSplit(new, old, keep, tail, type)
    BY <1>5, <1>7 DEF IsSplit, keep
  <1> QED
    BY <1>8 DEF new

\* The boxes of some kind in what was made are those kept of that kind, unless it includes mvex
LEMMA SplitPart ==
    ASSUME NEW new, NEW old, IsSeq(old), NEW keep, NEW tail, NEW type,
           IsSplit(new, old, keep, tail, type),
           NEW T, \A b \in ToSet(tail) : b \notin T, NEW U,
           \A b \in ToSet(Whole(old)) : b \in U <=> b \in Kept(Whole(old), type) /\ b \in T
    PROVE  Sifted(new, T) = Sifted(Whole(old), U)
  <1> DEFINE all == Whole(old)
             K == Kept(all, type)
             V == K \cap T
             a == Sifted(keep, T)
             b == Sifted(tail, T)
  <1>1. IsSeq(all) /\ IsSeq(keep) /\ IsSeq(tail)
    BY WholeFacts DEF IsWhole, IsSplit, IsConcat
  <1> HIDE DEF all
  <1>2. Sifted(new, T) = a \o b
    <2>1. IsConcat(new, keep, tail, Len(keep), Len(tail))
      BY DEF IsSplit
    <2> QED
      BY <2>1, SiftedConcat
  <1>3. b = <<>>
    <2>1. ToSet(tail) \cap T = {}
      OBVIOUS
    <2> QED
      BY <1>1, <2>1, SiftedEnds
  <1>4. a = Sifted(all, V)
    <2>1. keep = Sifted(all, K)
      BY DEF IsSplit, all
    <2> HIDE DEF K
    <2> QED
      BY <1>1, <2>1, SiftedTwice
  <1>5. Sifted(all, V) = Sifted(all, U)
    <2>1. \A i \in 1..Len(all) : all[i] \in ToSet(all)
      BY <1>1, SeqFacts
    <2>2. \A x \in ToSet(all) : x \in V <=> x \in U
      BY DEF all
    <2> HIDE DEF V
    <2> QED
      BY <1>1, <2>1, <2>2, SiftedSame
  <1>6. IsSeq(a)
    BY <1>1, SiftedSeq
  <1> HIDE DEF a, b
  <1>7. a \o b = a
    <2> DEFINE X == ToSet(a)
    <2>1. a \in Seq(X)
      BY <1>6 DEF IsSeq
    <2> HIDE DEF X
    <2> QED
      BY <1>3, <2>1
  <1> QED
    BY <1>2, <1>4, <1>5, <1>7 DEF all

\* What has been split off is whole, and consists of what was kept and the mvex
LEMMA SplitWhole ==
    ASSUME NEW new, NEW old, IsSeq(old), NEW keep, NEW tail, NEW type,
           IsSplit(new, old, keep, tail, type)
    PROVE  /\ Whole(new) = new /\ IsSeq(new)
           /\ ToSet(new) = Kept(Whole(old), type) \cup ToSet(tail)
           /\ IsSeq(tail) /\ \A b \in ToSet(tail) : b.type = "mvex" /\ b.whole
  <1> DEFINE all == Whole(old)
             K == Kept(all, type)
  <1>1. IsSeq(all) /\ \A b \in ToSet(all) : b.whole
    <2>1. IsWhole(all, old)
      BY WholeFacts
    <2> HIDE DEF all
    <2> QED
      BY <2>1, SeqFacts DEF IsWhole, ToSet
  <1>2. IsSeq(keep) /\ IsSeq(tail) /\ keep = Sifted(all, K)
    BY DEF IsSplit, IsConcat
  <1>3. \A b \in ToSet(tail) : b.type = "mvex" /\ b.whole
    <2> DEFINE m == Last(OfType(old, "mvex"))
               ids == KeptIds(all, type)
    <2>1. IsFiltered(tail, m, ids) \/ tail = <<>>
      BY DEF IsSplit
    <2> HIDE DEF m, ids
    <2> QED
      BY <2>1, FilteredSeq, NoneSeq
  <1> HIDE DEF all
  <1>4. ToSet(keep) = K
    <2>1. K \subseteq ToSet(all)
      BY DEF Kept
    <2> HIDE DEF K
    <2> QED
      BY <1>1, <1>2, <2>1, SiftedSeq
  <1>5. IsSeq(new) /\ ToSet(new) = ToSet(keep) \cup ToSet(tail)
    <2> DEFINE n == Len(keep)
               m == Len(tail)
    <2>1. IsConcat(new, keep, tail, n, m)
      BY DEF IsSplit
    <2> HIDE DEF n, m
    <2> QED
      BY <2>1, Joining
  <1>6. \A b \in ToSet(new) : b.whole
    BY <1>1, <1>3, <1>4, <1>5 DEF Kept
  <1>7. Whole(new) = new
    BY <1>5, <1>6, SeqFacts, AllWhole
  <1> QED
    BY <1>2, <1>3, <1>4, <1>5, <1>7 DEF all

\* The boxes other than traks and mvex
Others(kids) == Sifted(Whole(kids), {b \in ToSet(Whole(kids)) : b.type \notin {"trak", "mvex"}})

\* The traks, the mvex and the other boxes of what was split off
LEMMA SplitBoxes ==
    ASSUME NEW new, NEW old, IsSeq(old), NEW keep, NEW tail, NEW type,
           IsSplit(new, old, keep, tail, type)
    PROVE  /\ OfType(new, "trak") = Sifted(OfType(old, "trak"),
                     {t \in ToSet(OfType(old, "trak")) : track_has_handler_type(t, type)})
           /\ OfType(new, "mvex") = tail
           /\ Others(new) = Others(old)
  <1> DEFINE all == Whole(old)
             K == Kept(all, type)
  <1>1. /\ Whole(new) = new /\ IsSeq(new) /\ ToSet(new) = K \cup ToSet(tail)
        /\ IsSeq(tail) /\ \A b \in ToSet(tail) : b.type = "mvex" /\ b.whole
    BY SplitWhole
  <1>2. IsSeq(all)
    BY WholeFacts DEF IsWhole
  <1>3. OfType(new, "trak") = Sifted(OfType(old, "trak"),
                {t \in ToSet(OfType(old, "trak")) : track_has_handler_type(t, type)})
    <2> DEFINE T == Typed(new, "trak")
               A == Typed(all, "trak")
               B == {t \in A : track_has_handler_type(t, type)}
               U == A \cap B
    <2>1. OfType(new, "trak") = Sifted(new, T)
      BY <1>1, OfTypeFacts
    <2>2. OfType(old, "trak") = Sifted(all, A) /\ ToSet(OfType(old, "trak")) = A
      BY OfTypeFacts
    <2>3. Sifted(Sifted(all, A), B) = Sifted(all, U)
      <3> HIDE DEF all, A, B
      <3> QED
        BY <1>2, SiftedTwice
    <2>4. \A b \in ToSet(tail) : b \notin T
      BY <1>1 DEF Typed
    <2>5. \A b \in ToSet(all) : b \in U <=> b \in K /\ b \in T
      <3> HIDE DEF all
      <3> QED
        BY <1>1 DEF Typed, Kept
    <2>6. Sifted(new, T) = Sifted(all, U)
      <3> HIDE DEF T, U
      <3> QED
        BY <2>4, <2>5, SplitPart
    <2> HIDE DEF T, A, U, all, K
    <2> QED
      BY <2>1, <2>2, <2>3, <2>6
  <1>4. Others(new) = Others(old)
    <2> DEFINE T == {b \in ToSet(new) : b.type \notin {"trak", "mvex"}}
               U == {b \in ToSet(all) : b.type \notin {"trak", "mvex"}}
    <2>1. Others(new) = Sifted(new, T) /\ Others(old) = Sifted(all, U)
      BY <1>1 DEF Others
    <2>2. \A b \in ToSet(tail) : b \notin T
      BY <1>1
    <2>3. \A b \in ToSet(all) : b \in U <=> b \in K /\ b \in T
      <3> HIDE DEF all
      <3> QED
        BY <1>1 DEF Kept
    <2>4. Sifted(new, T) = Sifted(all, U)
      <3> HIDE DEF T, U
      <3> QED
        BY <2>2, <2>3, SplitPart
    <2> QED
      BY <2>1, <2>4
  <1>5. OfType(new, "mvex") = tail
    <2> DEFINE T == Typed(new, "mvex")
    <2>1. OfType(new, "mvex") = Sifted(new, T)
      BY <1>1, OfTypeFacts
    <2>2. ToSet(tail) \subseteq T /\ K \cap T = {}
      BY <1>1 DEF Typed, Kept
    <2> HIDE DEF T
    <2>3. Sifted(new, T) = Sifted(keep, T) \o Sifted(tail, T)
      <3>1. IsConcat(new, keep, tail, Len(keep), Len(tail))
        BY DEF IsSplit
      <3> QED
        BY <3>1, SiftedConcat
    <2>4. Sifted(tail, T) = tail
      BY <1>1, <2>2, SiftedEnds
    <2>5. IsSeq(keep) /\ ToSet(keep) \cap T = {}
      <3>1. IsSeq(keep) /\ keep = Sifted(all, K)
        BY DEF IsSplit, IsConcat
      <3> HIDE DEF all, K
      <3>2. ToSet(keep) = ToSet(all) \cap K
        BY <1>2, <3>1, SiftedSeq
      <3> QED
        BY <2>2, <3>1, <3>2
    <2>6. Sifted(keep, T) = <<>>
      BY <2>5, SiftedEnds
    <2>7. <<>> \o tail = tail
      <3> DEFINE X == ToSet(tail)
      <3>1. tail \in Seq(X)
        BY <1>1 DEF IsSeq
      <3> HIDE DEF X
      <3> QED
        BY <3>1
    <2> QED
      BY <2>1, <2>3, <2>4, <2>6, <2>7
  <1> QED
    BY <1>3, <1>4, <1>5

\* The mvex boxes of a moov hold trex with their fields
TypedMvex(old) ==
    \A c \in ToSet(old) : c.type = "mvex" =>
        HasKids(c) /\ \A d \in ToSet(c.kids) : d.type = "trex" => HasRoom(d)

\* The mvex names the kept tracks it named before
LEMMA SplitIds ==
    ASSUME NEW old, IsSeq(old), TypedMvex(old), NEW new, NEW keep, NEW tail, NEW type,
           IsSplit(new, old, keep, tail, type)
    PROVE  TrexIds(new) = TrexIds(old) \cap KeptIds(Whole(old), type)
  <1> DEFINE ids == KeptIds(Whole(old), type)
             mvex == OfType(old, "mvex")
             m == Last(mvex)
             w == Whole(m.kids)
             keeps == {b \in ToSet(w) : b.type = "trex" => b.room >= 16 /\ b.id \in ids}
             trexes == {b \in ToSet(w) : b.type = "trex"}
             long == {b \in trexes : b.bytes >= 8}
  <1>0. OfType(new, "mvex") = tail
    BY SplitBoxes
  <1>1. TrexIds(new) = IF tail = <<>> THEN {}
                       ELSE {b.id : b \in {x \in ToSet(OfType(Last(tail).kids, "trex")) : x.bytes >= 8}}
    BY <1>0 DEF TrexIds
  <1>2. TrexIds(old) = IF mvex = <<>> THEN {}
                       ELSE {b.id : b \in {x \in ToSet(OfType(m.kids, "trex")) : x.bytes >= 8}}
    BY DEF TrexIds
  <1>3. CASE mvex = <<>>
    <2>1. tail = <<>>
      BY <1>3 DEF IsSplit
    <2> QED
      BY <1>1, <1>2, <1>3, <2>1
  <1>4. CASE mvex # <<>>
    <2>1. IsFiltered(tail, m, ids)
      BY <1>4 DEF IsSplit
    <2>2. HasKids(m) /\ \A d \in ToSet(m.kids) : d.type = "trex" => HasRoom(d)
      <3> DEFINE all == Whole(old)
      <3>1. IsSeq(mvex) /\ ToSet(mvex) = Typed(all, "mvex") /\ ToSet(all) \subseteq ToSet(old)
        BY OfTypeFacts, WholeFacts
      <3> HIDE DEF mvex, all
      <3>2. m \in ToSet(mvex)
        BY <1>4, <3>1, LastOf
      <3> HIDE DEF m
      <3>3. m \in ToSet(old) /\ m.type = "mvex"
        BY <3>1, <3>2 DEF Typed
      <3> QED
        BY <3>3 DEF TypedMvex
    <2> HIDE DEF m, mvex, ids
    <2>3. ToSet(OfType(m.kids, "trex")) = trexes /\ ToSet(w) \subseteq ToSet(m.kids)
      <3> DEFINE k == m.kids
      <3>1. IsSeq(k)
        BY <2>2 DEF HasKids, IsSeq
      <3> HIDE DEF k
      <3>2. ToSet(OfType(k, "trex")) = Typed(Whole(k), "trex") /\ ToSet(Whole(k)) \subseteq ToSet(k)
        BY <3>1, OfTypeFacts, WholeFacts
      <3> QED
        BY <3>2 DEF Typed, k
    <2>4. TrexIds(old) = {b.id : b \in long}
      BY <1>2, <1>4, <2>3
    <2>5. \A b \in long : b \in ToSet(w) /\ b.type = "trex" /\ b.room >= 16
      <3> HIDE DEF w
      <3>1. \A b \in trexes : HasRoom(b)
        BY <2>2, <2>3
      <3>2. \A b \in long : HasRoom(b) /\ b.bytes >= 8
        <4> HIDE DEF trexes
        <4> QED
          BY <3>1
      <3>3. \A b \in long : b.room >= 16
        <4> HIDE DEF long
        <4> QED
          BY <3>2 DEF HasRoom
      <3> QED
        BY <3>3
    <2>6. CASE tail = <<>> /\ keeps = {}
      <3>1. \A b \in long : b.id \notin ids
        BY <2>5, <2>6
      <3> HIDE DEF long
      <3> QED
        BY <1>1, <2>4, <2>6, <3>1 DEF ids
    <2>7. CASE \E x : /\ tail = <<x>> /\ x.type = "mvex" /\ x.whole /\ IsSeq(x.kids)
                      /\ ToSet(x.kids) = keeps /\ \A i \in 1..Len(x.kids) : x.kids[i].whole
      <3>1. PICK x : /\ tail = <<x>> /\ x.type = "mvex" /\ x.whole /\ IsSeq(x.kids)
                     /\ ToSet(x.kids) = keeps /\ \A i \in 1..Len(x.kids) : x.kids[i].whole
        BY <2>7
      <3> HIDE DEF w
      <3>2. tail # <<>> /\ Last(tail) = x
        BY <3>1 DEF Last
      <3>3. ToSet(OfType(x.kids, "trex")) = {b \in keeps : b.type = "trex"}
        <4> DEFINE k == x.kids
        <4>1. IsSeq(k) /\ (\A i \in 1..Len(k) : k[i].whole) /\ ToSet(k) = keeps
          BY <3>1
        <4> HIDE DEF k, keeps
        <4>2. Whole(k) = k
          BY <4>1, AllWhole
        <4>3. ToSet(OfType(k, "trex")) = Typed(k, "trex")
          BY <4>1, <4>2, OfTypeFacts
        <4> QED
          BY <4>1, <4>3 DEF Typed, k
      <3>4. {b \in {c \in keeps : c.type = "trex"} : b.bytes >= 8} = {b \in long : b.id \in ids}
        <4>1. \A b : b \in {c \in keeps : c.type = "trex"} /\ b.bytes >= 8 <=> b \in long /\ b.id \in ids
          BY <2>5
        <4> HIDE DEF keeps, long
        <4> QED
          BY <4>1
      <3>5. TrexIds(new) = {b.id : b \in {c \in long : c.id \in ids}}
        <4> DEFINE Z == {c \in keeps : c.type = "trex"}
        <4>1. TrexIds(new) = {b.id : b \in {c \in Z : c.bytes >= 8}}
          BY <1>1, <3>2, <3>3
        <4>2. {b \in Z : b.bytes >= 8} = {b \in long : b.id \in ids}
          BY <3>4
        <4> HIDE DEF Z, long
        <4> QED
          BY <4>1, <4>2
      <3> HIDE DEF long
      <3> QED
        BY <2>4, <3>5 DEF ids
    <2> QED
      BY <2>1, <2>6, <2>7 DEF IsFiltered
  <1> QED
    BY <1>3, <1>4

\* A sequence of one
LEMMA OnlyOne ==
    ASSUME NEW s, IsSeq(s), Len(s) = 1
    PROVE  s = <<s[1]>> /\ ToSet(s) = {s[1]} /\ Last(s) = s[1] /\ s # <<>>
  <1> DEFINE x == s[1]
             r == <<x>>
  <1>1. IsSeq(r) /\ Len(r) = 1 /\ ToSet(r) = {x} /\ r[1] = x
    BY OneSeq
  <1> HIDE DEF r
  <1>2. s = r
    BY <1>1, SameSeq
  <1>3. Last(s) = s[1] /\ s # <<>>
    BY NoneSeq DEF Last
  <1> QED
    BY <1>1, <1>2, <1>3 DEF r

\* One box of a type is the one the parser reads when it is long enough
LEMMA OneRead ==
    ASSUME NEW kids, IsSeq(kids), NEW type, Len(OfType(kids, type)) = 1, NEW least
    PROVE  LET x == OfType(kids, type)[1] IN
           /\ x \in ToSet(Whole(kids)) /\ x.type = type
           /\ \A b \in ToSet(Whole(kids)) : b.type = type => b = x
           /\ x.bytes >= least => LastRead(Whole(kids), type, least) = <<x>>
           /\ ~(x.bytes >= least) => LastRead(Whole(kids), type, least) = <<>>
  <1> DEFINE w == Whole(kids)
             of == OfType(kids, type)
             x == of[1]
             T == {b \in ToSet(w) : b.type = type /\ b.bytes >= least}
             long == Sifted(w, T)
  <1>1. IsSeq(of) /\ of = Sifted(w, Typed(w, type)) /\ ToSet(of) = Typed(w, type)
    BY OfTypeFacts
  <1>2. IsSeq(w)
    BY WholeFacts DEF IsWhole
  <1>3. LastRead(w, type, least) = IF long = <<>> THEN <<>> ELSE <<Last(long)>>
    BY DEF LastRead
  <1>4. Len(of) = 1
    OBVIOUS
  <1> HIDE DEF w, of
  <1>5. of = <<x>> /\ ToSet(of) = {x} /\ Last(of) = x /\ of # <<>>
    BY <1>1, <1>4, OnlyOne
  <1>6. x \in ToSet(w) /\ x.type = type /\ \A b \in ToSet(w) : b.type = type => b = x
    <2> HIDE DEF x
    <2> QED
      BY <1>1, <1>5 DEF Typed
  <1> HIDE DEF x
  <1>7. ASSUME x.bytes >= least PROVE LastRead(w, type, least) = <<x>>
    <2>1. T = Typed(w, type)
      BY <1>6, <1>7 DEF Typed
    <2>2. long = of
      BY <1>1, <2>1
    <2> HIDE DEF long
    <2> QED
      BY <1>3, <1>5, <2>2
  <1>8. ASSUME ~(x.bytes >= least) PROVE LastRead(w, type, least) = <<>>
    <2>1. T = {}
      BY <1>6, <1>8
    <2>2. ToSet(w) \cap T = {}
      BY <2>1
    <2> HIDE DEF T
    <2>3. long = <<>>
      BY <1>2, <2>2, SiftedEnds
    <2> HIDE DEF long
    <2> QED
      BY <1>3, <2>3
  <1> QED
    BY <1>6, <1>7, <1>8 DEF w, of, x

\* The boxes of a well-formed trak: its header x, its media box m and its handler h
IsPlain(t, x, m, h) ==
    /\ OfType(t.kids, "tkhd") = <<x>> /\ OfType(t.kids, "mdia") = <<m>>
    /\ OfType(m.kids, "hdlr") = <<h>>
    /\ x.room >= 24 /\ h.room >= 16
    /\ ParsedId(t) = parse_tkhd_box(x) /\ ParsedType(t) = h.handler

\* The parser reads those
LEMMA PlainTrak ==
    ASSUME NEW t, TypedTrak(t), WellFormed(t)
    PROVE  \E x, m, h : IsPlain(t, x, m, h)
  <1> DEFINE k == t.kids
             w == Whole(k)
             tkhd == OfType(k, "tkhd")
             x == tkhd[1]
             mdia == OfType(k, "mdia")
             m == mdia[1]
             l == m.kids
             hdlr == OfType(l, "hdlr")
             h == hdlr[1]
  <1>1. /\ Len(tkhd) = 1 /\ x.bytes >= 16 /\ Len(mdia) = 1 /\ Len(hdlr) = 1
        /\ IsTrack(Seen(k))
    BY DEF WellFormed
  <1>2. IsSeq(k)
    BY DEF TypedTrak, HasKids, IsSeq
  <1>3. /\ \A c \in ToSet(k) : c.type = "tkhd" => HasRoom(c)
        /\ \A c \in ToSet(k) : c.type = "mdia" =>
              HasKids(c) /\ \A d \in ToSet(c.kids) : d.type = "hdlr" => HasRoom(d)
    BY DEF TypedTrak
  <1> HIDE DEF k
  <1>4. IsSeq(w) /\ ToSet(w) \subseteq ToSet(k)
    BY <1>2, WholeFacts DEF IsWhole
  <1>5. /\ x \in ToSet(w) /\ x.type = "tkhd" /\ (\A b \in ToSet(w) : b.type = "tkhd" => b = x)
        /\ x.bytes >= 16 => LastRead(w, "tkhd", 16) = <<x>>
    BY <1>1, <1>2, OneRead
  <1>6. m \in ToSet(w) /\ m.type = "mdia"
    BY <1>1, <1>2, OneRead
  <1>7. IsSeq(tkhd) /\ IsSeq(mdia) /\ Among(w, "mdia") = mdia
    BY <1>2, OfTypeFacts DEF OfType
  <1>8. tkhd = <<x>> /\ mdia = <<m>> /\ Last(mdia) = m /\ mdia # <<>>
    <2> HIDE DEF tkhd, mdia
    <2> QED
      BY <1>1, <1>7, OnlyOne
  <1> HIDE DEF w, tkhd, mdia, x, m
  <1>9. IsSeq(l) /\ \A d \in ToSet(l) : d.type = "hdlr" => HasRoom(d)
    BY <1>3, <1>4, <1>6 DEF HasKids, IsSeq
  <1>10. HasRoom(x)
    BY <1>3, <1>4, <1>5
  <1>11. Len(hdlr) = 1
    BY <1>1 DEF mdia, m, k
  <1> HIDE DEF l
  <1>12. /\ h \in ToSet(Whole(l)) /\ h.type = "hdlr"
         /\ h.bytes >= 12 => LastRead(Whole(l), "hdlr", 12) = <<h>>
         /\ ~(h.bytes >= 12) => LastRead(Whole(l), "hdlr", 12) = <<>>
    BY <1>9, <1>11, OneRead
  <1>13. hdlr = <<h>>
    <2>1. IsSeq(hdlr)
      BY <1>9, OfTypeFacts
    <2> HIDE DEF hdlr
    <2> QED
      BY <1>11, <2>1, OnlyOne
  <1>14. HasRoom(h)
    BY <1>9, <1>12, WholeFacts
  <1> HIDE DEF hdlr, h
  <1>15. Seen(k) = w
    <2> DEFINE odd == {i \in 1..Len(w) : w[i].type = "tkhd" /\ w[i].bytes \in 12..15}
    <2>1. \A i \in 1..Len(w) : w[i] \in ToSet(w)
      BY <1>4, SeqFacts
    <2>2. x.bytes \notin 12..15
      BY <1>1, <1>10 DEF HasRoom
    <2>3. odd = {}
      BY <1>5, <2>1, <2>2
    <2>4. Seen(k) = IF odd = {} THEN w ELSE SubSeq(w, 1, Min(odd)) \o Whole(w[Min(odd)].skewed)
      BY DEF Seen, w
    <2> HIDE DEF odd
    <2> QED
      BY <2>3, <2>4
  <1>16. TrackId(w) = parse_tkhd_box(x)
    <2>1. LastRead(w, "tkhd", 16) = <<x>>
      BY <1>1, <1>5
    <2> QED
      BY <2>1 DEF TrackId
  <1>17. HandlerType(w) = MediaType(Whole(l))
    BY <1>7, <1>8 DEF HandlerType, l
  <1>18. HandlerType(w) # NoHandler /\ ParsedId(t) = TrackId(w) /\ ParsedType(t) = HandlerType(w)
    BY <1>1, <1>15 DEF IsTrack, ParsedId, ParsedType, k
  <1>19. h.bytes >= 12 /\ MediaType(Whole(l)) = h.handler
    <2>1. ASSUME ~(h.bytes >= 12) PROVE FALSE
      <3>1. LastRead(Whole(l), "hdlr", 12) = <<>>
        BY <1>12, <2>1
      <3>2. MediaType(Whole(l)) = NoHandler
        BY <3>1 DEF MediaType
      <3> QED
        BY <1>17, <1>18, <3>2
    <2>2. LastRead(Whole(l), "hdlr", 12) = <<h>>
      BY <1>12, <2>1
    <2> QED
      BY <2>1, <2>2 DEF MediaType, parse_hdlr_box
  <1>20. x.room >= 24 /\ h.room >= 16
    BY <1>1, <1>10, <1>14, <1>19 DEF HasRoom
  <1>21. OfType(t.kids, "tkhd") = <<x>> /\ OfType(t.kids, "mdia") = <<m>> /\ OfType(m.kids, "hdlr") = <<h>>
    BY <1>8, <1>13 DEF tkhd, mdia, hdlr, k, l
  <1>22. IsPlain(t, x, m, h)
    BY <1>1, <1>16, <1>17, <1>18, <1>19, <1>20, <1>21 DEF IsPlain, k
  <1> QED
    BY <1>22

\* A sequence of one that is kept
LEMMA KeptOne ==
    ASSUME NEW x, NEW T, x \in T
    PROVE  Sifted(<<x>>, T) = <<x>>
  <1> DEFINE s == <<x>>
  <1>1. IsSeq(s) /\ ToSet(s) = {x}
    BY OneSeq
  <1> HIDE DEF s
  <1>2. Sifted(s, T) = s
    BY <1>1, SiftedEnds
  <1> QED
    BY <1>2 DEF s

\* and the splitter reads the same
LEMMA TrakRead ==
    ASSUME NEW t, TypedTrak(t), WellFormed(t)
    PROVE  /\ \A type : track_has_handler_type(t, type) <=> ParsedType(t) = type
           /\ extract_track_id_from_trak(t) = {ParsedId(t)}
  <1>1. PICK x, m, h : IsPlain(t, x, m, h)
    BY PlainTrak
  <1>2. /\ OfType(t.kids, "tkhd") = <<x>> /\ OfType(t.kids, "mdia") = <<m>> /\ OfType(m.kids, "hdlr") = <<h>>
        /\ x.room >= 24 /\ h.room >= 16
        /\ ParsedId(t) = parse_tkhd_box(x) /\ ParsedType(t) = h.handler
    BY <1>1 DEF IsPlain
  <1>3. HandlerBox(t) = <<h>>
    <2> DEFINE Long(b) == Sifted(OfType(b.kids, "hdlr"), {c \in ToSet(OfType(b.kids, "hdlr")) : c.room >= 16})
               mdia == <<m>>
               has == {i \in 1..Len(mdia) : Long(mdia[i]) # <<>>}
               T == {c \in ToSet(<<h>>) : c.room >= 16}
    <2>1. HandlerBox(t) = IF has = {} THEN <<>> ELSE <<Long(mdia[Min(has)])[1]>>
      BY <1>2 DEF HandlerBox
    <2>2. h \in T
      BY <1>2, OneSeq
    <2>3. Long(m) = Sifted(<<h>>, T)
      BY <1>2
    <2> HIDE DEF T
    <2>4. Long(m) = <<h>>
      BY <2>2, <2>3, KeptOne
    <2>5. Len(mdia) = 1 /\ mdia[1] = m
      OBVIOUS
    <2> HIDE DEF Long, mdia
    <2>6. \A i \in 1..Len(mdia) : i = 1 /\ Long(mdia[i]) # <<>>
      BY <2>4, <2>5
    <2>7. 1 \in 1..Len(mdia)
      BY <2>5
    <2>8. has = {1}
      BY <2>6, <2>7
    <2>9. Min(has) = 1
      <3>1. {1} \in SUBSET Nat /\ {1} # {}
        OBVIOUS
      <3>2. Min({1}) \in {1}
        BY <3>1, LeastOf
      <3> QED
        BY <2>8, <3>2
    <2> HIDE DEF has
    <2>10. HandlerBox(t) = <<Long(mdia[1])[1]>>
      BY <2>1, <2>8, <2>9
    <2> QED
      BY <2>4, <2>5, <2>10
  <1>4. \A type : track_has_handler_type(t, type) <=> ParsedType(t) = type
    BY <1>2, <1>3 DEF track_has_handler_type
  <1>5. extract_track_id_from_trak(t) = {ParsedId(t)}
    <2> DEFINE T == {b \in ToSet(<<x>>) : b.room >= 24}
               found == Sifted(<<x>>, T)
    <2>1. extract_track_id_from_trak(t) = IF found = <<>> THEN {} ELSE {parse_tkhd_box(found[1])}
      BY <1>2 DEF extract_track_id_from_trak
    <2>2. x \in T
      BY <1>2, OneSeq
    <2> HIDE DEF T
    <2>3. found = <<x>>
      BY <2>2, KeptOne
    <2> HIDE DEF found
    <2> QED
      BY <1>2, <2>1, <2>3
  <1> QED
    BY <1>4, <1>5

\* The traks of a moov have their fields
TypedTraks(old) == \A c \in ToSet(old) : c.type = "trak" => TypedTrak(c)

\* Filtering a moov for one type of track splits it off
LEMMA SplitOff ==
    ASSUME NEW old, IsSeq(old), TypedMvex(old), TypedTraks(old), NEW type
    PROVE  SplitsOff(old, filter_moov_for_track_type(old, type), type)
  <1> DEFINE new == filter_moov_for_track_type(old, type)
             all == Whole(old)
             traks == OfType(old, "trak")
             kept == {t \in ToSet(traks) : ParsedType(t) = type}
  <1> SUFFICES ASSUME \A t \in ToSet(traks) : WellFormed(t)
               PROVE  /\ OfType(new, "trak") = Sifted(traks, kept)
                      /\ TrexIds(new) = TrexIds(old) \cap {ParsedId(t) : t \in kept}
                      /\ Others(new) = Others(old)
    BY DEF SplitsOff, Others
  <1>1. PICK keep, tail : IsSplit(new, old, keep, tail, type)
    <2>1. \A c \in ToSet(old) : c.type = "mvex" => HasKids(c)
      BY DEF TypedMvex
    <2> QED
      BY <2>1, MoovSplit
  <1> HIDE DEF new
  <1>2. /\ OfType(new, "trak") = Sifted(traks, {t \in ToSet(traks) : track_has_handler_type(t, type)})
        /\ Others(new) = Others(old)
    BY <1>1, SplitBoxes
  <1>3. TrexIds(new) = TrexIds(old) \cap KeptIds(all, type)
    BY <1>1, SplitIds
  <1>4. ToSet(traks) = Typed(all, "trak") /\ ToSet(all) \subseteq ToSet(old)
    BY OfTypeFacts, WholeFacts
  <1> HIDE DEF all, traks
  <1>5. ASSUME NEW t \in ToSet(traks)
        PROVE  /\ track_has_handler_type(t, type) <=> ParsedType(t) = type
               /\ extract_track_id_from_trak(t) = {ParsedId(t)}
    <2>1. TypedTrak(t)
      BY <1>4 DEF Typed, TypedTraks
    <2> QED
      BY <2>1, TrakRead
  <1>6. {t \in ToSet(traks) : track_has_handler_type(t, type)} = kept
    BY <1>5
  <1>7. KeptIds(all, type) = {ParsedId(t) : t \in kept}
    <2> DEFINE Z == {b \in Kept(all, type) : b.type = "trak"}
    <2>1. Z = kept
      BY <1>4, <1>6 DEF Kept, Typed
    <2>2. KeptIds(all, type) = UNION {extract_track_id_from_trak(t) : t \in Z}
      BY DEF KeptIds
    <2> HIDE DEF Z
    <2>3. \A t \in kept : extract_track_id_from_trak(t) = {ParsedId(t)}
      BY <1>5
    <2> HIDE DEF kept
    <2>4. UNION {extract_track_id_from_trak(t) : t \in kept} = {ParsedId(t) : t \in kept}
      BY <2>3
    <2> QED
      BY <2>1, <2>2, <2>4
  <1> HIDE DEF kept
  <1> QED
    BY <1>2, <1>3, <1>6, <1>7

\* An initialization segment ends with the moov that was made for it
LEMMA LastOfInit ==
    ASSUME NEW b, NEW moov, "kids" \in DOMAIN moov, NEW kids
    PROVE  Last(serialize_box(b) \o <<[moov EXCEPT !.kids = kids]>>).kids = kids
  <1> DEFINE x == [moov EXCEPT !.kids = kids]
  <1>1. x.kids = kids
    OBVIOUS
  <1> HIDE DEF x
  <1>2. CASE serialize_box(b) = <<>>
    <2>1. Last(<<>> \o <<x>>) = x
      BY DEF Last
    <2> QED
      BY <1>1, <1>2, <2>1 DEF x
  <1>3. CASE serialize_box(b) = <<b>>
    <2>1. Last(<<b>> \o <<x>>) = x
      BY DEF Last
    <2> QED
      BY <1>1, <1>3, <2>1 DEF x
  <1> QED
    BY <1>2, <1>3 DEF serialize_box

\* Making the segments ends the parse
LEMMA Ended ==
    ASSUME ParserInv, NEW stream, generate_stream_segments(stream)
    PROVE  outcome' \in {"segmented", "error", "panic"}
  <1>1. PICK r : r = generate_mse_segments /\ outcome' = r.outcome
    BY DEF generate_stream_segments
  <1>2. FileInv /\ fmp4_converter = NewConverter
    BY DEF ParserInv, generate_stream_segments
  <1>3. IsResult(r)
    BY <1>1, <1>2, FragmentedGood, RegularGood DEF generate_mse_segments
  <1> QED
    BY <1>1, <1>3 DEF IsResult

\* The boxes no longer change once the initialization segments are made
InitsInv ==
    /\ InitsSplitTheTracks
    /\ inits # NoInits => outcome # "reading"

\* generate_separate_init_segments establishes it
LEMMA InitsMade ==
    ASSUME ParserInv, generate_separate_init_segments
    PROVE  InitsInv'
  <1> DEFINE moov == LastBox("moov")
             ftyp == LastBox("ftyp")
             new(type) == filter_moov_for_track_type(moov.kids, type)
             only(type) == serialize_box(ftyp) \o <<[moov EXCEPT !.kids = new(type)]>>
  <1> SUFFICES ASSUME inits' # inits PROVE InitsInv'
    <2>1. CASE inits' = inits
      <3>1. inits = NoInits /\ outcome' # "reading"
        BY DEF generate_separate_init_segments
      <3> QED
        BY <2>1, <3>1 DEF InitsInv, InitsSplitTheTracks
    <2> QED
      BY <2>1
  <1>1. /\ inits' = [video |-> only("vide"),
                     audio |-> IF HasTrack(tracks, "soun") THEN only("soun") ELSE <<>>]
        /\ boxes' = boxes /\ outcome' = outcome /\ outcome # "reading"
        /\ Places("moov") # {}
    BY DEF generate_separate_init_segments
  <1>2. TypedBox(moov)
    <2>1. moov \in ToSet(boxes)
      BY <1>1, PlacesFacts DEF ParserInv
    <2> QED
      BY <2>1, FileFacts DEF ParserInv, FileInv
  <1>3. LastBox("moov")' = moov
    BY <1>1 DEF LastBox, Places
  <1> HIDE DEF moov, ftyp
  <1>4. /\ IsSeq(moov.kids) /\ "kids" \in DOMAIN moov
        /\ TypedMvex(moov.kids) /\ TypedTraks(moov.kids)
    <2>1. IsSeq(moov.kids) /\ "kids" \in DOMAIN moov
      BY <1>2 DEF TypedBox, HasKids, IsSeq
    <2>2. TypedMvex(moov.kids)
      BY <1>2 DEF TypedBox, TypedMvex
    <2>3. TypedTraks(moov.kids)
      BY <1>2 DEF TypedBox, TypedTraks
    <2> QED
      BY <2>1, <2>2, <2>3
  <1>5. ASSUME NEW type PROVE SplitsOff(moov.kids, Last(only(type)).kids, type)
    <2> DEFINE old == moov.kids
    <2>1. IsSeq(old) /\ TypedMvex(old) /\ TypedTraks(old)
      BY <1>4
    <2> HIDE DEF old
    <2>2. SplitsOff(old, filter_moov_for_track_type(old, type), type)
      BY <2>1, SplitOff
    <2> DEFINE kids == new(type)
    <2> HIDE DEF kids
    <2>3. Last(serialize_box(ftyp) \o <<[moov EXCEPT !.kids = kids]>>).kids = kids
      BY <1>4, LastOfInit
    <2> QED
      BY <2>2, <2>3 DEF old, kids
  <1> HIDE DEF only
  <1>6. inits'.video = only("vide") /\ (inits'.audio # <<>> => inits'.audio = only("soun"))
    BY <1>1
  <1>7. /\ SplitsOff(moov.kids, Last(inits'.video).kids, "vide")
        /\ inits'.audio # <<>> => SplitsOff(moov.kids, Last(inits'.audio).kids, "soun")
    BY <1>5, <1>6
  <1> QED
    BY <1>1, <1>3, <1>7 DEF InitsInv, InitsSplitTheTracks

\* For any file whose last moov has well-formed traks, and whatever else is in it: the
\* initialization segment for a kind of track has exactly the traks the parser listed as
\* that kind, in order, its mvex names exactly those of their ids it named before, and the
\* other boxes of the moov stay (generate_separate_init_segments, parse_trak_box).
THEOREM InitsAlwaysSplit == ParserSpec => []InitsSplitTheTracks
  <1>1. ParserInit => InitsInv
    BY DEF ParserInit, InitsInv, InitsSplitTheTracks
  <1>2. ParserInv /\ InitsInv /\ [ParserNext]_parserVars => InitsInv'
    <2> SUFFICES ASSUME ParserInv, InitsInv, [ParserNext]_parserVars PROVE InitsInv'
      OBVIOUS
    <2>1. ASSUME inits' = inits, outcome = "reading" PROVE InitsInv'
      BY <2>1 DEF InitsInv, InitsSplitTheTracks
    <2>2. CASE parse_box \/ parse_end \/ parse_box_to_end
      BY <2>1, <2>2 DEF parse_box, parse_end, parse_box_to_end
    <2>3. ASSUME inits' = inits, boxes' = boxes, outcome' = outcome \/ outcome' # "reading"
          PROVE  InitsInv'
      BY <2>3 DEF InitsInv, InitsSplitTheTracks, LastBox, Places
    <2>4. CASE \E stream \in StreamIds : generate_stream_segments(stream)
      <3>1. PICK stream \in StreamIds : generate_stream_segments(stream)
        BY <2>4
      <3>2. outcome' # "reading"
        BY <3>1, Ended
      <3> QED
        BY <2>3, <3>1, <3>2 DEF generate_stream_segments
    <2>5. CASE generate_separate_init_segments
      BY <2>5, InitsMade
    <2>6. CASE UNCHANGED parserVars
      BY <2>3, <2>6 DEF parserVars
    <2> QED
      BY <2>2, <2>4, <2>5, <2>6 DEF ParserNext
  <1> QED
    BY <1>1, <1>2, ParserInvariant, PTL DEF ParserSpec, InitsInv

-----------------------------------------------------------------------------
(* Fragments are retimed *)

\* The places where a walk that passes over tiny boxes ends
Gaps(kids) == {i \in 1..Len(kids) : ~kids[i].whole /\ ~kids[i].tiny}

\* Passed returns the boxes before the first of them
LEMMA PassedFacts ==
    ASSUME NEW kids, IsSeq(kids)
    PROVE  IsUntil(Passed(kids), kids, Gaps(kids)) /\ ToSet(Passed(kids)) \subseteq ToSet(kids)
  <1> DEFINE bad == Gaps(kids)
  <1>1. Passed(kids) = Until(kids, bad)
    BY DEF Passed, Gaps
  <1>2. bad \in SUBSET (1..Len(kids))
    BY DEF Gaps
  <1> HIDE DEF bad
  <1>3. IsUntil(Until(kids, bad), kids, bad) /\ ToSet(Until(kids, bad)) \subseteq ToSet(kids)
    BY <1>2, UntilFacts
  <1> QED
    BY <1>1, <1>3 DEF bad

\* A box before and after its flags are fixed (fix_single_tfhd_flags)
Flags == {"base-data-offset", "default-base-is-moof"}
Fixed(x, y) ==
    /\ y.type = x.type
    /\ x.type = "tfhd" => y.flags \ Flags = x.flags \ Flags
    /\ x.type # "tfhd" => y = x
Related(x, y) ==
    x.type = "tfhd" /\ x.bytes >= 8 => y.flags \cap Flags = {"default-base-is-moof"}

\* Boxes before and after, and all of them made relative that are long enough
Refit(w, v) ==
    /\ IsSeq(w) /\ IsSeq(v) /\ Len(v) = Len(w)
    /\ \A i \in 1..Len(w) : Fixed(w[i], v[i])
AllRelated(w, v) == \A i \in 1..Len(w) : Related(w[i], v[i])

\* fix_single_tfhd_flags changes the flags only
LEMMA FlagsFixed ==
    ASSUME NEW d, HasTfhdFields(d), d.type = "tfhd"
    PROVE  LET e == fix_single_tfhd_flags(d)
           IN  Fixed(d, e) /\ Related(d, e) /\ e.whole = d.whole
  <1> DEFINE e == fix_single_tfhd_flags(d)
             f == (d.flags \ {"base-data-offset"}) \cup {"default-base-is-moof"}
  <1>1. e = IF d.bytes < 8 THEN d ELSE [d EXCEPT !.flags = f]
    BY DEF fix_single_tfhd_flags
  <1>2. f \cap Flags = {"default-base-is-moof"} /\ f \ Flags = d.flags \ Flags
    BY DEF Flags
  <1> HIDE DEF e, f
  <1>3. e.type = d.type /\ e.whole = d.whole /\ (e.flags = d.flags \/ e.flags = f)
    BY <1>1 DEF HasTfhdFields
  <1>4. ~(d.bytes < 8) => e.flags = f
    BY <1>1 DEF HasTfhdFields
  <1>5. d.bytes >= 8 => ~(d.bytes < 8)
    BY DEF HasTfhdFields
  <1> QED
    BY <1>2, <1>3, <1>4, <1>5 DEF Fixed, Related, e

\* What fix_moof_tfhd_flags makes of the boxes of a traf
FixedKids(k) ==
    [j \in DOMAIN k |-> IF j <= Len(Whole(k)) /\ k[j].type = "tfhd" THEN fix_single_tfhd_flags(k[j])
                        ELSE k[j]]

\* The boxes of a traf are refitted, and made relative unless a tiny box hides some
LEMMA KidsFixed ==
    ASSUME NEW k, IsSeq(k), \A d \in ToSet(k) : d.type = "tfhd" => HasTfhdFields(d)
    PROVE  LET w == Passed(k)
               v == Passed(FixedKids(k))
           IN  Refit(w, v) /\ (Whole(k) = w => AllRelated(w, v))
  <1> DEFINE l == FixedKids(k)
             w == Passed(k)
             v == Passed(l)
             h == Whole(k)
             n == Len(k)
             bad == Gaps(k)
  <1>1. n \in Nat /\ DOMAIN k = 1..n /\ \A j \in 1..n : k[j] \in ToSet(k)
    BY SeqFacts
  <1>2. IsSeq(l) /\ Len(l) = n
    <2>1. l = [j \in 1..n |-> l[j]]
      BY <1>1 DEF FixedKids
    <2> HIDE DEF l, n
    <2> QED
      BY <1>1, <2>1, MadeSeq
  <1>3. IsWhole(h, k) /\ Len(h) \in Nat
    BY WholeFacts, SeqFacts DEF IsWhole
  <1> HIDE DEF h
  <1>4. ASSUME NEW j \in 1..n
        PROVE  /\ Fixed(k[j], l[j])
               /\ j <= Len(h) => Related(k[j], l[j])
               /\ j \in Gaps(l) <=> j \in bad
    <2>1. l[j] = IF j <= Len(h) /\ k[j].type = "tfhd" THEN fix_single_tfhd_flags(k[j]) ELSE k[j]
      BY <1>1 DEF FixedKids, h
    <2>2. CASE j <= Len(h) /\ k[j].type = "tfhd"
      <3>1. HasTfhdFields(k[j])
        BY <1>1, <2>2
      <3> DEFINE d == k[j]
                 e == l[j]
      <3>2. Fixed(d, e) /\ Related(d, e) /\ e.whole = d.whole
        <4> HIDE DEF d, l
        <4> QED
          BY <2>1, <2>2, <3>1, FlagsFixed DEF d
      <3>3. d.whole
        BY <1>3, <2>2 DEF IsWhole
      <3>4. j \notin Gaps(l) /\ j \notin bad
        <4> HIDE DEF l
        <4> QED
          BY <3>2, <3>3 DEF Gaps
      <3> QED
        BY <3>2, <3>4
    <2>3. CASE ~(j <= Len(h) /\ k[j].type = "tfhd")
      <3>1. l[j] = k[j]
        BY <2>1, <2>3
      <3> HIDE DEF l
      <3>2. Fixed(k[j], l[j]) /\ (j <= Len(h) => Related(k[j], l[j]))
        BY <2>3, <3>1 DEF Fixed, Related
      <3>3. j \in Gaps(l) <=> j \in bad
        BY <1>2, <3>1 DEF Gaps
      <3> QED
        BY <3>2, <3>3
    <2> QED
      BY <2>2, <2>3
  <1> HIDE DEF l
  <1>5. Gaps(l) = bad
    <2>1. Gaps(l) \subseteq 1..n /\ bad \subseteq 1..n
      BY <1>2 DEF Gaps
    <2> HIDE DEF bad
    <2> QED
      BY <1>4, <2>1
  <1>6. IsUntil(w, k, bad) /\ IsUntil(v, l, bad)
    BY <1>2, <1>5, PassedFacts
  <1> HIDE DEF w, v, bad
  <1>7. Len(w) = Len(v) /\ Len(w) \in Nat /\ Len(w) <= n
    <2>1. Len(w) = Len(v)
      BY <1>2, <1>6, UntilSame
    <2> QED
      BY <1>6, <2>1, SeqFacts DEF IsUntil
  <1>8. ASSUME NEW i \in 1..Len(w)
        PROVE  Fixed(w[i], v[i]) /\ (i <= Len(h) => Related(w[i], v[i]))
    <2>1. w[i] = k[i] /\ v[i] = l[i] /\ i \in 1..n
      BY <1>1, <1>6, <1>7 DEF IsUntil
    <2> QED
      BY <1>4, <2>1
  <1>9. Refit(w, v)
    BY <1>6, <1>7, <1>8 DEF Refit, IsUntil
  <1>10. h = w => AllRelated(w, v)
    BY <1>7, <1>8 DEF AllRelated
  <1> QED
    BY <1>9, <1>10 DEF l, v, w, h

\* Boxes that are left alone
LEMMA RefitAlone ==
    ASSUME NEW w, IsSeq(w)
    PROVE  Refit(w, w)
  BY DEF Refit, Fixed

\* Boxes of other types are the same before and after
LEMMA RefitSame ==
    ASSUME NEW w, NEW v, Refit(w, v), NEW T, NEW U,
           \A x \in ToSet(w) : x \in T => x.type # "tfhd",
           \A i \in 1..Len(w) : v[i] \in U <=> w[i] \in T
    PROVE  Sifted(v, U) = Sifted(w, T)
  <1>1. \A i \in 1..Len(w) : w[i] \in ToSet(w)
    BY SeqFacts DEF Refit
  <1>2. \A i \in 1..Len(w) : w[i] \in T => v[i] = w[i]
    BY <1>1 DEF Refit, Fixed
  <1>3. Sifted(w, T) = Sifted(v, U)
    BY <1>2, SiftedSame DEF Refit
  <1> QED
    BY <1>3

\* The last tfhd is fixed
LEMMA RefitHeader ==
    ASSUME NEW w, NEW v, Refit(w, v)
    PROVE  LET a == Sifted(w, Typed(w, "tfhd"))
               b == Sifted(v, Typed(v, "tfhd"))
           IN  /\ a = <<>> <=> b = <<>>
               /\ a # <<>> => /\ Last(a).type = "tfhd" /\ Fixed(Last(a), Last(b))
                              /\ AllRelated(w, v) => Related(Last(a), Last(b))
  <1> DEFINE T == Typed(w, "tfhd")
             U == Typed(v, "tfhd")
             R == {<<w[i], v[i]>> : i \in {j \in 1..Len(w) : w[j].type = "tfhd"}}
             a == Sifted(w, T)
             b == Sifted(v, U)
  <1>1. /\ IsSeq(w) /\ IsSeq(v) /\ Len(w) = Len(v)
        /\ \A i \in 1..Len(w) : w[i] \in ToSet(w) /\ v[i] \in ToSet(v)
    BY SeqFacts DEF Refit
  <1>2. \A i \in 1..Len(w) : w[i] \in T <=> v[i] \in U
    BY <1>1 DEF Typed, Refit, Fixed
  <1>3. \A i \in 1..Len(w) : w[i] \in T => <<w[i], v[i]>> \in R
    BY DEF Typed
  <1>4. \A x, y : <<x, y>> \in R =>
           x.type = "tfhd" /\ Fixed(x, y) /\ (AllRelated(w, v) => Related(x, y))
    BY DEF Refit, AllRelated
  <1> HIDE DEF R
  <1>5. Len(a) = Len(b) /\ \A k \in 1..Len(a) : <<a[k], b[k]>> \in R
    <2> HIDE DEF T, U
    <2> QED
      BY <1>1, <1>2, <1>3, SiftedAlike
  <1>6. IsSeq(a) /\ IsSeq(b)
    BY <1>1, SiftedSeq
  <1> HIDE DEF a, b
  <1>7. a = <<>> <=> b = <<>>
    <2>1. a = <<>> <=> Len(a) = 0
      BY <1>6, NoneSeq, LastOf
    <2>2. b = <<>> <=> Len(b) = 0
      BY <1>6, NoneSeq, LastOf
    <2> QED
      BY <1>5, <2>1, <2>2
  <1>8. ASSUME a # <<>>
        PROVE  /\ Last(a).type = "tfhd" /\ Fixed(Last(a), Last(b))
               /\ AllRelated(w, v) => Related(Last(a), Last(b))
    <2>1. Len(a) \in 1..Len(a) /\ Last(a) = a[Len(a)]
      BY <1>6, <1>8, LastOf
    <2>2. Last(b) = b[Len(b)]
      BY <1>6, <1>7, <1>8, LastOf
    <2>3. <<Last(a), Last(b)>> \in R
      BY <1>5, <2>1, <2>2
    <2> QED
      BY <1>4, <2>3
  <1> QED
    BY <1>7, <1>8 DEF a, b

\* What ensure_traf_has_tfdt makes of a box that is not a tfhd
Retime(b, time) == IF b.type = "tfdt" THEN create_tfdt_box(time) ELSE b
RetimedKids(x, time) == [i \in 1..Len(x) |-> Retime(x[i], time)]

\* The tfhd, the new tfdt and the other boxes of the traf that is sent
IsSent(n, v, x, head, tfdt, rest, time) ==
    /\ n = (head \o tfdt) \o rest
    /\ head = IF Sifted(v, Typed(v, "tfhd")) = <<>> THEN <<>>
              ELSE <<Last(Sifted(v, Typed(v, "tfhd")))>>
    /\ tfdt = IF Sifted(v, Typed(v, "tfdt")) # <<>> THEN <<>> ELSE <<create_tfdt_box(time)>>
    /\ x = Sifted(v, {b \in ToSet(v) : b.type # "tfhd"})
    /\ rest = RetimedKids(x, time)

\* ensure_traf_has_tfdt makes these parts
LEMMA SentKids ==
    ASSUME NEW u, "kids" \in DOMAIN u, NEW time
    PROVE  \E x, head, tfdt, rest :
               IsSent(ensure_traf_has_tfdt(u, time).kids, Passed(u.kids), x, head, tfdt, rest, time)
  <1> DEFINE v == Passed(u.kids)
             A == Typed(v, "tfhd")
             D == Typed(v, "tfdt")
             N == {b \in ToSet(v) : b.type # "tfhd"}
             x == Sifted(v, N)
             head == IF Sifted(v, A) = <<>> THEN <<>> ELSE <<Last(Sifted(v, A))>>
             tfdt == IF Sifted(v, D) # <<>> THEN <<>> ELSE <<create_tfdt_box(time)>>
             rest == RetimedKids(x, time)
             n == ensure_traf_has_tfdt(u, time).kids
  <1>1. Among(v, "tfhd") = Sifted(v, A) /\ Among(v, "tfdt") = Sifted(v, D)
    BY DEF Among, Typed
  <1> DEFINE k == (head \o tfdt) \o rest
  <1>2. ensure_traf_has_tfdt(u, time) = [u EXCEPT !.kids = k]
    BY <1>1 DEF ensure_traf_has_tfdt, RetimedKids, Retime
  <1>3. n = k
    <2> HIDE DEF k
    <2> QED
      BY <1>2
  <1>4. IsSent(n, v, x, head, tfdt, rest, time)
    <2> HIDE DEF v, n
    <2> QED
      BY <1>3 DEF IsSent
  <1> QED
    BY <1>4

\* The parts are sequences
LEMMA SentParts ==
    ASSUME NEW w, NEW v, Refit(w, v), NEW time, NEW n, NEW x, NEW head, NEW tfdt, NEW rest,
           IsSent(n, v, x, head, tfdt, rest, time)
    PROVE  /\ IsSeq(head) /\ IsSeq(tfdt) /\ IsSeq(rest) /\ IsSeq(x) /\ Len(rest) = Len(x)
           /\ \A b \in ToSet(head) : b.type = "tfhd"
           /\ \A b \in ToSet(tfdt) : b = create_tfdt_box(time)
           /\ \A i \in 1..Len(x) : x[i] \in ToSet(v) /\ x[i].type # "tfhd"
           /\ \A i \in 1..Len(x) : rest[i] = Retime(x[i], time)
           /\ \A b \in ToSet(rest) : b.type # "tfhd" /\ (b.type = "tfdt" => b = create_tfdt_box(time))
  <1>1. IsSeq(v)
    BY DEF Refit
  <1>2. IsSeq(head) /\ \A b \in ToSet(head) : b.type = "tfhd"
    <2> DEFINE a == Sifted(v, Typed(v, "tfhd"))
    <2>1. head = IF a = <<>> THEN <<>> ELSE <<Last(a)>>
      BY DEF IsSent
    <2>2. IsSeq(a) /\ ToSet(a) = ToSet(v) \cap Typed(v, "tfhd")
      BY <1>1, SiftedSeq
    <2> HIDE DEF a
    <2>3. CASE a = <<>>
      BY <2>1, <2>3, NoneSeq
    <2>4. CASE a # <<>>
      <3> DEFINE h == Last(a)
      <3>1. h \in ToSet(a)
        BY <2>2, <2>4, LastOf
      <3>2. h.type = "tfhd"
        BY <1>1, <2>2, <3>1 DEF Typed
      <3> HIDE DEF h
      <3>3. head = <<h>>
        BY <2>1, <2>4 DEF h
      <3> QED
        BY <3>2, <3>3, OneSeq
    <2> QED
      BY <2>3, <2>4
  <1>3. IsSeq(tfdt) /\ \A b \in ToSet(tfdt) : b = create_tfdt_box(time)
    <2> DEFINE c == create_tfdt_box(time)
    <2> HIDE DEF c
    <2>1. tfdt = <<>> \/ tfdt = <<c>>
      BY DEF IsSent, c
    <2>2. IsSeq(tfdt) /\ \A b \in ToSet(tfdt) : b = c
      BY <2>1, NoneSeq, OneSeq
    <2> QED
      BY <2>2 DEF c
  <1>4. IsSeq(x) /\ \A i \in 1..Len(x) : x[i] \in ToSet(v) /\ x[i].type # "tfhd"
    <2> DEFINE N == {b \in ToSet(v) : b.type # "tfhd"}
    <2>1. x = Sifted(v, N)
      BY DEF IsSent
    <2>2. \A b \in N : b \in ToSet(v) /\ b.type # "tfhd"
      BY <1>1
    <2> HIDE DEF N
    <2>3. IsSeq(x) /\ ToSet(x) = ToSet(v) \cap N
      BY <1>1, <2>1, SiftedSeq
    <2> QED
      BY <2>2, <2>3, SeqFacts
  <1>5. /\ IsSeq(rest) /\ Len(rest) = Len(x)
        /\ \A i \in 1..Len(x) : rest[i] = Retime(x[i], time)
    <2> DEFINE m == Len(x)
    <2>1. m \in Nat
      BY <1>4, SeqFacts
    <2>2. rest = [i \in 1..m |-> Retime(x[i], time)]
      BY DEF IsSent, RetimedKids
    <2> HIDE DEF m
    <2>3. rest = [i \in 1..m |-> rest[i]]
      BY <2>2
    <2>4. IsSeq(rest) /\ Len(rest) = m
      BY <2>1, <2>3, MadeSeq
    <2> QED
      BY <2>2, <2>4 DEF m
  <1>6. ASSUME NEW b \in ToSet(rest)
        PROVE  b.type # "tfhd" /\ (b.type = "tfdt" => b = create_tfdt_box(time))
    <2>1. PICK i \in 1..Len(x) : b = Retime(x[i], time)
      BY <1>5, SeqFacts DEF ToSet
    <2>2. create_tfdt_box(time).type = "tfdt"
      BY DEF create_tfdt_box
    <2> QED
      BY <1>4, <2>1, <2>2 DEF Retime
  <1> QED
    BY <1>2, <1>3, <1>4, <1>5, <1>6

\* What is of some kind in what is sent comes from the parts
LEMMA SentJoined ==
    ASSUME NEW w, NEW v, Refit(w, v), NEW time, NEW n, NEW x, NEW head, NEW tfdt, NEW rest,
           IsSent(n, v, x, head, tfdt, rest, time)
    PROVE  /\ IsSeq(n)
           /\ ToSet(n) = (ToSet(head) \cup ToSet(tfdt)) \cup ToSet(rest)
           /\ \A T : Sifted(n, T) = (Sifted(head, T) \o Sifted(tfdt, T)) \o Sifted(rest, T)
           /\ head # <<>> => n[1] = head[1]
  <1> DEFINE q == head \o tfdt
  <1>1. IsSeq(head) /\ IsSeq(tfdt) /\ IsSeq(rest)
    BY SentParts
  <1>2. IsConcat(q, head, tfdt, Len(head), Len(tfdt))
    BY <1>1 DEF IsConcat
  <1>3. n = q \o rest
    BY DEF IsSent
  <1> HIDE DEF q
  <1>4. /\ IsSeq(q) /\ ToSet(q) = ToSet(head) \cup ToSet(tfdt) /\ Len(q) = Len(head) + Len(tfdt)
        /\ \A i \in 1..Len(head) : q[i] = head[i]
    <2> DEFINE a == Len(head)
               c == Len(tfdt)
    <2>1. IsConcat(q, head, tfdt, a, c)
      BY <1>2
    <2> HIDE DEF a, c
    <2>2. /\ IsSeq(q) /\ ToSet(q) = ToSet(head) \cup ToSet(tfdt) /\ Len(q) = a + c
          /\ \A i \in 1..a : q[i] = head[i]
      BY <2>1, Joining
    <2> QED
      BY <2>2 DEF a, c
  <1>5. IsConcat(n, q, rest, Len(q), Len(rest))
    BY <1>1, <1>3, <1>4 DEF IsConcat
  <1>6. /\ IsSeq(n) /\ ToSet(n) = ToSet(q) \cup ToSet(rest)
        /\ \A i \in 1..Len(q) : n[i] = q[i]
    <2> DEFINE a == Len(q)
               c == Len(rest)
    <2>1. IsConcat(n, q, rest, a, c)
      BY <1>5
    <2> HIDE DEF a, c
    <2>2. /\ IsSeq(n) /\ ToSet(n) = ToSet(q) \cup ToSet(rest)
          /\ \A i \in 1..a : n[i] = q[i]
      BY <2>1, Joining
    <2> QED
      BY <2>2 DEF a, c
  <1>8. ASSUME NEW T PROVE Sifted(n, T) = (Sifted(head, T) \o Sifted(tfdt, T)) \o Sifted(rest, T)
    <2>1. Sifted(n, T) = Sifted(q, T) \o Sifted(rest, T)
      BY <1>5, SiftedConcat
    <2>2. Sifted(q, T) = Sifted(head, T) \o Sifted(tfdt, T)
      BY <1>2, SiftedConcat
    <2> QED
      BY <2>1, <2>2
  <1>9. ASSUME head # <<>> PROVE n[1] = head[1]
    <2>1. Len(head) \in Nat /\ Len(head) > 0 /\ Len(tfdt) \in Nat
      BY <1>1, <1>9, LastOf, SeqFacts
    <2>2. 1 \in 1..Len(head) /\ 1 \in 1..Len(q)
      BY <1>4, <2>1
    <2> QED
      BY <1>4, <1>6, <2>2
  <1> QED
    BY <1>4, <1>6, <1>8, <1>9

\* Putting nothing before something, or something before nothing
LEMMA WithNone ==
    ASSUME NEW s, IsSeq(s)
    PROVE  <<>> \o s = s /\ s \o <<>> = s
  <1> DEFINE X == ToSet(s)
  <1>1. s \in Seq(X)
    BY DEF IsSeq
  <1> HIDE DEF X
  <1> QED
    BY <1>1

\* The boxes of a type other than tfhd and tfdt are those there were
LEMMA SentOthers ==
    ASSUME NEW w, NEW v, Refit(w, v), NEW time, NEW n, NEW x, NEW head, NEW tfdt, NEW rest,
           IsSent(n, v, x, head, tfdt, rest, time), NEW type, type \notin {"tfhd", "tfdt"}
    PROVE  Sifted(n, Typed(n, type)) = Sifted(w, Typed(w, type))
  <1> DEFINE T == Typed(n, type)
             U == Typed(v, type)
             W == Typed(w, type)
             N == {b \in ToSet(v) : b.type # "tfhd"}
  <1>1. /\ IsSeq(head) /\ IsSeq(tfdt) /\ IsSeq(rest) /\ IsSeq(x) /\ Len(rest) = Len(x)
        /\ \A b \in ToSet(head) : b.type = "tfhd"
        /\ \A b \in ToSet(tfdt) : b = create_tfdt_box(time)
        /\ \A i \in 1..Len(x) : x[i] \in ToSet(v) /\ x[i].type # "tfhd"
        /\ \A i \in 1..Len(x) : rest[i] = Retime(x[i], time)
    BY SentParts
  <1>2. /\ ToSet(n) = (ToSet(head) \cup ToSet(tfdt)) \cup ToSet(rest)
        /\ Sifted(n, T) = (Sifted(head, T) \o Sifted(tfdt, T)) \o Sifted(rest, T)
    BY SentJoined
  <1>3. create_tfdt_box(time).type = "tfdt"
    BY DEF create_tfdt_box
  <1>4. ToSet(head) \cap T = {} /\ ToSet(tfdt) \cap T = {}
    BY <1>1, <1>3 DEF Typed
  <1>5. \A i \in 1..Len(x) : (x[i] \in U <=> rest[i] \in T) /\ (x[i] \in U => x[i] = rest[i])
    <2>1. \A i \in 1..Len(x) : rest[i] \in ToSet(n)
      BY <1>1, <1>2, SeqFacts
    <2> QED
      BY <1>1, <1>3, <2>1 DEF Typed, Retime
  <1>6. Refit(w, v) /\ x = Sifted(v, N) /\ IsSeq(v)
    BY DEF IsSent, Refit
  <1>7. \A i \in 1..Len(w) : v[i] \in N \cap U <=> w[i] \in W
    <2>1. \A i \in 1..Len(w) : v[i] \in ToSet(v) /\ w[i] \in ToSet(w) /\ v[i].type = w[i].type
      BY SeqFacts DEF Refit, Fixed
    <2> QED
      BY <2>1 DEF Typed
  <1>8. \A b \in ToSet(w) : b \in W => b.type # "tfhd"
    BY DEF Typed
  <1> HIDE DEF T, U, W, N
  <1>9. Sifted(head, T) = <<>> /\ Sifted(tfdt, T) = <<>>
    BY <1>1, <1>4, SiftedEnds
  <1>10. Sifted(x, U) = Sifted(rest, T)
    BY <1>1, <1>5, SiftedSame
  <1>11. Sifted(x, U) = Sifted(v, N \cap U)
    BY <1>6, SiftedTwice
  <1>12. Sifted(v, N \cap U) = Sifted(w, W)
    <2> DEFINE Z == N \cap U
    <2>1. \A i \in 1..Len(w) : v[i] \in Z <=> w[i] \in W
      BY <1>7
    <2> HIDE DEF Z
    <2>2. Sifted(v, Z) = Sifted(w, W)
      BY <1>6, <1>8, <2>1, RefitSame
    <2> QED
      BY <2>2 DEF Z
  <1>13. IsSeq(Sifted(rest, T))
    BY <1>1, SiftedSeq
  <1> DEFINE r == Sifted(rest, T)
  <1>14. (<<>> \o <<>>) \o r = r
    <2> HIDE DEF r
    <2>1. <<>> \o <<>> = <<>>
      BY NoneSeq, WithNone
    <2>2. <<>> \o r = r
      BY <1>13, WithNone DEF r
    <2> QED
      BY <2>1, <2>2
  <1> QED
    BY <1>2, <1>9, <1>10, <1>11, <1>12, <1>14 DEF T, W

\* There are as many tfdt as there were, or one where there was none
LEMMA SentTimes ==
    ASSUME NEW w, NEW v, Refit(w, v), NEW time, NEW n, NEW x, NEW head, NEW tfdt, NEW rest,
           IsSent(n, v, x, head, tfdt, rest, time)
    PROVE  LET had == Len(Sifted(w, Typed(w, "tfdt")))
               s   == Sifted(n, Typed(n, "tfdt"))
           IN  /\ had \in Nat /\ IsSeq(s) /\ Len(s) = IF had = 0 THEN 1 ELSE had
               /\ \A d \in ToSet(s) : d = create_tfdt_box(time)
  <1> DEFINE T == Typed(n, "tfdt")
             U == Typed(v, "tfdt")
             W == Typed(w, "tfdt")
             N == {b \in ToSet(v) : b.type # "tfhd"}
             s == Sifted(n, T)
             had == Len(Sifted(w, W))
             c == Sifted(rest, T)
             tf == create_tfdt_box(time)
  <1>1. /\ IsSeq(head) /\ IsSeq(tfdt) /\ IsSeq(rest) /\ IsSeq(x) /\ Len(rest) = Len(x)
        /\ \A b \in ToSet(head) : b.type = "tfhd"
        /\ \A b \in ToSet(tfdt) : b = tf
        /\ \A i \in 1..Len(x) : x[i] \in ToSet(v) /\ x[i].type # "tfhd"
        /\ \A i \in 1..Len(x) : rest[i] = Retime(x[i], time)
        /\ \A b \in ToSet(rest) : b.type # "tfhd" /\ (b.type = "tfdt" => b = tf)
    BY SentParts
  <1>2. /\ IsSeq(n) /\ ToSet(n) = (ToSet(head) \cup ToSet(tfdt)) \cup ToSet(rest)
        /\ Sifted(n, T) = (Sifted(head, T) \o Sifted(tfdt, T)) \o Sifted(rest, T)
    BY SentJoined
  <1>3. tf.type = "tfdt"
    BY DEF create_tfdt_box
  <1> HIDE DEF tf
  <1>4. ToSet(head) \cap T = {} /\ ToSet(tfdt) \subseteq T
    BY <1>1, <1>2, <1>3 DEF Typed
  <1>5. \A i \in 1..Len(x) : x[i] \in U <=> rest[i] \in T
    <2>1. \A i \in 1..Len(x) : rest[i] \in ToSet(n)
      BY <1>1, <1>2, SeqFacts
    <2> QED
      BY <1>1, <1>3, <2>1 DEF Typed, Retime, tf
  <1>6. Refit(w, v) /\ x = Sifted(v, N) /\ IsSeq(v) /\ IsSeq(w)
    BY DEF IsSent, Refit
  <1>7. \A i \in 1..Len(w) : v[i] \in N \cap U <=> w[i] \in W
    <2>1. \A i \in 1..Len(w) : v[i] \in ToSet(v) /\ w[i] \in ToSet(w) /\ v[i].type = w[i].type
      BY SeqFacts DEF Refit, Fixed
    <2> QED
      BY <2>1 DEF Typed
  <1>8. \A i \in 1..Len(w) : v[i] \in U <=> w[i] \in W
    <2>1. \A i \in 1..Len(w) : v[i] \in ToSet(v) /\ w[i] \in ToSet(w) /\ v[i].type = w[i].type
      BY SeqFacts DEF Refit, Fixed
    <2> QED
      BY <2>1 DEF Typed
  <1>9. \A b \in ToSet(w) : b \in W => b.type # "tfhd"
    BY DEF Typed
  <1>10. \A d \in ToSet(n) \cap T : d = tf
    BY <1>1, <1>2 DEF Typed
  <1>11. tfdt = IF Sifted(v, U) # <<>> THEN <<>> ELSE <<tf>>
    BY DEF IsSent, tf
  <1> HIDE DEF T, U, W, N
  <1>12. Sifted(v, U) = Sifted(w, W)
    BY <1>6, <1>8, <1>9, RefitSame
  <1>13. Sifted(x, U) = Sifted(w, W)
    <2> DEFINE Z == N \cap U
    <2>1. \A i \in 1..Len(w) : v[i] \in Z <=> w[i] \in W
      BY <1>7
    <2>2. Sifted(x, U) = Sifted(v, Z)
      BY <1>6, SiftedTwice
    <2> HIDE DEF Z
    <2>3. Sifted(v, Z) = Sifted(w, W)
      BY <1>6, <1>9, <2>1, RefitSame
    <2> QED
      BY <2>2, <2>3
  <1>14. Len(Sifted(x, U)) = Len(c)
    <2> DEFINE R == {<<x[i], rest[i]>> : i \in 1..Len(x)}
    <2>1. \A i \in 1..Len(x) : <<x[i], rest[i]>> \in R
      OBVIOUS
    <2> HIDE DEF R
    <2> DEFINE d == Sifted(x, U)
    <2>2. Len(d) = Len(c) /\ \A k \in 1..Len(d) : <<d[k], c[k]>> \in R
      BY <1>1, <1>5, <2>1, SiftedAlike
    <2> QED
      BY <2>2
  <1>15. IsSeq(s) /\ ToSet(s) = ToSet(n) \cap T /\ IsSeq(c) /\ IsSeq(Sifted(w, W))
    <2>1. IsSeq(n) /\ IsSeq(rest) /\ IsSeq(w)
      BY <1>1, <1>2, <1>6
    <2> QED
      BY <2>1, SiftedSeq
  <1>16. s = tfdt \o c
    <2>1. Sifted(head, T) = <<>> /\ Sifted(tfdt, T) = tfdt
      BY <1>1, <1>4, SiftedEnds
    <2>2. <<>> \o tfdt = tfdt
      BY <1>1, WithNone
    <2> QED
      BY <1>2, <2>1, <2>2
  <1>17. had \in Nat /\ had = Len(c) /\ (Sifted(w, W) = <<>> <=> had = 0)
    BY <1>13, <1>14, <1>15, SeqFacts, NoneSeq, LastOf
  <1>18. Len(s) = IF had = 0 THEN 1 ELSE had
    <2> DEFINE a == Len(tfdt)
               m == Len(c)
    <2>1. Len(s) = a + m
      <3>1. IsConcat(s, tfdt, c, a, m)
        BY <1>1, <1>15, <1>16 DEF IsConcat
      <3> HIDE DEF a, m, s, c
      <3> QED
        BY <3>1, Joining
    <2>2. a = IF had = 0 THEN 1 ELSE 0
      <3>1. tfdt = IF had = 0 THEN <<tf>> ELSE <<>>
        BY <1>11, <1>12, <1>17
      <3> HIDE DEF had
      <3> QED
        BY <3>1, OneSeq, NoneSeq
    <2> HIDE DEF a, had, s
    <2> QED
      BY <1>17, <2>1, <2>2 DEF m
  <1>19. \A d \in ToSet(s) : d = tf
    BY <1>10, <1>15
  <1> QED
    BY <1>15, <1>17, <1>18, <1>19 DEF T, W, tf

\* A traf that is given its time is retimed, and relative when its tfhd are
LEMMA TrafRetimed ==
    ASSUME NEW k, NEW u, "kids" \in DOMAIN u, NEW time, Refit(Passed(k), Passed(u.kids))
    PROVE  LET n == ensure_traf_has_tfdt(u, time).kids
           IN  /\ Retimed(k, n, time, TRUE)
               /\ AllRelated(Passed(k), Passed(u.kids)) => Retimed(k, n, time, FALSE)
  <1> DEFINE w == Passed(k)
             v == Passed(u.kids)
             n == ensure_traf_has_tfdt(u, time).kids
             Samples(bs) == [i \in 1..Len(Among(bs, "trun")) |-> Among(bs, "trun")[i].samples]
  <1>1. PICK x, head, tfdt, rest : IsSent(n, v, x, head, tfdt, rest, time)
    BY SentKids
  <1>2. Refit(w, v)
    OBVIOUS
  <1> HIDE DEF w, v, n
  <1>3. /\ Among(w, "tfhd") = Sifted(w, Typed(w, "tfhd"))
        /\ Among(w, "tfdt") = Sifted(w, Typed(w, "tfdt"))
        /\ Among(w, "trun") = Sifted(w, Typed(w, "trun"))
        /\ Among(n, "tfdt") = Sifted(n, Typed(n, "tfdt"))
        /\ Among(n, "trun") = Sifted(n, Typed(n, "trun"))
    BY DEF Among, Typed
  <1>4. IsSeq(n) /\ (head # <<>> => n[1] = head[1])
    BY <1>1, <1>2, SentJoined
  <1>5. Samples(n) = Samples(w)
    <2>1. Sifted(n, Typed(n, "trun")) = Sifted(w, Typed(w, "trun"))
      BY <1>1, <1>2, SentOthers
    <2>2. Among(n, "trun") = Among(w, "trun")
      BY <1>3, <2>1
    <2> QED
      BY <2>2
  <1>6. /\ Among(n, "tfdt") # <<>> /\ \A d \in ToSet(Among(n, "tfdt")) : d.time = time
        /\ Len(Among(w, "tfdt")) <= 1 => Len(Among(n, "tfdt")) = 1
    <2> DEFINE had == Len(Sifted(w, Typed(w, "tfdt")))
               s == Sifted(n, Typed(n, "tfdt"))
    <2>1. /\ had \in Nat /\ IsSeq(s) /\ Len(s) = IF had = 0 THEN 1 ELSE had
          /\ \A d \in ToSet(s) : d = create_tfdt_box(time)
      BY <1>1, <1>2, SentTimes
    <2>2. s = Among(n, "tfdt") /\ had = Len(Among(w, "tfdt"))
      BY <1>3
    <2> HIDE DEF had, s
    <2>3. s # <<>>
      BY <2>1, NoneSeq
    <2>4. \A d \in ToSet(s) : d.time = time
      BY <2>1 DEF create_tfdt_box
    <2>5. had <= 1 => Len(s) = 1
      BY <2>1
    <2> QED
      BY <2>2, <2>3, <2>4, <2>5
  <1> DEFINE tfhd == Among(w, "tfhd")
  <1>7. ASSUME tfhd # <<>>
        PROVE  /\ n[1].type = "tfhd"
               /\ n[1].flags \ Flags = Last(tfhd).flags \ Flags
               /\ AllRelated(w, v) /\ Last(tfhd).bytes >= 8 =>
                     n[1].flags \cap Flags = {"default-base-is-moof"}
    <2> DEFINE a == Sifted(w, Typed(w, "tfhd"))
               b == Sifted(v, Typed(v, "tfhd"))
    <2>1. /\ a = <<>> <=> b = <<>>
          /\ a # <<>> => /\ Last(a).type = "tfhd" /\ Fixed(Last(a), Last(b))
                         /\ AllRelated(w, v) => Related(Last(a), Last(b))
      BY <1>2, RefitHeader
    <2>2. head = IF b = <<>> THEN <<>> ELSE <<Last(b)>>
      BY <1>1 DEF IsSent
    <2>3. a = tfhd
      BY <1>3
    <2> HIDE DEF a, b, tfhd
    <2> DEFINE h == Last(b)
               g == Last(a)
    <2>4. g.type = "tfhd" /\ Fixed(g, h) /\ (AllRelated(w, v) => Related(g, h))
      BY <1>7, <2>1, <2>3
    <2>5. n[1] = h
      <3>1. b # <<>>
        BY <1>7, <2>1, <2>3
      <3> HIDE DEF h
      <3>2. head = <<h>>
        BY <2>2, <3>1 DEF h
      <3>3. head # <<>> /\ head[1] = h
        BY <3>2
      <3> QED
        BY <1>4, <3>3
    <2> HIDE DEF g, h
    <2> QED
      BY <2>3, <2>4, <2>5 DEF Fixed, Related, g
  <1> HIDE DEF tfhd
  <1>8. Retimed(k, n, time, TRUE)
    BY <1>5, <1>6, <1>7 DEF Retimed, Flags, w, tfhd
  <1>9. ASSUME AllRelated(w, v) PROVE Retimed(k, n, time, FALSE)
    BY <1>5, <1>6, <1>7, <1>9 DEF Retimed, Flags, w, tfhd
  <1> QED
    BY <1>8, <1>9 DEF w, v, n

\* What the boxes of a moof were and what is sent of them
MoofRetimed(kids, new, time) ==
    LET old == Passed(kids)
    IN  /\ Len(new) = Len(old)
        /\ \A k \in 1..Len(old) :
             /\ new[k].type = old[k].type
             /\ old[k].type = "traf" => Retimed(old[k].kids, new[k].kids, time, old # Whole(kids))
             /\ old[k].type \notin {"traf", "tfhd"} => new[k] = old[k]

\* The boxes of a moof that fix_moof_tfhd_flags works on
MoofKids(kids) ==
    /\ IsSeq(kids)
    /\ \A c \in ToSet(kids) :
          /\ c.type = "tfhd" => HasTfhdFields(c)
          /\ c.type = "traf" => HasKids(c) /\ \A d \in ToSet(c.kids) : d.type = "tfhd" => HasTfhdFields(d)

\* fix_moof_tfhd_flags leaves every box alone but a tfhd and a traf, and these
\* too behind a box that is not whole
LEMMA MoofFixed ==
    ASSUME NEW kids, MoofKids(kids)
    PROVE  LET f == Passed(fix_moof_tfhd_flags(kids))
               w == Passed(kids)
           IN  /\ IsSeq(f) /\ Len(f) = Len(w)
               /\ \A i \in 1..Len(w) :
                    /\ f[i].type = w[i].type
                    /\ w[i].type \notin {"traf", "tfhd"} => f[i] = w[i]
                    /\ w[i].type = "traf" => f[i] = FixTraf(w[i]) \/ (f[i] = w[i] /\ w # Whole(kids))
  <1> DEFINE g == fix_moof_tfhd_flags(kids)
             f == Passed(g)
             w == Passed(kids)
             h == Whole(kids)
             n == Len(kids)
             bad == Gaps(kids)
  <1>1. n \in Nat /\ DOMAIN kids = 1..n /\ \A j \in 1..n : kids[j] \in ToSet(kids)
    BY SeqFacts DEF MoofKids
  <1>2. IsWhole(h, kids) /\ Len(h) \in Nat
    BY WholeFacts, SeqFacts DEF IsWhole, MoofKids
  <1>3. g = [i \in 1..n |->
                CASE i <= Len(h) /\ kids[i].type = "traf" -> FixTraf(kids[i])
                  [] i <= Len(h) /\ kids[i].type = "tfhd" -> fix_single_tfhd_flags(kids[i])
                  [] OTHER -> kids[i]]
    BY <1>1 DEF fix_moof_tfhd_flags
  <1> HIDE DEF w, n, g, h
  <1>4. IsSeq(g) /\ Len(g) = n
    <2>1. g = [j \in 1..n |-> g[j]]
      BY <1>3
    <2> QED
      BY <1>1, <2>1, MadeSeq
  <1>5. ASSUME NEW j \in 1..n
        PROVE  /\ g[j].type = kids[j].type
               /\ kids[j].type \notin {"traf", "tfhd"} => g[j] = kids[j]
               /\ kids[j].type = "traf" => g[j] = FixTraf(kids[j]) \/ (g[j] = kids[j] /\ j > Len(h))
               /\ j \in Gaps(g) <=> j \in bad
    <2> DEFINE c == kids[j]
    <2>0. c \in ToSet(kids)
      BY <1>1
    <2>1. CASE j <= Len(h) /\ c.type = "traf"
      <3>1. g[j] = FixTraf(c)
        BY <1>3, <2>1
      <3>2. HasKids(c) /\ c.whole
        BY <1>2, <2>0, <2>1 DEF MoofKids, IsWhole
      <3> HIDE DEF c
      <3>3. FixTraf(c).type = c.type /\ FixTraf(c).whole = c.whole
        BY <3>2 DEF HasKids, FixTraf
      <3>4. j \notin Gaps(g) /\ j \notin bad
        BY <3>1, <3>2, <3>3 DEF Gaps, c
      <3> QED
        BY <2>1, <3>1, <3>3, <3>4 DEF c
    <2>2. CASE j <= Len(h) /\ c.type = "tfhd"
      <3>1. g[j] = fix_single_tfhd_flags(c)
        BY <1>3, <2>2
      <3>2. HasTfhdFields(c) /\ c.whole
        BY <1>2, <2>0, <2>2 DEF MoofKids, IsWhole
      <3> HIDE DEF c
      <3>3. g[j].type = c.type /\ g[j].whole = c.whole
        BY <2>2, <3>1, <3>2, FlagsFixed DEF Fixed
      <3>4. j \notin Gaps(g) /\ j \notin bad
        BY <3>1, <3>2, <3>3 DEF Gaps, c
      <3> QED
        BY <2>2, <3>3, <3>4 DEF c
    <2>3. CASE ~(j <= Len(h) /\ c.type = "traf") /\ ~(j <= Len(h) /\ c.type = "tfhd")
      <3>1. g[j] = c
        BY <1>3, <2>3
      <3>2. j \in Gaps(g) <=> j \in bad
        BY <1>1, <1>4, <3>1 DEF Gaps, n
      <3>3. c.type = "traf" => j > Len(h)
        BY <1>1, <1>2, <2>3
      <3> QED
        BY <3>1, <3>2, <3>3
    <2> QED
      BY <2>1, <2>2, <2>3
  <1>6. Gaps(g) = bad
    <2>1. Gaps(g) \subseteq 1..n /\ bad \subseteq 1..n
      BY <1>4 DEF Gaps, n
    <2> HIDE DEF bad
    <2> QED
      BY <1>5, <2>1
  <1>7. IsUntil(w, kids, bad) /\ IsUntil(f, g, bad)
    BY <1>4, <1>6, PassedFacts DEF MoofKids, w
  <1> HIDE DEF bad, f
  <1>8. Len(w) = Len(f) /\ Len(w) \in Nat /\ Len(w) <= n
    <2>1. Len(w) = Len(f)
      BY <1>4, <1>7, UntilSame DEF MoofKids, n
    <2> QED
      BY <1>7, <2>1, SeqFacts DEF IsUntil, n
  <1>9. ASSUME NEW i \in 1..Len(w)
        PROVE  /\ f[i].type = w[i].type
               /\ w[i].type \notin {"traf", "tfhd"} => f[i] = w[i]
               /\ w[i].type = "traf" => f[i] = FixTraf(w[i]) \/ (f[i] = w[i] /\ w # h)
    <2>1. w[i] = kids[i] /\ f[i] = g[i] /\ i \in 1..n
      BY <1>1, <1>7, <1>8 DEF IsUntil
    <2>2. i > Len(h) => w # h
      BY <1>2, <1>8
    <2> QED
      BY <1>5, <2>1, <2>2
  <1> QED
    BY <1>7, <1>8, <1>9 DEF IsUntil, f, w, g, h

\* A traf, fixed or left alone, that is given its time
LEMMA TrafSent ==
    ASSUME NEW t, HasKids(t), \A d \in ToSet(t.kids) : d.type = "tfhd" => HasTfhdFields(d), NEW time
    PROVE  /\ LET n == ensure_traf_has_tfdt(FixTraf(t), time).kids
              IN  Retimed(t.kids, n, time, TRUE) /\ Retimed(t.kids, n, time, FALSE)
           /\ Retimed(t.kids, ensure_traf_has_tfdt(t, time).kids, time, TRUE)
  <1> DEFINE k == t.kids
             u == FixTraf(t)
             w == Passed(k)
             v == Passed(u.kids)
             n == ensure_traf_has_tfdt(u, time).kids
             m == ensure_traf_has_tfdt(t, time).kids
  <1>1. IsSeq(k) /\ "kids" \in DOMAIN t
    BY DEF HasKids, IsSeq
  <1>2. "kids" \in DOMAIN u /\ u.kids = FixedKids(k)
    BY DEF HasKids, FixTraf, FixedKids
  <1>3. Refit(w, v) /\ (Whole(k) = w => AllRelated(w, v))
    <2> HIDE DEF u
    <2>1. \A d \in ToSet(k) : d.type = "tfhd" => HasTfhdFields(d)
      OBVIOUS
    <2> HIDE DEF k
    <2>2. LET w1 == Passed(k)
              v1 == Passed(FixedKids(k))
          IN  Refit(w1, v1) /\ (Whole(k) = w1 => AllRelated(w1, v1))
      BY <1>1, <2>1, KidsFixed
    <2> QED
      BY <1>2, <2>2
  <1>4. Retimed(k, n, time, TRUE) /\ (AllRelated(w, v) => Retimed(k, n, time, FALSE))
    <2> HIDE DEF u, k
    <2> QED
      BY <1>2, <1>3, TrafRetimed
  <1>5. ASSUME Whole(k) # w, Retimed(k, n, time, TRUE) PROVE Retimed(k, n, time, FALSE)
    <2> HIDE DEF n, k
    <2> QED
      BY <1>5, Zenon DEF Retimed, w
  <1>6. Retimed(k, m, time, TRUE)
    <2>1. Refit(w, w)
      <3>1. IsSeq(w)
        BY <1>1, PassedFacts DEF IsUntil
      <3> QED
        BY <3>1, RefitAlone
    <2> QED
      BY <1>1, <2>1, TrafRetimed
  <1> QED
    BY <1>3, <1>4, <1>5, <1>6

\* A moof with its flags fixed and its times set is retimed
LEMMA PairRetimed ==
    ASSUME NEW b, TypedBox(b), NEW time
    PROVE  MoofRetimed(b.kids, ensure_moof_has_tfdt(fix_moof_tfhd_flags(b.kids), time), time)
  <1> DEFINE kids == b.kids
             f == Passed(fix_moof_tfhd_flags(kids))
             w == Passed(kids)
             h == Whole(kids)
             new == ensure_moof_has_tfdt(fix_moof_tfhd_flags(kids), time)
             m == Len(f)
  <1>1. MoofKids(kids)
    BY DEF TypedBox, HasKids, IsSeq, MoofKids
  <1> HIDE DEF kids
  <1>2. /\ IsSeq(f) /\ Len(f) = Len(w)
        /\ \A i \in 1..Len(w) :
             /\ f[i].type = w[i].type
             /\ w[i].type \notin {"traf", "tfhd"} => f[i] = w[i]
             /\ w[i].type = "traf" => f[i] = FixTraf(w[i]) \/ (f[i] = w[i] /\ w # h)
    BY <1>1, MoofFixed
  <1>3. new = [i \in 1..m |-> IF f[i].type = "traf" THEN ensure_traf_has_tfdt(f[i], time) ELSE f[i]]
    BY DEF ensure_moof_has_tfdt
  <1>4. IsSeq(w) /\ ToSet(w) \subseteq ToSet(kids)
    BY <1>1, PassedFacts DEF IsUntil, MoofKids
  <1>5. m \in Nat
    BY <1>2, SeqFacts
  <1> HIDE DEF new, f, w, h
  <1>6. Len(new) = m
    <2> HIDE DEF m
    <2>1. new = [i \in 1..m |-> new[i]]
      BY <1>3
    <2> QED
      BY <1>5, <2>1, MadeSeq
  <1>7. ASSUME NEW i \in 1..Len(w)
        PROVE  /\ new[i].type = w[i].type
               /\ w[i].type = "traf" => Retimed(w[i].kids, new[i].kids, time, w # h)
               /\ w[i].type \notin {"traf", "tfhd"} => new[i] = w[i]
    <2> DEFINE t == w[i]
               x == f[i]
    <2>0. i \in 1..m /\ t \in ToSet(kids)
      BY <1>2, <1>4, SeqFacts
    <2>1. CASE t.type = "traf"
      <3>1. x.type = "traf" /\ (x = FixTraf(t) \/ (x = t /\ w # h))
        BY <1>2, <2>1
      <3>2. new[i] = ensure_traf_has_tfdt(x, time)
        BY <1>3, <2>0, <3>1
      <3>3. HasKids(t) /\ \A d \in ToSet(t.kids) : d.type = "tfhd" => HasTfhdFields(d)
        BY <1>1, <2>0, <2>1 DEF MoofKids
      <3> HIDE DEF t, x
      <3>4. /\ Retimed(t.kids, ensure_traf_has_tfdt(FixTraf(t), time).kids, time, TRUE)
            /\ Retimed(t.kids, ensure_traf_has_tfdt(FixTraf(t), time).kids, time, FALSE)
            /\ Retimed(t.kids, ensure_traf_has_tfdt(t, time).kids, time, TRUE)
        BY <3>3, TrafSent
      <3> DEFINE n == new[i].kids
      <3>5. Retimed(t.kids, n, time, TRUE) /\ (w = h => Retimed(t.kids, n, time, FALSE))
        BY <3>1, <3>2, <3>4
      <3>6. Retimed(t.kids, n, time, w # h)
        <4> HIDE DEF n
        <4>1. CASE w = h
          BY <3>5, <4>1, Zenon DEF Retimed
        <4>2. CASE w # h
          BY <3>5, <4>2, Zenon DEF Retimed
        <4> QED
          BY <4>1, <4>2
      <3>7. new[i].type = t.type
        <4>1. {"type", "kids"} \subseteq DOMAIN x /\ x.type = t.type
          BY <2>1, <3>1, <3>3 DEF HasKids, FixTraf
        <4>2. ensure_traf_has_tfdt(x, time).type = x.type
          BY <4>1 DEF ensure_traf_has_tfdt
        <4> QED
          BY <3>2, <4>1, <4>2
      <3> QED
        BY <2>1, <3>6, <3>7 DEF t
    <2>2. CASE t.type # "traf"
      <3>1. x.type # "traf" /\ x.type = t.type /\ (t.type # "tfhd" => x = t)
        BY <1>2, <2>2
      <3>2. new[i] = x
        BY <1>3, <2>0, <3>1
      <3> QED
        BY <2>2, <3>1, <3>2
    <2> QED
      BY <2>1, <2>2
  <1>8. Len(new) = Len(w)
    BY <1>2, <1>6
  <1> QED
    BY <1>7, <1>8, Zenon DEF MoofRetimed, w, h, new, kids

-----------------------------------------------------------------------------
(* The segments of a fragmented file *)

\* The greatest of one number
LEMMA MaxOfOne ==
    ASSUME NEW j \in Nat
    PROVE  Max({j}) = j
  <1>1. {j} \in SUBSET (0..j) /\ {j} # {}
    OBVIOUS
  <1>2. Max({j}) \in {j}
    BY <1>1, GreatestOf
  <1> QED
    BY <1>2

\* The segments of the pairs among the first i boxes: each made of its moof, in the order of
\* the file, and none left out
PairPlaced(s, p, i, frame, timescale) ==
    LET j == Max(s[p].samples)
    IN  /\ j \in 1..i /\ IsPair(j) /\ s[p].samples = {j}
        /\ s[p] = PairSegment(j, p - 1, frame, timescale)
PairsPlaced(s, i, frame, timescale) ==
    /\ IsSeq(s)
    /\ \A p \in 1..Len(s) : PairPlaced(s, p, i, frame, timescale)
    /\ \A p, q \in 1..Len(s) : q < p => Max(s[q].samples) < Max(s[p].samples)
    /\ \A j \in 1..i : IsPair(j) => \E p \in 1..Len(s) : s[p].samples = {j}

\* One more pair
LEMMA PairAdded ==
    ASSUME NEW i \in Nat, NEW frame, NEW timescale, NEW s, PairsPlaced(s, i, frame, timescale),
           IsPair(i + 1), NEW t, Appended(t, s, PairSegment(i + 1, Len(s), frame, timescale))
    PROVE  PairsPlaced(t, i + 1, frame, timescale)
  <1> DEFINE m == Len(s)
             x == PairSegment(i + 1, m, frame, timescale)
  <1>1. x.samples = {i + 1} /\ Max(x.samples) = i + 1
    <2>1. x.samples = {i + 1}
      BY DEF PairSegment, MediaSegment
    <2>2. i + 1 \in Nat
      OBVIOUS
    <2>3. Max({i + 1}) = i + 1
      BY <2>2, MaxOfOne
    <2> QED
      BY <2>1, <2>3
  <1>2. IsSeq(s) /\ Appended(t, s, x)
    BY DEF PairsPlaced
  <1> HIDE DEF x
  <1>3. /\ IsSeq(t) /\ Len(t) = m + 1 /\ m \in Nat
        /\ \A p \in 1..m : t[p] = s[p]
        /\ t[m + 1] = x
    BY <1>2, Appending
  <1>4. ASSUME NEW p \in 1..Len(t) PROVE p \in 1..m \/ p = m + 1
    BY <1>3
  <1>5. ASSUME NEW p \in 1..m
        PROVE  Max(s[p].samples) \in 1..i /\ PairPlaced(s, p, i, frame, timescale)
    BY DEF PairsPlaced, PairPlaced
  <1>6. ASSUME NEW p \in 1..Len(t) PROVE PairPlaced(t, p, i + 1, frame, timescale)
    <2>1. CASE p \in 1..m
      <3>1. t[p] = s[p] /\ PairPlaced(s, p, i, frame, timescale)
        BY <1>3, <1>5, <2>1
      <3>2. 1..i \subseteq 1 .. i + 1
        OBVIOUS
      <3> QED
        BY <3>1, <3>2 DEF PairPlaced
    <2>2. CASE p = m + 1
      <3>1. i + 1 \in 1 .. i + 1 /\ p - 1 = m
        BY <1>3, <2>2
      <3> QED
        BY <1>1, <1>3, <2>2, <3>1 DEF PairPlaced, x
    <2> QED
      BY <1>4, <2>1, <2>2
  <1>7. ASSUME NEW p \in 1..Len(t), NEW q \in 1..Len(t), q < p
        PROVE  Max(t[q].samples) < Max(t[p].samples)
    <2>1. q \in 1..m
      BY <1>3, <1>7
    <2>2. CASE p \in 1..m
      <3>1. t[p] = s[p] /\ t[q] = s[q]
        BY <1>3, <2>1, <2>2
      <3> QED
        BY <1>7, <2>1, <2>2, <3>1 DEF PairsPlaced
    <2>3. CASE p = m + 1
      <3>1. Max(t[p].samples) = i + 1 /\ t[q] = s[q]
        BY <1>1, <1>3, <2>1, <2>3
      <3>2. Max(s[q].samples) \in 1..i
        BY <1>5, <2>1
      <3> QED
        BY <3>1, <3>2
    <2> QED
      BY <1>4, <2>2, <2>3
  <1>8. ASSUME NEW j \in 1 .. i + 1, IsPair(j) PROVE \E p \in 1..Len(t) : t[p].samples = {j}
    <2>1. CASE j \in 1..i
      <3>1. PICK p \in 1..m : s[p].samples = {j}
        BY <1>8, <2>1 DEF PairsPlaced
      <3>2. p \in 1..Len(t) /\ t[p] = s[p]
        BY <1>3, <3>1
      <3> QED
        BY <3>1, <3>2
    <2>2. CASE j = i + 1
      <3>1. m + 1 \in 1..Len(t)
        BY <1>3
      <3> QED
        BY <1>1, <1>3, <2>2, <3>1
    <2> QED
      BY <2>1, <2>2
  <1> QED
    BY <1>3, <1>6, <1>7, <1>8 DEF PairsPlaced

\* A box that is no moof, or has no mdat behind it, adds nothing
LEMMA PairSkipped ==
    ASSUME NEW i \in Nat, NEW frame, NEW timescale, NEW s, PairsPlaced(s, i, frame, timescale),
           ~IsPair(i + 1)
    PROVE  PairsPlaced(s, i + 1, frame, timescale)
  <1>1. 1..i \subseteq 1 .. i + 1 /\ \A j \in 1 .. i + 1 : j \in 1..i \/ j = i + 1
    OBVIOUS
  <1>2. \A p \in 1..Len(s) : PairPlaced(s, p, i + 1, frame, timescale)
    BY <1>1 DEF PairsPlaced, PairPlaced
  <1>3. \A j \in 1 .. i + 1 : IsPair(j) => \E p \in 1..Len(s) : s[p].samples = {j}
    BY <1>1 DEF PairsPlaced
  <1> QED
    BY <1>2, <1>3 DEF PairsPlaced

\* The loop of extract_fragmented_segments places every pair
LEMMA PairsGood ==
    ASSUME Len(boxes) \in Nat, NEW frame, NEW timescale
    PROVE  PairsPlaced(PairsUpto(frame, timescale)[Len(boxes)], Len(boxes), frame, timescale)
  <1> DEFINE n == Len(boxes)
             f == PairsUpto(frame, timescale)
             P == {i \in 0..n : PairsPlaced(f[i], i, frame, timescale)}
  <1>1. f[0] = <<>> /\ \A i \in 1..n : f[i] = AddPair(f, frame, timescale, i)
    BY PairsRecursion
  <1> HIDE DEF f
  <1>2. 0 \in P
    <2>1. IsSeq(f[0]) /\ Len(f[0]) = 0
      BY <1>1, NoneSeq
    <2>2. 1..0 = {} /\ 0 \in 0..n
      OBVIOUS
    <2>3. PairsPlaced(f[0], 0, frame, timescale)
      BY <2>1, <2>2 DEF PairsPlaced
    <2> QED
      BY <2>2, <2>3
  <1>3. ASSUME NEW i \in 0 .. n - 1, i \in P PROVE i + 1 \in P
    <2>1. i + 1 \in 1..n /\ (i + 1) - 1 = i /\ i + 1 \in 0..n /\ i \in Nat
      OBVIOUS
    <2> DEFINE p == f[i]
               q == f[i + 1]
               x == PairSegment(i + 1, Len(p), frame, timescale)
    <2>2. q = IF IsPair(i + 1) THEN Append(p, x) ELSE p
      <3>1. q = AddPair(f, frame, timescale, i + 1)
        BY <1>1, <2>1
      <3>2. f[(i + 1) - 1] = p
        BY <2>1
      <3> HIDE DEF p, q
      <3> QED
        BY <3>1, <3>2, Zenon DEF AddPair
    <2>3. PairsPlaced(p, i, frame, timescale)
      BY <1>3
    <2> HIDE DEF p, q
    <2>4. CASE IsPair(i + 1)
      <3>1. Appended(q, p, PairSegment(i + 1, Len(p), frame, timescale))
        BY <2>2, <2>4 DEF Appended
      <3>2. PairsPlaced(q, i + 1, frame, timescale)
        BY <2>1, <2>3, <2>4, <3>1, PairAdded
      <3> QED
        BY <2>1, <3>2 DEF q
    <2>5. CASE ~IsPair(i + 1)
      <3>1. PairsPlaced(q, i + 1, frame, timescale)
        BY <2>1, <2>2, <2>3, <2>5, PairSkipped
      <3> QED
        BY <2>1, <3>1 DEF q
    <2> QED
      BY <2>4, <2>5
  <1>4. \A i \in 0..n : i \in P
    <2> HIDE DEF P, n
    <2>1. n \in Nat
      BY DEF n
    <2> QED
      BY <1>2, <1>3, <2>1, UpTo
  <1> QED
    BY <1>4 DEF f

\* What FragmentsRetimed says of one segment, at place p among ms
SentPair(ms, p, f, frame, timescale) ==
    LET base == (Counted(ms, 1)[p] - 1) * frame
        at   == Max(ms[p].samples)
    IN  /\ f[at].type = "moof" /\ f[at + 1].type = "mdat"
        /\ MoofRetimed(f[at].kids, ms[p].data.moof, base)
        /\ ms[p].timestamp = (base * 1000) \div timescale
        /\ \A q \in OfTrack(ms, 1) : q < p => Max(ms[q].samples) < at

\* and of all of them, for the pairs at `places` of the file f
SentPairs(ms, f, places, frame, timescale) ==
    /\ \A i \in places : \E p \in OfTrack(ms, 1) : ms[p].samples = {i}
    /\ \A p \in OfTrack(ms, 1) : SentPair(ms, p, f, frame, timescale)

\* The pairs of the file, its timescale and the duration of its fragments
PairPlaces == {i \in 1..Len(boxes) : IsPair(i)}
Rate == LET video == FirstTrack(tracks, "vide") IN IF video = <<>> THEN 1000 ELSE video[1].timescale
Frame == FrameDuration(Rate)

\* The segment of a pair is the moof and the mdat of the file at its place
LEMMA PairSent ==
    ASSUME FileInv, NEW j \in 1..Len(boxes), IsPair(j), NEW index, NEW frame, NEW timescale
    PROVE  LET s == PairSegment(j, index, frame, timescale)
               base == index * frame
           IN  /\ file[j].type = "moof" /\ file[j + 1].type = "mdat"
               /\ MoofRetimed(file[j].kids, s.data.moof, base)
               /\ s.timestamp = (base * 1000) \div timescale
               /\ Belongs(s, 1)
  <1> DEFINE base == index * frame
             b == boxes[j]
             s == PairSegment(j, index, frame, timescale)
  <1>1. Len(boxes) \in Nat /\ b \in ToSet(boxes) /\ j + 1 \in 1..Len(boxes)
    BY SeqFacts DEF FileInv, IsPair
  <1>2. file[j] = b /\ file[j + 1] = boxes[j + 1] /\ TypedBox(b)
    BY <1>1, FileFacts DEF FileInv
  <1>3. b.type = "moof" /\ boxes[j + 1].type = "mdat"
    BY DEF IsPair
  <1>4. /\ s.data.moof = ensure_moof_has_tfdt(fix_moof_tfhd_flags(b.kids), base)
        /\ s.timestamp = (base * 1000) \div timescale
        /\ s.segment_type = "media" /\ s.track_id = 1
    <2> HIDE DEF b
    <2> QED
      BY DEF PairSegment, MediaSegment, b
  <1> HIDE DEF s, b
  <1>5. MoofRetimed(b.kids, s.data.moof, base)
    <2> HIDE DEF base
    <2> QED
      BY <1>2, <1>4, PairRetimed
  <1> QED
    BY <1>2, <1>3, <1>4, <1>5 DEF Belongs, s

\* The segments of a fragmented file are the initialization segment and the pairs
LEMMA FragmentedSent ==
    ASSUME FileInv, NEW r, r = extract_fragmented_segments, r.outcome = "segmented"
    PROVE  SentPairs(r.segments, file, PairPlaces, Frame, Rate)
  <1> DEFINE timescale == Rate
             frame == Frame
             init == InitSegment(FragmentedInit)
             pairs == PairsUpto(frame, timescale)[Len(boxes)]
             ms == r.segments
             n == Len(boxes)
             a == Len(init)
  <1>1. ms = init \o pairs
    <2> DEFINE all == init \o pairs
               found == {i \in 1..Len(boxes) : IsPair(i)}
               tiny == {i \in found : HasTinyTraf(boxes[i].kids)}
    <2>1. r = IF timescale = 0 /\ found # {} THEN Failed(IF Min(found) \in tiny THEN "error" ELSE "panic")
              ELSE IF tiny # {} THEN Failed("error")
              ELSE Ok([segments |-> all, converter |-> fmp4_converter])
      BY DEF extract_fragmented_segments, Rate, Frame
    <2> HIDE DEF init, pairs, all, found, tiny
    <2>2. Failed("panic").outcome # "segmented" /\ Failed("error").outcome # "segmented"
      BY FailedResult
    <2>3. r = Ok([segments |-> all, converter |-> fmp4_converter])
      BY <2>1, <2>2 DEF all
    <2> QED
      BY <2>3, OkResult DEF all
  <1>2. IsSeq(init) /\ \A p \in 1..Len(init) : init[p].segment_type = "initialization"
    BY InitTimed DEF Timed
  <1>3. n \in Nat
    BY PlacesFacts
  <1> HIDE DEF timescale, frame
  <1>5. PairsPlaced(pairs, n, frame, timescale)
    BY <1>3, PairsGood
  <1> HIDE DEF pairs, init, ms
  <1>6. ASSUME NEW k \in 1..Len(pairs)
        PROVE  LET j == Max(pairs[k].samples)
                   base == (k - 1) * frame
               IN  /\ file[j].type = "moof" /\ file[j + 1].type = "mdat"
                   /\ MoofRetimed(file[j].kids, pairs[k].data.moof, base)
                   /\ pairs[k].timestamp = (base * 1000) \div timescale
                   /\ Belongs(pairs[k], 1)
    <2> DEFINE j == Max(pairs[k].samples)
               index == k - 1
    <2>1. j \in 1..n /\ IsPair(j) /\ pairs[k] = PairSegment(j, index, frame, timescale)
      BY <1>5 DEF PairsPlaced, PairPlaced
    <2> HIDE DEF j, index
    <2>2. LET s == PairSegment(j, index, frame, timescale)
              base == index * frame
          IN  /\ file[j].type = "moof" /\ file[j + 1].type = "mdat"
              /\ MoofRetimed(file[j].kids, s.data.moof, base)
              /\ s.timestamp = (base * 1000) \div timescale
              /\ Belongs(s, 1)
      BY <2>1, PairSent
    <2>3. LET base == index * frame
          IN  /\ file[j].type = "moof" /\ file[j + 1].type = "mdat"
              /\ MoofRetimed(file[j].kids, pairs[k].data.moof, base)
              /\ pairs[k].timestamp = (base * 1000) \div timescale
              /\ Belongs(pairs[k], 1)
      BY <2>1, <2>2
    <2> QED
      BY <2>3 DEF j, index
  <1>7. IsBlock(ms, 1, pairs, a)
    <2>1. NoneOf(init, 1) /\ AllOf(pairs, 1) /\ NoneOf(<<>>, 1)
      <3>1. Len(<<>>) = 0 /\ 1..0 = {}
        OBVIOUS
      <3> QED
        BY <1>2, <1>6, <3>1, InitBelongs DEF AllOf, NoneOf
    <2>2. Laid(ms, init, pairs, <<>>)
      <3>1. IsSeq(pairs) /\ IsSeq(<<>>)
        BY <1>5, NoneSeq DEF PairsPlaced
      <3> DEFINE q == init \o pairs
                 c == Len(pairs)
      <3>2. IsConcat(q, init, pairs, a, c)
        BY <1>2, <3>1 DEF IsConcat
      <3> HIDE DEF q, a, c
      <3>3. IsSeq(q)
        BY <3>2, Joining
      <3>4. ms = q \o <<>>
        BY <1>1, <3>3, WithNone DEF q
      <3> QED
        BY <1>2, <3>1, <3>4 DEF Laid, InOrder, q
    <2> QED
      BY <2>1, <2>2, InnerBlock
  <1>8. /\ a \in Nat /\ Len(pairs) \in Nat /\ OfTrack(ms, 1) = a + 1 .. a + Len(pairs)
        /\ \A p \in 1..Len(pairs) : ms[a + p] = pairs[p]
    BY <1>7, SeqFacts DEF IsBlock
  <1>9. ASSUME NEW p \in OfTrack(ms, 1)
        PROVE  p - a \in 1..Len(pairs) /\ Counted(ms, 1)[p] = p - a /\ ms[p] = pairs[p - a]
    <2> HIDE DEF a
    <2> QED
      BY <1>7, BlockCounted
  <1> HIDE DEF a
  <1>10. ASSUME NEW i \in 1..n, IsPair(i) PROVE \E p \in OfTrack(ms, 1) : ms[p].samples = {i}
    <2>1. PICK k \in 1..Len(pairs) : pairs[k].samples = {i}
      BY <1>5, <1>10 DEF PairsPlaced
    <2>2. a + k \in OfTrack(ms, 1) /\ ms[a + k] = pairs[k]
      BY <1>8
    <2> QED
      BY <2>1, <2>2
  <1>11. ASSUME NEW p \in OfTrack(ms, 1) PROVE SentPair(ms, p, file, frame, timescale)
    <2> DEFINE k == p - a
    <2>1. k \in 1..Len(pairs) /\ Counted(ms, 1)[p] = k /\ ms[p] = pairs[k]
      BY <1>9
    <2> HIDE DEF k
    <2>2. LET j == Max(pairs[k].samples)
              base == (k - 1) * frame
          IN  /\ file[j].type = "moof" /\ file[j + 1].type = "mdat"
              /\ MoofRetimed(file[j].kids, pairs[k].data.moof, base)
              /\ pairs[k].timestamp = (base * 1000) \div timescale
      BY <1>6, <2>1
    <2>3. ASSUME NEW q \in OfTrack(ms, 1), q < p PROVE Max(ms[q].samples) < Max(pairs[k].samples)
      <3> DEFINE l == q - a
      <3>1. l \in 1..Len(pairs) /\ ms[q] = pairs[l]
        BY <1>9
      <3>2. l < k
        BY <1>8, <2>3 DEF k
      <3> HIDE DEF l
      <3> QED
        BY <1>5, <2>1, <3>1, <3>2 DEF PairsPlaced
    <2> QED
      BY <2>1, <2>2, <2>3 DEF SentPair
  <1> QED
    BY <1>10, <1>11 DEF SentPairs, PairPlaces, ms, frame, timescale

\* The invariant, with what it reads of the state named
FragmentsInv ==
    outcome = "segmented" /\ is_fragmented => SentPairs(mse, file, PairPlaces, Frame, Rate)

\* When the parser makes segments of a fragmented file at all, they are its moofs with an mdat
\* behind them, each once and in the order of the file; the boxes of a moof stay but for its
\* trafs and tfhd, every traf has the fragment's time and the samples it had, and its tfhd is
\* relative unless it is too short or a tiny box hides it; the timestamps rise by the fragment
\* duration (extract_fragmented_segments, fix_moof_tfhd_flags, ensure_moof_has_tfdt). The
\* data_offset of a run is not part of it.
THEOREM FragmentsAlwaysRetimed == ParserSpec => []FragmentsRetimed
  <1>1. ParserInit => FragmentsInv
    BY DEF ParserInit, FragmentsInv
  <1>2. ParserInv /\ FragmentsInv /\ [ParserNext]_parserVars => FragmentsInv'
    <2> SUFFICES ASSUME ParserInv, FragmentsInv, [ParserNext]_parserVars PROVE FragmentsInv'
      OBVIOUS
    <2>1. CASE parse_box \/ parse_end \/ parse_box_to_end
      BY <2>1 DEF parse_box, parse_end, parse_box_to_end, FragmentsInv
    <2>2. ASSUME UNCHANGED <<boxes, tracks>> PROVE UNCHANGED <<PairPlaces, Frame, Rate>>
      <3>1. PairPlaces' = PairPlaces
        BY <2>2 DEF PairPlaces, IsPair
      <3>2. Rate' = Rate
        BY <2>2 DEF Rate
      <3>3. Frame' = Frame
        BY <2>2, <3>2 DEF Frame, FrameDuration, Places
      <3> QED
        BY <3>1, <3>2, <3>3
    <2>3. CASE \E stream \in StreamIds : generate_stream_segments(stream)
      <3>1. PICK stream \in StreamIds : generate_stream_segments(stream)
        BY <2>3
      <3>2. PICK r : r = generate_mse_segments /\ outcome' = r.outcome /\ mse' = r.segments
        BY <3>1 DEF generate_stream_segments
      <3>3. UNCHANGED <<file, boxes, tracks, is_fragmented>>
        BY <3>1 DEF generate_stream_segments
      <3>4. ASSUME outcome' = "segmented", is_fragmented
            PROVE  SentPairs(mse', file, PairPlaces, Frame, Rate)
        <4>1. r = extract_fragmented_segments /\ r.outcome = "segmented" /\ FileInv
          BY <3>2, <3>4 DEF generate_mse_segments, ParserInv
        <4> QED
          BY <3>2, <4>1, FragmentedSent
      <3> QED
        BY <2>2, <3>3, <3>4 DEF FragmentsInv
    <2>4. ASSUME UNCHANGED <<file, boxes, tracks, is_fragmented, outcome, mse>> PROVE FragmentsInv'
      BY <2>2, <2>4 DEF FragmentsInv
    <2>5. CASE generate_separate_init_segments
      <3>1. CASE outcome' = outcome
        BY <2>4, <2>5, <3>1 DEF generate_separate_init_segments
      <3>2. CASE outcome' = "panic"
        BY <3>2 DEF FragmentsInv
      <3> QED
        BY <2>5, <3>1, <3>2 DEF generate_separate_init_segments
    <2>6. CASE UNCHANGED parserVars
      BY <2>4, <2>6 DEF parserVars
    <2> QED
      BY <2>1, <2>3, <2>5, <2>6 DEF ParserNext
  <1>3. FragmentsInv => FragmentsRetimed
    <2> SUFFICES ASSUME SentPairs(mse, file, PairPlaces, Frame, Rate), outcome = "segmented", is_fragmented
                 PROVE  FragmentsRetimed
      BY DEF FragmentsInv, FragmentsRetimed
    <2> DEFINE P == OfTrack(mse, 1)
               Each(p, frame, timescale) ==
                   LET base == (Counted(mse, 1)[p] - 1) * frame
                       at   == Max(mse[p].samples)
                       old  == Passed(file[at].kids)
                       new  == mse[p].data.moof
                   IN  /\ file[at].type = "moof" /\ file[at + 1].type = "mdat"
                       /\ Len(new) = Len(old)
                       /\ \A k \in 1..Len(old) :
                            /\ new[k].type = old[k].type
                            /\ old[k].type = "traf" =>
                                 Retimed(old[k].kids, new[k].kids, base, old # Whole(file[at].kids))
                            /\ old[k].type \notin {"traf", "tfhd"} => new[k] = old[k]
                       /\ mse[p].timestamp = (base * 1000) \div timescale
                       /\ \A q \in P : q < p => Max(mse[q].samples) < at
    <2>1. \A i \in 1..Len(boxes) : IsPair(i) => \E p \in P : mse[p].samples = {i}
      BY DEF SentPairs, PairPlaces
    <2>2. ASSUME NEW p \in P PROVE Each(p, Frame, Rate)
      <3>1. SentPair(mse, p, file, Frame, Rate)
        BY DEF SentPairs
      <3> QED
        BY <3>1, Zenon DEF SentPair, MoofRetimed
    <2>3. FragmentsRetimed <=>
             /\ \A i \in 1..Len(boxes) : IsPair(i) => \E p \in P : mse[p].samples = {i}
             /\ \A p \in P : Each(p, Frame, Rate)
      BY Zenon DEF FragmentsRetimed, Frame, Rate
    <2> HIDE DEF Each
    <2> QED
      BY <2>1, <2>2, <2>3
  <1> QED
    BY <1>1, <1>2, <1>3, ParserInvariant, PTL DEF ParserSpec

-----------------------------------------------------------------------------
(* Web streaming: what a viewer of the web server has been sent *)

Items == [n : Nat, stream : Streams, kind : Kinds]
Arrivals == [stream : Streams, kind : Kinds]
ReceiverStates == [open : BOOLEAN, inbox : Seq(Items), lag : Nat, sent : Nat]
Viewers == [at : {"new", "info", "init", "stream", "closed"}, want : Streams,
            rx : ReceiverStates, delivered : Nat, last : Nat, dropped : Nat, skipped : Nat]

\* What ViewerAccounts says of one viewer: the sum, the inbox and the last one sent
AddsUp(taken, dropped, waiting, lag, sent) == taken + dropped + waiting + lag = sent
Numbers(inbox, sent) == \A i \in DOMAIN inbox : inbox[i].n = sent - Len(inbox) + i
Before(last, waiting, lag, sent) == last <= sent - waiting - lag
Account(r, taken, dropped, last) ==
    /\ AddsUp(taken, dropped, Len(r.inbox), r.lag, r.sent)
    /\ Numbers(r.inbox, r.sent)
    /\ Before(last, Len(r.inbox), r.lag, r.sent)

\* What the viewer took from its inbox
Taken(v) == v.delivered + v.skipped

\* A viewer that has not connected has nothing on its account yet
ViewerInv(v) ==
    /\ v.at = "new" => Taken(v) = 0 /\ v.dropped = 0 /\ v.last = 0 /\ ~v.rx.open
    /\ v.rx.open => Account(v.rx, Taken(v), v.dropped, v.last)

StreamingInv ==
    /\ events \in Seq(Arrivals)
    /\ client \in [Clients -> Viewers]
    /\ \A c \in Clients : ViewerInv(client[c])

-----------------------------------------------------------------------------
(* The receiver *)

LEMMA NoReceiverType == NoReceiver \in ReceiverStates /\ Subscribed \in ReceiverStates
  <1>1. <<>> \in Seq(Items)
    BY EmptySeq
  <1> QED
    BY <1>1 DEF NoReceiver, Subscribed, ReceiverStates

\* A segment with its number in the channel
Stamped(seg, n) == [seg EXCEPT !.n = n]

\* What a push does to an open receiver: the oldest is lost when it is full
LEMMA PushFields ==
    ASSUME NEW r \in ReceiverStates, NEW seg \in Items, r.open,
           NEW p, p = Push(r, seg), NEW n, n = r.sent + 1, NEW x, x = Stamped(seg, n)
    PROVE  /\ x \in Items /\ x.n = n
           /\ p \in ReceiverStates /\ p.sent = n
           /\ \/ p.inbox = Append(r.inbox, x) /\ p.lag = r.lag
              \/ /\ r.inbox # <<>> /\ p.inbox = Tail(Append(r.inbox, x))
                 /\ p.lag = r.lag + 1
  <1> DEFINE l == r.lag + 1
             all == Append(r.inbox, x)
             q == [r EXCEPT !.sent = n, !.inbox = all]
  <1>1. /\ r.inbox \in Seq(Items) /\ n \in Nat /\ l \in Nat
        /\ l = r.lag + 1
    BY DEF ReceiverStates
  <1> HIDE DEF l
  <1>2. x = [seg EXCEPT !.n = n] /\ x \in Items /\ x.n = n
    BY <1>1 DEF Items, Stamped
  <1>3. all \in Seq(Items) /\ Tail(all) \in Seq(Items)
    BY <1>1, <1>2, AppendProperties, HeadTailProperties
  <1>4. Push(r, seg) = IF Len(r.inbox) < BusCapacity THEN q
                       ELSE [q EXCEPT !.inbox = Tail(all), !.lag = l]
    BY <1>1, <1>2, <1>3 DEF Push, l, ReceiverStates
  <1> HIDE DEF all
  <1>5. q \in ReceiverStates /\ q.inbox = all /\ q.sent = n /\ q.lag = r.lag
    BY <1>1, <1>3 DEF ReceiverStates
  <1> HIDE DEF q
  <1>6. CASE Len(r.inbox) < BusCapacity
    BY <1>1, <1>2, <1>4, <1>5, <1>6 DEF all
  <1>7. CASE ~(Len(r.inbox) < BusCapacity)
    <2>1. p = [q EXCEPT !.inbox = Tail(all), !.lag = l]
      BY <1>4, <1>7
    <2>2. p \in ReceiverStates /\ p.inbox = Tail(all) /\ p.lag = l /\ p.sent = q.sent
      BY <2>1, <1>1, <1>3, <1>5 DEF ReceiverStates
    <2>3. r.inbox # <<>>
      BY <1>7, WebAssumption
    <2> QED
      BY <1>1, <1>2, <1>5, <2>2, <2>3 DEF all
  <1> QED
    BY <1>6, <1>7

\* The numbers of a queue that ends with sent, with one more at its end ...
LEMMA NumbersAppended ==
    ASSUME NEW q, NEW a, NEW k \in Nat, NEW sent \in Nat, NEW m, m = sent + 1, NEW j, j = k + 1,
           \A i \in 1 .. k : q[i].n = sent - k + i /\ a[i] = q[i],
           a[j].n = m
    PROVE  \A i \in 1 .. j : a[i].n = m - j + i
  <1> TAKE i \in 1 .. j
  <1>1. CASE i \in 1 .. k
    BY <1>1
  <1>2. CASE i = k + 1
    BY <1>2
  <1> QED
    BY <1>1, <1>2

\* ... also without its first
LEMMA Numbered ==
    ASSUME NEW r \in ReceiverStates, NEW p \in ReceiverStates, NEW x \in Items,
           x.n = p.sent, p.sent = r.sent + 1, Numbers(r.inbox, r.sent),
           \/ p.inbox = Append(r.inbox, x) /\ p.lag = r.lag
           \/ r.inbox # <<>> /\ p.inbox = Tail(Append(r.inbox, x)) /\ p.lag = r.lag + 1
    PROVE  Numbers(p.inbox, p.sent) /\ Len(p.inbox) + p.lag = Len(r.inbox) + r.lag + 1
  <1> DEFINE q == r.inbox
             t == p.inbox
             sent == r.sent
             m == p.sent
             lag == r.lag
             l == p.lag
  <1>0. /\ q \in Seq(Items) /\ sent \in Nat /\ lag \in Nat /\ m = sent + 1 /\ x.n = m
        /\ Numbers(q, sent)
        /\ \/ t = Append(q, x) /\ l = lag
           \/ q # <<>> /\ t = Tail(Append(q, x)) /\ l = lag + 1
    BY DEF ReceiverStates
  <1> SUFFICES Numbers(t, m) /\ Len(t) + l = Len(q) + lag + 1
    OBVIOUS
  <1> HIDE DEF q, t, sent, m, lag, l
  <1> DEFINE k == Len(q)
             j == k + 1
             a == Append(q, x)
  <1>1. k \in Nat /\ DOMAIN q = 1 .. k /\ j = k + 1 /\ m \in Nat
    BY <1>0
  <1>2. /\ a \in Seq(Items) /\ Len(a) = j /\ a # <<>>
        /\ \A i \in 1 .. k : a[i] = q[i]
        /\ a[j] = x
    BY <1>0, AppendProperties
  <1>3. \A i \in 1 .. k : q[i].n = sent - k + i /\ a[i] = q[i]
    BY <1>0, <1>1, <1>2 DEF Numbers
  <1>4. DOMAIN a = 1 .. j /\ a[j].n = m
    BY <1>0, <1>1, <1>2
  <1> HIDE DEF a, k, j
  <1>5. \A i \in 1 .. j : a[i].n = m - j + i
    BY <1>0, <1>1, <1>3, <1>4, NumbersAppended
  <1>6. Tail(a) \in Seq(Items) /\ Len(Tail(a)) = k /\ DOMAIN Tail(a) = 1 .. k
        /\ \A i \in 1 .. k : Tail(a)[i] = a[i + 1]
    BY <1>1, <1>2, HeadTailProperties
  <1>7. \A i \in 1 .. k : Tail(a)[i].n = m - k + i
    <2> TAKE i \in 1 .. k
    <2>1. i + 1 \in 1 .. j
      BY <1>1
    <2>2. Tail(a)[i].n = m - j + (i + 1)
      BY <1>5, <1>6, <2>1
    <2>3. i \in Nat /\ m - j + (i + 1) = m - k + i
      BY <1>1
    <2> QED
      BY <2>2, <2>3
  <1>8. Numbers(a, m)
    BY <1>2, <1>4, <1>5, Zenon DEF Numbers
  <1>9. Numbers(Tail(a), m)
    BY <1>6, <1>7, Zenon DEF Numbers
  <1>10. CASE t = a /\ l = lag
    <2>1. j + lag = k + lag + 1
      BY <1>0, <1>1
    <2> QED
      BY <1>2, <1>8, <1>10, <2>1, Zenon DEF k
  <1>11. CASE t = Tail(a) /\ l = lag + 1
    <2>1. k + (lag + 1) = k + lag + 1
      BY <1>0, <1>1
    <2> QED
      BY <1>6, <1>9, <1>11, <2>1, Zenon DEF k
  <1> QED
    BY <1>0, <1>10, <1>11 DEF a

LEMMA PushAccount ==
    ASSUME NEW r \in ReceiverStates, NEW seg \in Items, r.open, NEW p, p = Push(r, seg),
           NEW d \in Nat, NEW dropped \in Nat, NEW last \in Nat, Account(r, d, dropped, last)
    PROVE  p \in ReceiverStates /\ Account(p, d, dropped, last)
  <1> DEFINE n == r.sent + 1
             x == Stamped(seg, n)
  <1>1. n = r.sent + 1 /\ x = Stamped(seg, n)
    OBVIOUS
  <1> HIDE DEF n, x
  <1>2. /\ x \in Items /\ x.n = n
        /\ p \in ReceiverStates /\ p.sent = n
        /\ \/ p.inbox = Append(r.inbox, x) /\ p.lag = r.lag
           \/ r.inbox # <<>> /\ p.inbox = Tail(Append(r.inbox, x)) /\ p.lag = r.lag + 1
    BY PushFields DEF n, x
  <1>3. Numbers(p.inbox, p.sent) /\ Len(p.inbox) + p.lag = Len(r.inbox) + r.lag + 1
    <2>1. Numbers(r.inbox, r.sent) /\ p.sent = r.sent + 1 /\ x.n = p.sent
      BY <1>1, <1>2 DEF Account
    <2> QED
      BY <1>2, <2>1, Numbered
  <1>4. r.sent \in Nat /\ r.lag \in Nat /\ Len(r.inbox) \in Nat
    BY DEF ReceiverStates
  <1>5. p.sent \in Nat /\ p.lag \in Nat /\ Len(p.inbox) \in Nat
    BY <1>2 DEF ReceiverStates
  <1> DEFINE k == Len(r.inbox)
             j == Len(p.inbox)
             lag == r.lag
             l == p.lag
             sent == r.sent
             m == p.sent
  <1>6. /\ k \in Nat /\ j \in Nat /\ lag \in Nat /\ l \in Nat /\ sent \in Nat /\ m \in Nat
        /\ m = sent + 1 /\ j + l = k + lag + 1
        /\ AddsUp(d, dropped, k, lag, sent) /\ Before(last, k, lag, sent)
    BY <1>1, <1>2, <1>3, <1>4, <1>5 DEF Account
  <1>7. SUFFICES AddsUp(d, dropped, j, l, m) /\ Before(last, j, l, m)
    BY <1>2, <1>3 DEF Account
  <1> HIDE DEF k, j, lag, l, sent, m
  <1> QED
    BY <1>6 DEF AddsUp, Before

\* A segment more keeps a viewer's account
LEMMA PushKeeps ==
    ASSUME NEW v \in Viewers, ViewerInv(v), NEW seg \in Items,
           NEW w, w = [v EXCEPT !.rx = Push(@, seg)]
    PROVE  w \in Viewers /\ ViewerInv(w)
  <1> DEFINE r == v.rx
             p == Push(r, seg)
  <1>1. r \in ReceiverStates
    BY DEF Viewers
  <1>2. CASE ~r.open
    <2>1. p = r
      BY <1>2 DEF Push
    <2>2. w = v
      BY <2>1 DEF Viewers
    <2> QED
      BY <2>2
  <1>3. CASE r.open
    <2>1. Account(r, Taken(v), v.dropped, v.last) /\ v.at # "new" /\ p = Push(r, seg)
      BY <1>3 DEF ViewerInv
    <2>2. Taken(v) \in Nat /\ v.dropped \in Nat /\ v.last \in Nat
      BY DEF Viewers, Taken
    <2> HIDE DEF p, r
    <2>3. p \in ReceiverStates /\ Account(p, Taken(v), v.dropped, v.last)
      BY <1>1, <1>3, <2>1, <2>2, PushAccount
    <2>4. /\ w \in Viewers /\ w.rx = p /\ w.at = v.at
          /\ Taken(w) = Taken(v) /\ w.dropped = v.dropped /\ w.last = v.last
      BY <2>3 DEF Viewers, Taken, p, r
    <2> QED
      BY <2>1, <2>3, <2>4 DEF ViewerInv
  <1> QED
    BY <1>2, <1>3

-----------------------------------------------------------------------------
(* Steps *)

LEMMA SetClientKeeps ==
    ASSUME StreamingInv, NEW c \in Clients, NEW w \in Viewers, ViewerInv(w), SetClient(c, w),
           events' \in Seq(Arrivals)
    PROVE  StreamingInv'
  BY DEF StreamingInv, SetClient

LEMMA BroadcastKeeps ==
    ASSUME StreamingInv, NEW s \in Streams, NEW kind \in Kinds,
           Broadcast(s, kind), events' \in Seq(Arrivals)
    PROVE  StreamingInv'
  <1> DEFINE seg == [n |-> 0, stream |-> s, kind |-> kind]
             Pushed(c) == [client[c] EXCEPT !.rx = Push(@, seg)]
  <1>1. seg \in Items
    BY DEF Items
  <1> HIDE DEF seg
  <1>2. CASE UNCHANGED client
    BY <1>2 DEF StreamingInv
  <1>3. CASE client' = [c \in Clients |-> Pushed(c)]
    <2>1. ASSUME NEW c \in Clients PROVE Pushed(c) \in Viewers /\ ViewerInv(Pushed(c))
      <3>1. client[c] \in Viewers /\ ViewerInv(client[c])
        BY DEF StreamingInv
      <3> QED
        BY <1>1, <3>1, PushKeeps
    <2> HIDE DEF Pushed
    <2> QED
      BY <1>3, <2>1 DEF StreamingInv
  <1> QED
    BY <1>2, <1>3 DEF Broadcast, bus, seg

\* The socket is gone
LEMMA ClosedKeeps ==
    ASSUME StreamingInv, NEW c \in Clients
    PROVE  Closed(c) \in Viewers /\ ViewerInv(Closed(c))
  <1>1. client[c].want \in Streams
    BY DEF StreamingInv, Viewers
  <1>2. NoReceiver \in ReceiverStates /\ ~NoReceiver.open
    BY NoReceiverType DEF NoReceiver
  <1>3. Closed(c) \in Viewers /\ Closed(c).rx = NoReceiver /\ Closed(c).at = "closed"
    BY <1>1, <1>2, WebAssumption DEF Closed, NewClient, Viewers
  <1> QED
    BY <1>2, <1>3 DEF ViewerInv

LEMMA InitStreaming == Init => StreamingInv
  <1> SUFFICES ASSUME Init PROVE StreamingInv
    OBVIOUS
  <1>1. NoReceiver \in ReceiverStates /\ ~NoReceiver.open
    BY NoReceiverType DEF NoReceiver
  <1>2. NewClient \in Viewers /\ ViewerInv(NewClient)
    BY <1>1, WebAssumption DEF NewClient, Viewers, ViewerInv, Taken
  <1>3. events \in Seq(Arrivals)
    BY DEF Init
  <1> QED
    BY <1>2, <1>3 DEF Init, StreamingInv

\* A viewer after it was sent the head of its inbox, after it passed it over, and after
\* it was told of a loss
Received(v) ==
    [v EXCEPT !.rx.inbox = Tail(@), !.delivered = @ + 1, !.last = Head(v.rx.inbox).n]

PassedOver(v) == [v EXCEPT !.rx.inbox = Tail(@), !.skipped = @ + 1]

Told(v, n) == [v EXCEPT !.rx.lag = 0, !.dropped = n]

LEMMA ToldFields ==
    ASSUME NEW v \in Viewers, NEW n \in Nat, NEW w, w = Told(v, n)
    PROVE  /\ w \in Viewers /\ w.at = v.at /\ Taken(w) = Taken(v) /\ w.dropped = n
           /\ w.skipped = v.skipped
           /\ w.last = v.last /\ w.rx.inbox = v.rx.inbox /\ w.rx.sent = v.rx.sent
           /\ w.rx.lag = 0 /\ w.rx.open = v.rx.open
  BY DEF Viewers, ReceiverStates, Told, Taken

\* The viewer takes the segment at the head of its inbox
LEMMA RecvKeeps ==
    ASSUME NEW v \in Viewers, ViewerInv(v), v.at = "stream", v.rx.lag = 0, v.rx.inbox # <<>>,
           NEW w, w = Received(v) \/ w = PassedOver(v)
    PROVE  w \in Viewers /\ ViewerInv(w)
  <1> DEFINE q == v.rx.inbox
             k == Len(q)
             t == Tail(q)
             d == Taken(v) + 1
             sent == v.rx.sent
             last == w.last
  <1>1. /\ q \in Seq(Items) /\ sent \in Nat /\ k \in Nat /\ k > 0 /\ DOMAIN q = 1 .. k
        /\ Taken(v) \in Nat /\ v.dropped \in Nat /\ d \in Nat /\ v.last \in Nat
        /\ v.delivered \in Nat /\ v.skipped \in Nat
    BY DEF Viewers, ReceiverStates, Taken
  <1>2. /\ t \in Seq(Items) /\ Len(t) = k - 1 /\ DOMAIN t = 1 .. k - 1
        /\ \A i \in 1 .. k - 1 : t[i] = q[i + 1]
        /\ Head(q) = q[1] /\ Head(q) \in Items
    BY <1>1, HeadTailProperties
  <1>3. Head(q).n \in Nat
    BY <1>2 DEF Items
  <1>4. /\ w \in Viewers /\ w.at = "stream" /\ Taken(w) = d /\ w.dropped = v.dropped
        /\ last \in {Head(q).n, v.last} /\ w.rx.inbox = t /\ w.rx.sent = sent /\ w.rx.lag = 0
        /\ w.rx.open = v.rx.open
    <2>1. v.delivered + 1 \in Nat /\ v.skipped + 1 \in Nat
      BY <1>1
    <2>2. CASE w = Received(v)
      <3>1. /\ w \in Viewers /\ w.at = "stream" /\ w.dropped = v.dropped
            /\ w.delivered = v.delivered + 1 /\ w.skipped = v.skipped
            /\ last = Head(q).n /\ w.rx.inbox = t /\ w.rx.sent = sent /\ w.rx.lag = 0
            /\ w.rx.open = v.rx.open
        BY <1>1, <1>2, <1>3, <2>1, <2>2 DEF Viewers, ReceiverStates, Received
      <3>2. Taken(w) = d
        BY <1>1, <3>1 DEF Taken
      <3> QED
        BY <3>1, <3>2
    <2>3. CASE w = PassedOver(v)
      <3>1. /\ w \in Viewers /\ w.at = "stream" /\ w.dropped = v.dropped
            /\ w.delivered = v.delivered /\ w.skipped = v.skipped + 1
            /\ last = v.last /\ w.rx.inbox = t /\ w.rx.sent = sent /\ w.rx.lag = 0
            /\ w.rx.open = v.rx.open
        BY <1>1, <1>2, <2>1, <2>3 DEF Viewers, ReceiverStates, PassedOver
      <3>2. Taken(w) = d
        BY <1>1, <3>1 DEF Taken
      <3> QED
        BY <3>1, <3>2
    <2> QED
      BY <2>2, <2>3
  <1>5. ASSUME v.rx.open PROVE Account(w.rx, d, v.dropped, last)
    <2>1. /\ AddsUp(Taken(v), v.dropped, k, 0, sent) /\ Numbers(q, sent)
          /\ Before(v.last, k, 0, sent)
      BY <1>5 DEF ViewerInv, Account
    <2>2. \A i \in 1 .. k : q[i].n = sent - k + i
      BY <1>1, <2>1 DEF Numbers
    <2> HIDE DEF q, k, t, sent, last
    <2>3. \A i \in 1 .. k - 1 : t[i].n = sent - (k - 1) + i
      <3> TAKE i \in 1 .. k - 1
      <3>1. i + 1 \in 1 .. k /\ t[i] = q[i + 1]
        BY <1>1, <1>2
      <3>2. t[i].n = sent - k + (i + 1)
        BY <2>2, <3>1
      <3>3. sent - k + (i + 1) = sent - (k - 1) + i
        BY <1>1
      <3> QED
        BY <3>2, <3>3
    <2>4. Numbers(t, sent)
      BY <1>2, <2>3, Zenon DEF Numbers
    <2>5. AddsUp(d, v.dropped, k - 1, 0, sent)
      BY <1>1, <2>1 DEF AddsUp
    <2>6. Head(q).n = sent - k + 1
      BY <1>1, <1>2, <2>2
    <2>7. Before(last, k - 1, 0, sent)
      BY <1>1, <1>4, <2>1, <2>6 DEF Before
    <2> QED
      BY <1>2, <1>4, <2>4, <2>5, <2>7 DEF Account
  <1> QED
    BY <1>4, <1>5 DEF ViewerInv

\* The viewer is told how many it lost
LEMMA LaggedKeeps ==
    ASSUME NEW v \in Viewers, ViewerInv(v), v.at = "stream",
           NEW w, w = Told(v, v.dropped + v.rx.lag)
    PROVE  w \in Viewers /\ ViewerInv(w)
  <1> DEFINE k == Len(v.rx.inbox)
             lag == v.rx.lag
             sent == v.rx.sent
             dropped == v.dropped + lag
  <1>1. /\ k \in Nat /\ lag \in Nat /\ sent \in Nat /\ dropped \in Nat
        /\ Taken(v) \in Nat /\ v.last \in Nat /\ v.dropped \in Nat
    BY DEF Viewers, ReceiverStates, Taken
  <1>2. /\ w \in Viewers /\ w.at = "stream" /\ Taken(w) = Taken(v) /\ w.dropped = dropped
        /\ w.last = v.last /\ w.rx.inbox = v.rx.inbox /\ w.rx.sent = sent /\ w.rx.lag = 0
        /\ w.rx.open = v.rx.open
    <2> HIDE DEF dropped
    <2>1. w = Told(v, dropped)
      BY DEF dropped
    <2>2. dropped \in Nat
      BY <1>1
    <2>3. /\ w \in Viewers /\ w.at = v.at /\ Taken(w) = Taken(v) /\ w.dropped = dropped
          /\ w.last = v.last /\ w.rx.inbox = v.rx.inbox /\ w.rx.sent = v.rx.sent
          /\ w.rx.lag = 0 /\ w.rx.open = v.rx.open
      BY <2>1, <2>2, ToldFields
    <2> QED
      BY <2>3
  <1>3. ASSUME v.rx.open PROVE Account(w.rx, Taken(v), dropped, v.last)
    <2>1. /\ AddsUp(Taken(v), v.dropped, k, lag, sent) /\ Numbers(v.rx.inbox, sent)
          /\ Before(v.last, k, lag, sent)
      BY <1>3 DEF ViewerInv, Account
    <2> HIDE DEF k, lag, sent
    <2>2. AddsUp(Taken(v), dropped, k, 0, sent) /\ Before(v.last, k, 0, sent)
      BY <1>1, <2>1 DEF AddsUp, Before
    <2> QED
      BY <1>2, <2>1, <2>2 DEF Account, k, sent
  <1> QED
    BY <1>2, <1>3 DEF ViewerInv

\* The viewer connects
LEMMA ConnectKeeps ==
    ASSUME NEW v \in Viewers, ViewerInv(v), v.at = "new", NEW s \in Streams,
           NEW w, w = [v EXCEPT !.at = "info", !.want = s, !.rx = Subscribed]
    PROVE  w \in Viewers /\ ViewerInv(w)
  <1>1. /\ w \in Viewers /\ w.at = "info" /\ w.rx = Subscribed
        /\ Taken(w) = Taken(v) /\ w.dropped = v.dropped /\ w.last = v.last
    BY NoReceiverType DEF Viewers, Taken
  <1>2. Taken(v) = 0 /\ v.dropped = 0 /\ v.last = 0
    BY DEF ViewerInv
  <1>3. Subscribed.inbox = <<>> /\ Subscribed.lag = 0 /\ Subscribed.sent = 0
    BY DEF Subscribed, NoReceiver
  <1>4. Account(Subscribed, 0, 0, 0)
    BY <1>3 DEF Account, AddsUp, Numbers, Before
  <1> QED
    BY <1>1, <1>2, <1>4 DEF ViewerInv

\* Another stage of the socket
LEMMA StageKeeps ==
    ASSUME NEW v \in Viewers, ViewerInv(v), NEW a \in {"init", "stream"},
           NEW w, w = [v EXCEPT !.at = a]
    PROVE  w \in Viewers /\ ViewerInv(w)
  BY DEF Viewers, ViewerInv, Taken

-----------------------------------------------------------------------------
(* One step *)

LEMMA ManagerStep ==
    ASSUME StreamingInv, NEW k \in Starts, start_streaming(k) \/ Manager(k)
    PROVE  StreamingInv'
  <1>1. events' = events /\ events \in Seq(Arrivals)
    BY DEF StreamingInv, start_streaming, Manager, start_announce, play_begin, play_segment,
           play_loop, overlay
  <1>2. UNCHANGED client \/ Broadcast(Own, "metadata") \/ Broadcast(Own, "media")
    BY DEF start_streaming, Manager, start_announce, play_begin, play_segment, play_loop,
           PlayEnd, bus
  <1> QED
    BY <1>1, <1>2, BroadcastKeeps, WebAssumption DEF StreamingInv, Kinds

LEMMA ListenerStep ==
    ASSUME StreamingInv, Listen
    PROVE  StreamingInv'
  <1> PICK l \in listeners : listener_take(l) \/ listener_stop(l)
    BY DEF Listen
  <1>1. CASE listener_stop(l)
    BY <1>1 DEF StreamingInv, listener_stop, overlay, bus
  <1>2. CASE listener_take(l)
    <2>1. Tail(events) \in Seq(Arrivals) /\ Head(events) \in Arrivals
      BY <1>2, HeadTailProperties DEF StreamingInv, listener_take
    <2>2. events' \in Seq(Arrivals)
      BY <1>2, <2>1 DEF listener_take
    <2>3. UNCHANGED client \/ Broadcast(Head(events).stream, Head(events).kind)
      BY <1>2 DEF listener_take, bus
    <2>4. Head(events).stream \in Streams /\ Head(events).kind \in Kinds
      BY <2>1 DEF Arrivals
    <2> QED
      BY <2>2, <2>3, <2>4, BroadcastKeeps DEF StreamingInv
  <1> QED
    BY <1>1, <1>2

LEMMA ViewerStep ==
    ASSUME StreamingInv, NEW c \in Clients,
           Viewer(c) \/ disconnect(c) \/ \E s \in Streams : connect(c, s)
    PROVE  StreamingInv'
  <1>1. /\ client[c] \in Viewers /\ ViewerInv(client[c])
        /\ Closed(c) \in Viewers /\ ViewerInv(Closed(c))
    BY ClosedKeeps DEF StreamingInv
  <1>2. events' \in Seq(Arrivals)
    BY DEF StreamingInv, Viewer, send_stream_info, send_init, recv_segment, recv_lagged,
           end_of_stream, disconnect, connect, overlay
  <1>3. CASE SetClient(c, Closed(c))
    BY <1>1, <1>2, <1>3, SetClientKeeps
  <1>4. ASSUME NEW a \in {"init", "stream"}, SetClient(c, [client[c] EXCEPT !.at = a])
        PROVE  StreamingInv'
    <2> DEFINE w == [client[c] EXCEPT !.at = a]
    <2>1. w \in Viewers /\ ViewerInv(w)
      BY <1>1, StageKeeps
    <2> QED
      BY <1>2, <1>4, <2>1, SetClientKeeps
  <1>5. CASE send_stream_info(c) \/ send_init(c)
    BY <1>3, <1>4, <1>5 DEF send_stream_info, send_init, HandshakeFails
  <1>6. CASE recv_segment(c)
    <2> DEFINE v == client[c]
               w == Received(v)
               u == PassedOver(v)
    <2>1. v.at = "stream" /\ v.rx.lag = 0 /\ v.rx.inbox # <<>>
      BY <1>6 DEF recv_segment
    <2>2. w \in Viewers /\ ViewerInv(w) /\ u \in Viewers /\ ViewerInv(u)
      BY <1>1, <2>1, RecvKeeps
    <2>3. SetClient(c, w) \/ SetClient(c, u) \/ SetClient(c, Closed(c))
      BY <1>6 DEF recv_segment, Leave, Received, PassedOver
    <2> HIDE DEF w, u
    <2> QED
      BY <1>2, <1>3, <2>2, <2>3, SetClientKeeps
  <1>7. CASE recv_lagged(c)
    <2> DEFINE v == client[c]
               w == Told(v, v.dropped + v.rx.lag)
    <2>1. v.at = "stream" /\ SetClient(c, w)
      BY <1>7 DEF recv_lagged, Told
    <2>2. w \in Viewers /\ ViewerInv(w)
      BY <1>1, <2>1, LaggedKeeps
    <2> HIDE DEF w
    <2> QED
      BY <1>2, <2>1, <2>2, SetClientKeeps
  <1>8. CASE end_of_stream(c) \/ disconnect(c)
    BY <1>3, <1>8 DEF end_of_stream, disconnect, Leave
  <1>9. ASSUME NEW s \in Streams, connect(c, s) PROVE StreamingInv'
    <2> DEFINE w == [client[c] EXCEPT !.at = "info", !.want = s, !.rx = Subscribed]
    <2>1. client[c].at = "new" /\ SetClient(c, w)
      BY <1>9 DEF connect
    <2>2. w \in Viewers /\ ViewerInv(w)
      BY <1>1, <2>1, ConnectKeeps
    <2> HIDE DEF w
    <2> QED
      BY <1>2, <2>1, <2>2, SetClientKeeps
  <1> QED
    BY <1>5, <1>6, <1>7, <1>8, <1>9 DEF Viewer

LEMMA OtherStep ==
    ASSUME StreamingInv,
           \/ stop_streaming \/ player_begin \/ player_segment
           \/ \E s \in Streams, kind \in Kinds : Arrive(s, kind)
           \/ \E r \in Relays : \/ relay_unsubscribe(r) \/ relay_take(r) \/ relay_recv(r)
                                \/ relay_forward(r) \/ relay_close(r)
                                \/ \E s \in Streams : relay_subscribe(r, s)
           \/ UNCHANGED vars
    PROVE  StreamingInv'
  <1>1. CASE stop_streaming \/ player_begin \/ UNCHANGED vars
    BY <1>1 DEF StreamingInv, stop_streaming, player_begin, overlay, bus, vars
  <1>2. CASE player_segment
    <2>1. events' \in Seq(Arrivals) /\ Broadcast(Own, "media")
      BY <1>2 DEF StreamingInv, player_segment, overlay
    <2> QED
      BY <2>1, BroadcastKeeps, WebAssumption DEF Kinds
  <1>3. ASSUME NEW s \in Streams, NEW kind \in Kinds, Arrive(s, kind)
        PROVE  StreamingInv'
    <2> DEFINE e == [stream |-> s, kind |-> kind]
    <2>1. e \in Arrivals /\ events' = Append(events, e) /\ UNCHANGED client
      BY <1>3 DEF Arrivals, Arrive, bus
    <2> QED
      BY <2>1, AppendProperties DEF StreamingInv
  <1>4. ASSUME NEW r \in Relays,
               \/ relay_unsubscribe(r) \/ relay_recv(r) \/ relay_forward(r) \/ relay_close(r)
               \/ \E s \in Streams : relay_subscribe(r, s)
        PROVE  StreamingInv'
    <2>1. UNCHANGED <<events, client>>
      BY <1>4 DEF relay_unsubscribe, relay_recv, relay_forward, relay_close, relay_subscribe,
                  overlay
    <2> QED
      BY <2>1 DEF StreamingInv
  <1>5. ASSUME NEW r \in Relays, relay_take(r) PROVE StreamingInv'
    <2>1. events' = Tail(events) /\ events # <<>> /\ UNCHANGED client
      BY <1>5 DEF relay_take
    <2>2. Tail(events) \in Seq(Arrivals)
      BY <2>1, HeadTailProperties DEF StreamingInv
    <2> QED
      BY <2>1, <2>2 DEF StreamingInv
  <1> QED
    BY <1>1, <1>2, <1>3, <1>4, <1>5

-----------------------------------------------------------------------------
(* Without the overlay no metadata is bare, and none is passed over *)

Clean(v) == v.skipped = 0 /\ \A i \in DOMAIN v.rx.inbox : v.rx.inbox[i].kind # "bare"

LocalInv == Local => events = <<>> /\ \A c \in Clients : Clean(client[c])

\* What a push puts into the inbox is of the kind of the segment
LEMMA PushedKind ==
    ASSUME NEW r \in ReceiverStates, NEW seg \in Items, r.open, NEW p, p = Push(r, seg)
    PROVE  \E x \in Items : /\ x.kind = seg.kind
                            /\ p.inbox = Append(r.inbox, x) \/ p.inbox = Tail(Append(r.inbox, x))
  <1> DEFINE n == r.sent + 1
             x == Stamped(seg, n)
  <1>1. n = r.sent + 1 /\ x = Stamped(seg, n)
    OBVIOUS
  <1>2. x.kind = seg.kind
    BY DEF Stamped, Items
  <1> HIDE DEF n, x
  <1>3. /\ x \in Items
        /\ p.inbox = Append(r.inbox, x) \/ p.inbox = Tail(Append(r.inbox, x))
    BY PushFields DEF n, x
  <1> QED
    BY <1>2, <1>3

NotBare(q) == \A i \in 1 .. Len(q) : q[i].kind # "bare"

LEMMA AppendedNotBare ==
    ASSUME NEW q \in Seq(Items), NotBare(q), NEW x \in Items, x.kind # "bare"
    PROVE  /\ Append(q, x) \in Seq(Items) /\ NotBare(Append(q, x))
           /\ Tail(Append(q, x)) \in Seq(Items) /\ NotBare(Tail(Append(q, x)))
  <1> DEFINE a == Append(q, x)
  <1>1. /\ a \in Seq(Items) /\ a # <<>> /\ Len(a) = Len(q) + 1 /\ Len(q) \in Nat
        /\ \A i \in 1 .. Len(q) : a[i] = q[i]
        /\ a[Len(q) + 1] = x
    BY AppendProperties
  <1> HIDE DEF a
  <1>2. ASSUME NEW i \in 1 .. Len(a) PROVE a[i].kind # "bare"
    <2>1. CASE i \in 1 .. Len(q)
      BY <1>1, <2>1 DEF NotBare
    <2>2. CASE i = Len(q) + 1
      BY <1>1, <2>2
    <2> QED
      BY <1>1, <2>1, <2>2
  <1>3. /\ Tail(a) \in Seq(Items) /\ Len(Tail(a)) = Len(a) - 1
        /\ \A i \in 1 .. Len(Tail(a)) : Tail(a)[i] = a[i + 1]
    BY <1>1, HeadTailProperties
  <1>4. ASSUME NEW i \in 1 .. Len(Tail(a)) PROVE Tail(a)[i].kind # "bare"
    <2>1. i + 1 \in 1 .. Len(a)
      BY <1>1, <1>3
    <2> QED
      BY <1>2, <1>3, <2>1
  <1> QED
    BY <1>1, <1>2, <1>3, <1>4 DEF NotBare, a

\* A segment more, which is not bare
LEMMA PushClean ==
    ASSUME NEW v \in Viewers, Clean(v), NEW seg \in Items, seg.kind # "bare",
           NEW w, w = [v EXCEPT !.rx = Push(@, seg)]
    PROVE  Clean(w)
  <1> DEFINE r == v.rx
             p == Push(r, seg)
  <1>1. /\ r \in ReceiverStates /\ r.inbox \in Seq(Items)
        /\ w.rx = p /\ w.skipped = 0
    BY DEF Viewers, ReceiverStates, Clean
  <1>2. NotBare(r.inbox)
    BY <1>1 DEF NotBare, Clean
  <1>3. CASE ~r.open
    BY <1>1, <1>3 DEF Push, Clean
  <1>4. CASE r.open
    <2> HIDE DEF p, r
    <2>1. PICK x \in Items : /\ x.kind = seg.kind
                             /\ \/ p.inbox = Append(r.inbox, x)
                                \/ p.inbox = Tail(Append(r.inbox, x))
      BY <1>1, <1>4, PushedKind DEF p
    <2>2. x.kind # "bare"
      BY <2>1
    <2>3. p.inbox \in Seq(Items) /\ NotBare(p.inbox)
      BY <1>1, <1>2, <2>1, <2>2, AppendedNotBare
    <2>4. \A i \in DOMAIN p.inbox : p.inbox[i].kind # "bare"
      BY <2>3 DEF NotBare
    <2> QED
      BY <1>1, <2>4 DEF Clean
  <1> QED
    BY <1>3, <1>4

LEMMA BroadcastClean ==
    ASSUME StreamingInv, \A c \in Clients : Clean(client[c]), NEW kind \in {"metadata", "media"},
           Broadcast(Own, kind)
    PROVE  \A c \in Clients : Clean(client'[c])
  <1> DEFINE seg == [n |-> 0, stream |-> Own, kind |-> kind]
             Pushed(c) == [client[c] EXCEPT !.rx = Push(@, seg)]
  <1>1. seg \in Items /\ seg.kind # "bare"
    BY WebAssumption DEF Items, Kinds
  <1> HIDE DEF seg
  <1>2. CASE UNCHANGED client
    BY <1>2
  <1>3. CASE client' = [c \in Clients |-> Pushed(c)]
    <2>1. ASSUME NEW c \in Clients PROVE Clean(Pushed(c))
      BY <1>1, PushClean DEF StreamingInv
    <2> HIDE DEF Pushed
    <2> QED
      BY <1>3, <2>1
  <1> QED
    BY <1>2, <1>3 DEF Broadcast, bus, seg

LEMMA ViewerClean ==
    ASSUME StreamingInv, \A c \in Clients : Clean(client[c]), NEW c \in Clients,
           Viewer(c) \/ disconnect(c) \/ \E s \in Streams : connect(c, s)
    PROVE  \A b \in Clients : Clean(client'[b])
  <1> DEFINE v == client[c]
             q == v.rx.inbox
  <1>1. /\ v \in Viewers /\ Clean(v) /\ q \in Seq(Items)
    BY DEF StreamingInv, Viewers, ReceiverStates
  <1>2. ASSUME NEW w, SetClient(c, w), Clean(w) PROVE \A b \in Clients : Clean(client'[b])
    BY <1>2 DEF SetClient, StreamingInv
  <1>3. Clean(Closed(c))
    BY DEF Clean, Closed, NewClient, NoReceiver
  <1>4. CASE SetClient(c, Closed(c))
    BY <1>2, <1>3, <1>4
  <1>5. ASSUME NEW a, SetClient(c, [v EXCEPT !.at = a]) PROVE \A b \in Clients : Clean(client'[b])
    <2>1. Clean([v EXCEPT !.at = a])
      BY <1>1 DEF Clean, Viewers
    <2> QED
      BY <1>2, <1>5, <2>1
  <1>6. CASE send_stream_info(c) \/ send_init(c)
    BY <1>4, <1>5, <1>6 DEF send_stream_info, send_init, HandshakeFails
  <1>7. CASE recv_segment(c)
    <2> DEFINE w == Received(v)
    <2>1. q # <<>>
      BY <1>7 DEF recv_segment
    <2>2. /\ Tail(q) \in Seq(Items) /\ Len(Tail(q)) = Len(q) - 1 /\ Head(q) = q[1]
          /\ \A i \in 1 .. Len(Tail(q)) : Tail(q)[i] = q[i + 1]
      BY <1>1, <2>1, HeadTailProperties
    <2>3. /\ \A i \in 1 .. Len(q) : q[i].kind # "bare"
          /\ v.skipped = 0 /\ Len(q) \in Nat /\ Len(q) > 0
      BY <1>1, <2>1 DEF Clean
    <2>4. SetClient(c, w) \/ SetClient(c, Closed(c))
      BY <1>7, <2>2, <2>3 DEF recv_segment, Leave, Received
    <2>5. w.rx.inbox = Tail(q) /\ w.skipped = 0
      BY <1>1, <2>3 DEF Received, Viewers, ReceiverStates
    <2>6. \A i \in 1 .. Len(Tail(q)) : Tail(q)[i].kind # "bare"
      BY <2>2, <2>3
    <2>7. Clean(w)
      BY <2>2, <2>5, <2>6 DEF Clean
    <2> HIDE DEF w
    <2> QED
      BY <1>2, <1>4, <2>4, <2>7
  <1>8. CASE recv_lagged(c)
    <2> DEFINE n == v.dropped + v.rx.lag
               w == Told(v, n)
    <2>1. SetClient(c, w) /\ n \in Nat
      BY <1>1, <1>8 DEF recv_lagged, Told, Viewers, ReceiverStates
    <2>2. w.rx.inbox = q /\ w.skipped = v.skipped
      BY <1>1, <2>1, ToldFields
    <2> HIDE DEF w
    <2> QED
      BY <1>1, <1>2, <2>1, <2>2 DEF Clean
  <1>9. CASE end_of_stream(c) \/ disconnect(c)
    BY <1>4, <1>9 DEF end_of_stream, disconnect, Leave
  <1>10. ASSUME NEW s \in Streams, connect(c, s) PROVE \A b \in Clients : Clean(client'[b])
    <2> DEFINE w == [v EXCEPT !.at = "info", !.want = s, !.rx = Subscribed]
    <2>1. SetClient(c, w)
      BY <1>10 DEF connect
    <2>2. w.rx = Subscribed /\ w.skipped = 0 /\ Subscribed.inbox = <<>>
      BY <1>1 DEF Viewers, Clean, Subscribed, NoReceiver
    <2>3. Clean(w)
      BY <2>2 DEF Clean
    <2> HIDE DEF w
    <2> QED
      BY <1>2, <2>1, <2>3
  <1> QED
    BY <1>6, <1>7, <1>8, <1>9, <1>10 DEF Viewer

LEMMA LocalStep ==
    ASSUME StreamingInv, LocalInv, [Next]_vars
    PROVE  LocalInv'
  <1> SUFFICES ASSUME Local'
               PROVE  events' = <<>> /\ \A c \in Clients : Clean(client'[c])
    BY DEF LocalInv
  <1>1. mode' = mode
    BY DEF Next, start_streaming, Manager, start_announce, play_begin, play_segment, play_loop,
           stop_streaming, player_begin, player_segment, Arrive, Listen, listener_take,
           listener_stop, Viewer, send_stream_info, send_init, recv_segment, recv_lagged,
           end_of_stream, disconnect, connect, relay_unsubscribe, relay_take, relay_recv,
           relay_forward, relay_close, relay_subscribe, control, vars
  <1>2. Local /\ events = <<>> /\ \A c \in Clients : Clean(client[c])
    BY <1>1 DEF LocalInv, Local
  <1>3. ASSUME NEW k \in Starts, start_streaming(k) \/ Manager(k)
        PROVE  events' = events /\ \A c \in Clients : Clean(client'[c])
    <2>1. events' = events
      BY <1>3 DEF start_streaming, Manager, start_announce, play_begin, play_segment, play_loop,
                  overlay
    <2>2. UNCHANGED client \/ Broadcast(Own, "metadata") \/ Broadcast(Own, "media")
      BY <1>3 DEF start_streaming, Manager, start_announce, play_begin, play_segment, play_loop,
                  PlayEnd, bus
    <2> QED
      BY <1>2, <2>1, <2>2, BroadcastClean
  <1>4. ASSUME NEW c \in Clients, Viewer(c) \/ disconnect(c) \/ \E s \in Streams : connect(c, s)
        PROVE  events' = events /\ \A b \in Clients : Clean(client'[b])
    <2>1. events' = events
      BY <1>4 DEF Viewer, send_stream_info, send_init, recv_segment, recv_lagged, end_of_stream,
                  disconnect, connect, overlay
    <2>2. \A b \in Clients : Clean(client'[b])
      BY <1>2, <1>4, ViewerClean
    <2> QED
      BY <2>1, <2>2
  <1>5. CASE player_segment
    <2>1. events' = events /\ Broadcast(Own, "media")
      BY <1>5 DEF player_segment, overlay
    <2> QED
      BY <1>2, <2>1, BroadcastClean
  <1>6. ~(\E s \in Streams, kind \in Kinds : Arrive(s, kind))
    BY <1>2 DEF Arrive
  <1>7. CASE Listen
    <2>1. UNCHANGED <<events, client>>
      BY <1>2, <1>7 DEF Listen, listener_take, listener_stop, overlay, bus
    <2> QED
      BY <1>2, <2>1
  <1>8. CASE stop_streaming \/ player_begin \/ UNCHANGED vars
    <2>1. UNCHANGED <<events, client>>
      BY <1>8 DEF stop_streaming, player_begin, overlay, bus, vars
    <2> QED
      BY <1>2, <2>1
  <1>9. ASSUME NEW r \in Relays,
               \/ relay_unsubscribe(r) \/ relay_take(r) \/ relay_recv(r)
               \/ relay_forward(r) \/ relay_close(r)
               \/ \E s \in Streams : relay_subscribe(r, s)
        PROVE  UNCHANGED <<events, client>>
    BY <1>2, <1>9 DEF relay_unsubscribe, relay_take, relay_recv, relay_forward, relay_close,
                      relay_subscribe, overlay
  <1> QED
    BY <1>2, <1>3, <1>4, <1>5, <1>6, <1>7, <1>8, <1>9 DEF Next

\* Every segment broadcast since a viewer subscribed was sent to it in order, is counted as
\* dropped, is still to come, or is metadata of the network that is not JSON, for any number
\* of viewers, tasks, listeners and browser peers and any capacity of the channel
\* (handle_websocket's writer loop).
THEOREM AlwaysViewerAccounts == Spec => []ViewerAccounts
  <1>1. StreamingInv /\ [Next]_vars => StreamingInv'
    <2> SUFFICES ASSUME StreamingInv, [Next]_vars PROVE StreamingInv'
      OBVIOUS
    <2>1. ASSUME NEW k \in Starts, start_streaming(k) \/ Manager(k) PROVE StreamingInv'
      BY <2>1, ManagerStep
    <2>2. ASSUME NEW c \in Clients, Viewer(c) \/ disconnect(c) \/ \E s \in Streams : connect(c, s)
          PROVE  StreamingInv'
      BY <2>2, ViewerStep
    <2> QED
      BY <2>1, <2>2, ListenerStep, OtherStep DEF Next
  <1>2. StreamingInv /\ LocalInv => ViewerAccounts
    <2> SUFFICES ASSUME StreamingInv, LocalInv, NEW c \in Clients, client[c].rx.open,
                        NEW v, v = client[c]
                 PROVE  /\ v.delivered + v.dropped + v.skipped + Len(v.rx.inbox) + v.rx.lag
                                = v.rx.sent
                        /\ Local => v.skipped = 0
                        /\ Numbers(v.rx.inbox, v.rx.sent)
                        /\ Before(v.last, Len(v.rx.inbox), v.rx.lag, v.rx.sent)
      BY DEF ViewerAccounts, Numbers, Before
    <2>1. Account(v.rx, Taken(v), v.dropped, v.last) /\ v \in Viewers
      BY DEF StreamingInv, ViewerInv
    <2>2. Local => v.skipped = 0
      BY DEF LocalInv, Clean
    <2>3. /\ v.delivered \in Nat /\ v.dropped \in Nat /\ v.skipped \in Nat
          /\ Len(v.rx.inbox) \in Nat /\ v.rx.lag \in Nat
      BY <2>1 DEF Viewers, ReceiverStates
    <2>4. v.delivered + v.dropped + v.skipped + Len(v.rx.inbox) + v.rx.lag = v.rx.sent
      BY <2>1, <2>3 DEF Account, AddsUp, Taken
    <2> QED
      BY <2>1, <2>2, <2>4 DEF Account
  <1>3. Init => LocalInv
    BY DEF Init, LocalInv, Clean, NewClient, NoReceiver
  <1>4. StreamingInv /\ LocalInv /\ [Next]_vars => LocalInv'
    BY LocalStep
  <1> QED
    BY <1>1, <1>2, <1>3, <1>4, InitStreaming, PTL DEF Spec
==============================================================================
